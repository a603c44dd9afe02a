---------------------------- MODULE MCModelInfo ----------------------------
EXTENDS ModelInfo

\* Two deployments of one model at two providers, and a quantized variant.
MCOrder     == <<"plain", "other", "variant">>
MCProvider  == [plain |-> "p", other |-> "q", variant |-> "q"]
MCBase      == [plain |-> "base", other |-> "base", variant |-> "quant"]
MCFallbacks == [plain |-> << >>, other |-> << >>, variant |-> <<"base">>]
MCYaml      == [plain |-> << >>, other |-> [license |-> "yaml"], variant |-> << >>]

Silent == [lists |-> << << >> >>, details |-> << >>, single |-> << >>, own |-> << >>]
PCatalogs == {Silent,
    [Silent EXCEPT !.lists = << << >>, [plain |-> [quantization |-> "api"]]>>,
                   !.details = [plain |-> [quantization |-> "detail", license |-> "mit"]]],
    [Silent EXCEPT !.own = [plain |-> [description |-> "long"]]]}
QCatalogs == {Silent,
    [Silent EXCEPT !.lists = <<[other |-> [description |-> "blog", license |-> "mit"]]>>,
                   !.single = [variant |-> [tools |-> "yes"]]]}
MCCatalogs == [p |-> PCatalogs, q |-> QCatalogs]

Card         == [description |-> "card", quantization |-> "hub"]
MCHubInfos   == [base |-> {<< >>, Card}, quant |-> {[quantization |-> "hub"]}]
MCProbeInfos == [plain |-> {[quantization |-> "probe"]}, other |-> {}, variant |-> {}]
MCLength     == [blog |-> 1, card |-> 2, long |-> 3]
MCReloads    == {{"plain", "other", "variant"}, {"plain", "variant"}}
=============================================================================
