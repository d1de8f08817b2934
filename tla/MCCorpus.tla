------------------------------- MODULE MCCorpus -------------------------------
(* A standard, a vendor and a third namespace, and one bundled base MIB. *)
EXTENDS Corpus

Modules == {"base", "std", "vendor", "other"}
ImportsOf == [m \in Modules |->
  CASE m = "base" -> {} [] m = "std" -> {"base"}
    [] m = "vendor" -> {"std", "other"} [] m = "other" -> {"base"}]
SpaceList == <<"standards", "vendors", "others">>
HoldsOf == [standards |-> {"std", "base"}, vendors |-> {"vendor", "std"}, others |-> {"other"}]
BaseOf == [pysnmp |-> {"base"}, json |-> {"base"}]
Base == {"base"}

Asked(outputs, publish, select, broken, bundle, rebuild) ==
  [outputs |-> outputs, publish |-> publish, select |-> select, broken |-> broken,
   bundle |-> bundle, rebuild |-> rebuild, overlap |-> FALSE]

Everything == {"standards", "vendors", "others"}
Two == {"standards", "vendors"}

Builds ==
  {Asked({"json", "index", "asn1"}, p, None, b, u, r) :
     p \in {Two, Everything}, b \in {{}, {"std"}, {"other"}}, u \in BOOLEAN, r \in BOOLEAN}
  \cup {Asked({"index", "site", "asn1", "standard"}, Two, s, b, TRUE, TRUE) :
           s \in {None, {"vendor"}, {"std", "base"}}, b \in {{}, {"std"}, {"other"}}}
  \cup {Asked({"json", "json_texts", "index", "site", "asn1"}, Two, None, b, TRUE, TRUE) :
           b \in {{}, {"std"}}}
  \cup {Asked({"json_texts", "asn1", "site"}, Two, None, {"std"}, TRUE, TRUE),
        Asked({"notexts", "json"}, Two, {"vendor", "other"}, {}, TRUE, TRUE),
        Asked({"notexts", "texts", "standard"}, {"others"}, None, {}, FALSE, TRUE),
        Asked({"json"}, {}, None, {}, TRUE, TRUE)}
===============================================================================
