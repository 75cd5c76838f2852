------------------------------ MODULE MCRuntime ------------------------------
(***************************************************************************)
(* Model checking the runtime's loops (RuntimeLoops): what a provider may  *)
(* write to the Coach, and the documents it is asked about.                *)
(***************************************************************************)
EXTENDS RuntimeLoops

(***************************************************************************)
(* Documents of one or two rows: two that differ, two that are alike, and  *)
(* one with a field missing.                                               *)
(***************************************************************************)
MCDocuments ==
  LET row(i, q) == [f \in Fields |-> IF f = "item" THEN i ELSE q] IN
  {<<row("a", "1")>>, <<row("a", "1"), row("b", "2")>>, <<row("a", "1"), row("a", "1")>>,
   <<row("a", "1"), row("b", "null")>>}
Prose == {<<"prose", "">>}
MCClaims ==
  [type : {"ERP_FACT"}, refs : {<<"x">>, <<"x", "y">>}, fields : {{}, {"qty"}, Fields},
   text : {Prose}]
  \cup [type : {"RETRIEVED_KNOWLEDGE", "RECOMMENDATION", "UNKNOWN"}, refs : {<<"y">>},
        fields : {{}}, text : {Prose}]
\* Citations with and without fields, with the digest of a row, of no row, and none
MCCites ==
  [type : {"LIVE_ERP"}, fields : SUBSET Fields \ {{}}, row : {0, 1, 2}, chunk : {""}]
  \cup [type : {"LIVE_ERP"}, fields : {{}, {"qty"}}, row : {0, 99}, chunk : {""}]
  \cup [type : {"RETRIEVAL"}, fields : {{}}, row : {0}, chunk : Chunks \cup {"other"}]
  \cup [type : {"MEMORY"}, fields : {{}}, row : {0}, chunk : {""}]
\* One claim, or one that cites x and another, with the citations they refer to or with none
MCOutputs ==
  LET first == {a \in MCClaims : a.refs = <<"x">>}
      claims == {<<a>> : a \in MCClaims} \cup {<<a, b>> : a \in first, b \in MCClaims}
      refs(c) == UNION {{c[n].refs[k] : k \in DOMAIN c[n].refs} : n \in DOMAIN c}
  IN UNION {[status : {"ANSWERED"}, claims : {c},
             cites : {<<>>} \cup [refs(c) -> MCCites]] : c \in claims}
     \cup [status : {"CONFLICT"}, claims : {<<a>> : a \in MCClaims}, cites : [{"y"} -> MCCites]]
     \cup [status : {"UNKNOWN", "REFUSED"}, claims : {<<>>}, cites : {<<>>}]
=============================================================================
