---------------------------- MODULE CoachAnswer ----------------------------
(***************************************************************************)
(* One contextual Coach question in the runtime (coach/runtime.py,         *)
(* coach/service.py, coach/contracts.py and FailoverProvider of            *)
(* providers.py): read the current document through the Gateway, search    *)
(* the curated sources, ask the configured providers in turn, and show an  *)
(* answer only when its citations resolve to what the server supplied.     *)
(* AppAccepts is the check the app makes of the answer it receives.        *)
(*                                                                         *)
(* A text is the set of <<field, value>> atoms it states; the prose of a   *)
(* provider is the atom <<"prose", "">>.  A citation's row is the number   *)
(* of the document row whose digest it carries, 0 for none and another     *)
(* number for a digest of no row.                                          *)
(***************************************************************************)
EXTENDS Integers, Sequences, FiniteSets, SequencesExt

CONSTANTS
  Documents, \* current documents: rows, each a function Fields -> value or Null
  Fields,    \* the live fields an answer may cite
  Chunks,    \* the chunks of the curated sources
  Roles,     \* number of configured provider roles
  Outputs    \* what a provider may write: [status, claims, cites]

\* What the contracts of the provider's output and of the index leave possible
OutputFields == {"status", "claims", "cites"}
CiteFields == {"type", "fields", "row", "chunk"}
IsSequence(s) == s \in Seq(Range(s))
Shaped(o) ==
  /\ DOMAIN o = OutputFields /\ o.status \in {"ANSWERED", "CONFLICT", "UNKNOWN", "REFUSED"}
  /\ IsSequence(o.claims)
  /\ \A n \in DOMAIN o.claims :
       IsSequence(o.claims[n].refs) /\ o.claims[n].fields \subseteq Fields
  /\ \A id \in DOMAIN o.cites :
       DOMAIN o.cites[id] = CiteFields /\ o.cites[id].fields \subseteq Fields
ASSUME CoachAssumption ==
  Roles \in Nat \ {0} /\ "" \notin Chunks /\ \A o \in Outputs : Shaped(o)

VARIABLES
  document,  \* the rows the Gateway returned
  question,  \* [fields: the live fields the question names,
             \*  missing: it asks for a quantity the document does not hold]
  hits,      \* the chunks the search selected
  role,      \* the provider role whose turn it is
  answered,  \* some role has responded
  turn, answer

coach == <<document, question, hits, role, answered, turn, answer>>
request == <<document, question>>

Null == "null"
Rows == 1..Len(document)
NoAnswer == [status |-> "", claims |-> <<>>, cites |-> <<>>, packages |-> <<>>]
Failed(status) == [NoAnswer EXCEPT !.status = status]
Signable == {"ERP_FACT", "RETRIEVED_KNOWLEDGE", "RECOMMENDATION"}
ERPClaims(claims) == {n \in DOMAIN claims : claims[n].type = "ERP_FACT"}
Refs(claims) == UNION {Range(claims[n].refs) : n \in DOMAIN claims}

CoachInit ==
  /\ document \in Documents
  /\ question \in [fields : SUBSET Fields, missing : BOOLEAN]
  /\ hits = {} /\ role = 1 /\ answered = FALSE
  /\ turn = "read" /\ answer = NoAnswer

---------------------------------------------------------------------------
(***************************************************************************)
(* Parsing what a provider wrote.                                          *)
(***************************************************************************)
\* Selectors that ERP claims carry for one citation, in the order of the claims
Selecting(o, id) ==
  {n \in ERPClaims(o.claims) : id \in Range(o.claims[n].refs) /\ o.claims[n].fields # {}}
Selector(o, id) ==
  LET s == Selecting(o, id) IN
  IF s = {} THEN {} ELSE o.claims[CHOOSE n \in s : \A m \in s : n <= m].fields
Conflicting(o, id) ==
  \E n, m \in Selecting(o, id) : o.claims[n].fields # o.claims[m].fields
Shell(fields) == [type |-> "LIVE_ERP", fields |-> fields, row |-> 0, chunk |-> ""]

\* _normalize_provider_compatibility: selectors move from claims to citations, and
\* an answer of ERP facts only may leave its citations out
Compatible(o) ==
  LET refs == Refs(o.claims)
      omitted == /\ DOMAIN o.cites = {} /\ o.claims # <<>>
                 /\ ERPClaims(o.claims) = DOMAIN o.claims
                 /\ refs # {} /\ \A id \in refs : Selecting(o, id) # {} /\ ~Conflicting(o, id)
  IN [o EXCEPT !.cites =
        IF omitted THEN [id \in refs |-> Shell(Selector(o, id))]
        ELSE [id \in DOMAIN o.cites |->
                IF o.cites[id].type = "LIVE_ERP" /\ o.cites[id].fields = {}
                THEN [o.cites[id] EXCEPT !.fields = Selector(o, id)]
                ELSE o.cites[id]]]

\* The types a claim may cite
Citable(claim, cite) ==
  /\ claim.type = "ERP_FACT" => cite.type = "LIVE_ERP"
  /\ claim.type = "RETRIEVED_KNOWLEDGE" => cite.type = "RETRIEVAL"
Graph(claims, cites) ==
  /\ \A n \in DOMAIN claims :
       \A k \in DOMAIN claims[n].refs :
         claims[n].refs[k] \in DOMAIN cites /\ Citable(claims[n], cites[claims[n].refs[k]])
  /\ DOMAIN cites = Refs(claims)

Distinct(refs) == \A k, j \in DOMAIN refs : k # j => refs[k] # refs[j]
\* CoachProviderOutput.validate_claim_graph and the shapes of claims and citations
WellFormed(o) ==
  /\ \A n \in DOMAIN o.claims : o.claims[n].refs # <<>> /\ Distinct(o.claims[n].refs)
  /\ \A id \in DOMAIN o.cites : o.cites[id].type = "LIVE_ERP" => o.cites[id].fields # {}
  /\ Graph(o.claims, o.cites)
  /\ IF o.status \in {"UNKNOWN", "REFUSED"} THEN o.claims = <<>> ELSE o.claims # <<>>
  /\ o.status \in {"ANSWERED", "CONFLICT"} =>
       \A n \in DOMAIN o.claims : o.claims[n].type # "UNKNOWN"

---------------------------------------------------------------------------
(***************************************************************************)
(* Grounding a parsed answer.                                              *)
(***************************************************************************)
\* Rows that have a value for every field a citation names
Candidates(c) == {r \in Rows : \A f \in c.fields : document[r][f] # Null}
Exact(c) == {r \in Candidates(c) : c.row \in Rows /\ document[r] = document[c.row]}
\* _materialize_live_citations: the row whose digest was copied, else the only candidate
Resolved(c) ==
  IF Exact(c) # {} THEN Exact(c)
  ELSE IF Cardinality(Candidates(c)) = 1 THEN Candidates(c) ELSE {}
Materialisable(o) ==
  \A id \in DOMAIN o.cites : o.cites[id].type = "LIVE_ERP" => Resolved(o.cites[id]) # {}
Materialised(o) ==
  [o EXCEPT !.cites = [id \in DOMAIN o.cites |->
     IF o.cites[id].type # "LIVE_ERP" THEN o.cites[id]
     ELSE [o.cites[id] EXCEPT !.row = CHOOSE r \in Resolved(o.cites[id]) : TRUE]]]

MemoryGraph(o) ==
  /\ \A n \in DOMAIN o.claims : o.claims[n].type \in Signable
  /\ \A id \in DOMAIN o.cites :
       CASE o.cites[id].type = "LIVE_ERP" -> o.cites[id].row \in Rows
         [] o.cites[id].type = "RETRIEVAL" -> o.cites[id].chunk \in hits
         [] OTHER -> TRUE
\* _validate_citation_graph: chunks the search selected, rows of this snapshot
CitationGraph(o) ==
  /\ \A n \in DOMAIN o.claims : o.claims[n].type \in Signable
  /\ \A id \in DOMAIN o.cites :
       CASE o.cites[id].type = "LIVE_ERP" -> o.cites[id].row \in Rows
         [] o.cites[id].type = "RETRIEVAL" -> o.cites[id].chunk \in hits
         [] OTHER -> FALSE

\* The fields of a citation an ERP claim may use
Usable(c) == IF question.fields = {} THEN c.fields ELSE c.fields \cap question.fields
Repeatable(claim, cites) == TRUE
\* A field may be taken from one citation only
OneSource(claim, cites) ==
  \A k, j \in DOMAIN claim.refs :
    k # j => Usable(cites[claim.refs[k]]) \cap Usable(cites[claim.refs[j]]) = {}
Unbounded(cites) ==
  question.fields = {} /\ \E id \in DOMAIN cites :
    cites[id].type = "LIVE_ERP" /\ Cardinality(cites[id].fields) > 1
Atoms(claim, cites) ==
  UNION {{<<f, document[cites[id].row][f]>> : f \in Usable(cites[id])} : id \in Range(claim.refs)}
\* _normalize_erp_claim: the text of an ERP claim is rebuilt from the cited rows
ErpText(claim, cites) ==
  IF Unbounded(cites) \/ ~OneSource(claim, cites) THEN {} ELSE Atoms(claim, cites)
Text(claim, cites) == IF claim.type = "ERP_FACT" THEN ErpText(claim, cites) ELSE claim.text

SameClaim(a, b) == a.type = b.type /\ a.text = b.text /\ a.refs = b.refs
\* The members of a finite set of numbers as a sequence: the n-th has n of them up to it
InOrder(S) ==
  [n \in 1..Cardinality(S) |-> CHOOSE k \in S : Cardinality({m \in S : m <= k}) = n]
Renumbered(claims, kept) == [n \in DOMAIN kept |-> [claims[kept[n]] EXCEPT !.ordinal = n]]
\* _normalize_grounded_claims: repeated claims are dropped and the rest renumbered
Normalised(o) ==
  LET claims == [n \in DOMAIN o.claims |->
                   [type |-> o.claims[n].type, ordinal |-> n, refs |-> o.claims[n].refs,
                    text |-> Text(o.claims[n], o.cites)]]
      first == {n \in DOMAIN claims : \A m \in 1..(n - 1) : ~SameClaim(claims[m], claims[n])}
  IN Renumbered(claims, InOrder(first))

\* _validated_claims: one signed package for each claim, with the citations it rests on
Package(claim, cites) ==
  [ordinal |-> claim.ordinal, type |-> claim.type, text |-> claim.text,
   provenance |-> [k \in DOMAIN claim.refs |-> cites[claim.refs[k]]]]
Grounding(o) ==
  LET m == Materialised(o)
      claims == Normalised(m)
      shown == [status |-> o.status, claims |-> claims, cites |-> m.cites,
                packages |-> [n \in DOMAIN claims |-> Package(claims[n], m.cites)]]
  IN IF /\ CitationGraph(m)
        /\ \A n \in DOMAIN claims : claims[n].text # {}
        /\ Graph(claims, m.cites)
     THEN shown ELSE Failed("UNKNOWN")
Grounded(o) == IF Materialisable(o) THEN Grounding(o) ELSE Failed("UNKNOWN")

---------------------------------------------------------------------------
(***************************************************************************)
(* The request.                                                            *)
(***************************************************************************)
Return(a) ==
  /\ turn' = "done" /\ answer' = a
  /\ UNCHANGED <<request, hits, role, answered>>

\* answer_coach_runtime: the one Gateway read, and the context built from it
ReadFails == turn = "read" /\ Return(Failed("UNKNOWN"))
Read ==
  /\ turn = "read" /\ turn' = "search"
  /\ UNCHANGED <<request, hits, role, answered, answer>>

\* The search of the curated sources; a failing index leaves no hits
Search(found) ==
  /\ turn = "search" /\ turn' = "configure"
  /\ hits' = found
  /\ UNCHANGED <<request, role, answered, answer>>
\* provider_from_environment refuses its settings
Unconfigured == turn = "configure" /\ Return(Failed("REFUSED"))
\* The prompt does not fit, or a required fragment is invalid
NoContext == turn = "configure" /\ Return(Failed("UNKNOWN"))
Configure ==
  /\ turn = "configure" /\ turn' = "ask"
  /\ UNCHANGED <<request, hits, role, answered, answer>>

\* FailoverProvider.iter_candidates: each role once; without any response the errors are raised
NextRole(response) ==
  IF role < Roles
  THEN /\ role' = role + 1 /\ answered' = response
       /\ UNCHANGED <<request, hits, turn, answer>>
  ELSE Return(Failed(IF response THEN "UNKNOWN" ELSE "REFUSED"))

\* A failure that advances to the next role, and one that is raised
Unavailable == turn = "ask" /\ NextRole(answered)
Rejected == turn = "ask" /\ Return(Failed("REFUSED"))
\* The response reports more prompt tokens than the context budget, or asks for tools
OverBudget == turn = "ask" /\ Return(Failed("REFUSED"))
ToolCall == turn = "ask" /\ Return(Failed("REFUSED"))

\* A usable response of the role whose turn it is
Respond(o) ==
  LET parsed == Compatible(o) IN
  /\ turn = "ask"
  /\ CASE question.missing -> Return(Failed("UNKNOWN"))
       [] ~question.missing /\ (~WellFormed(parsed) \/ parsed.status = "UNKNOWN") -> NextRole(TRUE)
       [] ~question.missing /\ WellFormed(parsed) /\ parsed.status = "REFUSED" ->
            Return(Failed("REFUSED"))
       [] OTHER -> Return(Grounded(parsed))

\* Frappe's request is gone: the task is cancelled and nothing is returned
Abandon ==
  /\ turn # "done" /\ Return(NoAnswer)

CoachRests == turn = "done" /\ UNCHANGED coach

CoachNext ==
  \/ ReadFails \/ Read \/ Unconfigured \/ NoContext \/ Configure
  \/ \E found \in SUBSET Chunks : Search(found)
  \/ Unavailable \/ Rejected \/ OverBudget \/ ToolCall
  \/ \E o \in Outputs : Respond(o)
  \/ Abandon
  \/ CoachRests

CoachSpec == CoachInit /\ [][CoachNext]_coach

---------------------------------------------------------------------------
(***************************************************************************)
(* Frappe's own check of the answer, rebuilt from the signed packages.     *)
(***************************************************************************)
\* _validate_citation
ValidCitation(c) ==
  \/ c.type = "LIVE_ERP" /\ c.fields # {} /\ c.fields \subseteq Fields /\ c.row \in Rows
  \/ c.type = "RETRIEVAL" /\ c.chunk # ""
\* _coach_output_claim
ValidClaim(claim) == claim.type \in Signable /\ claim.refs # <<>> /\ Distinct(claim.refs)
\* _validated_package
ValidPackage(p) ==
  /\ p.text # {} /\ p.provenance # <<>>
  /\ \A k \in DOMAIN p.provenance : ValidCitation(p.provenance[k]) /\ Citable(p, p.provenance[k])
\* _coach_output_package: a package states its claim and cites what it cites
Vouches(p, claim, cites) ==
  /\ p.ordinal = claim.ordinal /\ p.type = claim.type /\ p.text = claim.text
  /\ p.provenance = [k \in DOMAIN claim.refs |-> cites[claim.refs[k]]]
\* _validate_coach_answer
AppAccepts(a) ==
  /\ \A n \in DOMAIN a.claims : ValidClaim(a.claims[n]) /\ a.claims[n].ordinal = n
  /\ \A id \in DOMAIN a.cites : ValidCitation(a.cites[id])
  /\ Graph(a.claims, a.cites)
  /\ IF a.status \in {"UNKNOWN", "REFUSED"}
     THEN a.claims = <<>> /\ a.cites = <<>> /\ a.packages = <<>>
     ELSE /\ a.claims # <<>> /\ DOMAIN a.packages = DOMAIN a.claims
          /\ \A n \in DOMAIN a.claims :
               ValidPackage(a.packages[n]) /\ Vouches(a.packages[n], a.claims[n], a.cites)

(***************************************************************************)
(* Properties.                                                             *)
(***************************************************************************)
CoachTypeOK ==
  /\ turn \in {"read", "search", "configure", "ask", "done"}
  /\ hits \subseteq Chunks /\ role \in 1..Roles /\ answered \in BOOLEAN
  /\ answer.status \in {"", "ANSWERED", "CONFLICT", "UNKNOWN", "REFUSED"}

\* Whatever a provider writes, and whichever role wrote it, what is displayed comes from
\* the server: the text of an ERP claim only states values the rows it cites hold, only of
\* fields the question asked for, one value for each; and every chunk cited was selected
\* by the search.
\* (_materialize_live_citations, _validate_citation_graph, _normalize_erp_claim)
AnswersAreGrounded ==
  /\ \A n \in ERPClaims(answer.claims) :
       LET claim == answer.claims[n] IN
       /\ \A atom \in claim.text :
            /\ question.fields # {} => atom[1] \in question.fields
            /\ \E id \in Range(claim.refs) :
                 /\ atom[1] \in answer.cites[id].fields
                 /\ document[answer.cites[id].row][atom[1]] = atom[2] /\ atom[2] # Null
       /\ \A a, b \in claim.text : a[1] = b[1] => a = b
       /\ claim.text # {}
  /\ \A id \in DOMAIN answer.cites :
       answer.cites[id].type = "RETRIEVAL" => answer.cites[id].chunk \in hits
\* Two validators written apart agree: every answer the runtime returns passes the
\* app's own check, so a valid answer is never lost as RUNTIME_RESPONSE_INVALID.
\* (answer_coach of the runtime, _validate_coach_answer of the app)
ValidatorsAgree == answer.status # "" => AppAccepts(answer)
============================================================================
