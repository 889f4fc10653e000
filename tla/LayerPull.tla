----------------------------- MODULE LayerPull -----------------------------
(***************************************************************************)
(* iterateFeatures of the ArcGIS client: the generator that pulls every row *)
(* of the county layer that matches a `where', page by page, while the       *)
(* county edits the layer.                                                   *)
(*                                                                           *)
(* A row is its OBJECTID.  The layer holds the rows that match the `where'   *)
(* now; a row leaves it when the county deletes or reclassifies it and       *)
(* enters it when the county adds or reclassifies one.  A layer with         *)
(* pagination is read by resultOffset (mode "offset"), another by ranges of  *)
(* OBJECTIDs listed at the start (mode "ids").                               *)
(*                                                                           *)
(* The server is external: it may cut a page short and say so with           *)
(* exceededTransferLimit, or without saying so.  `lost' counts the rows it    *)
(* held back of an answer after which the generator does not ask for them:   *)
(* all that is left at the last page by offset, and of a range what is short *)
(* of a page; it is no variable of the code.                                 *)
(***************************************************************************)
EXTENDS Integers, FiniteSets

CONSTANTS
  Rows,         \* OBJECTIDs
  PageSize,     \* the smaller of the caller's page size and maxRecordCount
  Modes,        \* what the layer supports: a subset of {"offset", "ids"}
  MaxChanges    \* bound of the model: what the county changes, row by row

ASSUME PullAssumption ==
  /\ Rows \subseteq Nat /\ IsFiniteSet(Rows)
  /\ PageSize \in Nat \ {0}
  /\ Modes \subseteq {"offset", "ids"}
  /\ MaxChanges \in Nat

VARIABLES
  layer,      \* the rows that match the `where' now
  mode,       \* how the current pull reads the layer
  stage,      \* where the generator stands
  offset,     \* resultOffset of the next page
  idsLeft,    \* OBJECTIDs of the batches not asked for yet
  page,       \* rows of the current page not yielded yet
  more,       \* after this page another one is asked for
  yields,     \* rows yielded by the current pull
  \* What the properties compare with, no variables of the code:
  delivered,  \* set of the rows yielded by the current pull
  present,    \* rows that have been in the layer since the pull started
  removed,    \* rows taken out of the layer since the pull started
  added,      \* rows put into the layer since the pull started
  lost,       \* rows of the current pull that the server held back for good
  changes     \* changes of the county's so far, bounded by MaxChanges

pullVars == <<mode, stage, offset, idsLeft, page, more, yields, delivered, lost>>
layerVars == <<layer, present, removed, added, changes>>
vars == <<pullVars, layerVars>>

\* The first k rows of S by OBJECTID, the order in which they are asked for.
First(S, k) == {r \in S : Cardinality({s \in S : s < r}) < k}

Pulling == stage \in {"list", "fetch", "yield"}

----------------------------------------------------------------------------
InitPull ==
  /\ layer \in SUBSET Rows
  /\ mode \in Modes
  /\ stage = "off"
  /\ offset = 0
  /\ idsLeft = {}
  /\ page = {}
  /\ more = FALSE
  /\ yields = 0
  /\ delivered = {}
  /\ present = layer
  /\ removed = 0
  /\ added = 0
  /\ lost = 0
  /\ changes = 0

\* The layer's metadata is read and says whether it supports pagination.
StartPull ==
  /\ ~Pulling
  /\ mode' \in Modes
  /\ stage' = IF mode' = "offset" THEN "fetch" ELSE "list"
  /\ offset' = 0
  /\ idsLeft' = {}
  /\ page' = {}
  /\ more' = FALSE
  /\ yields' = 0
  /\ delivered' = {}
  /\ present' = layer
  /\ removed' = 0
  /\ added' = 0
  /\ lost' = 0
  /\ UNCHANGED <<layer, changes>>

\* The server returns n of the `left' rows asked for, as many as fit or fewer;
\* it sets the flag only when there are more.
Answer(n, left, exceeded) ==
  /\ n <= PageSize /\ n <= left
  /\ exceeded => n < left

\* Mutant: the next page starts a full page later, however short this one was.
NextOffsetFullPage(n) == offset + PageSize

\* Lines 146-147: the next page starts after the rows this one returned.
NextOffset(n) == offset + n

\* Lines 144-146: whether to ask for another page.
MaybeMore(n, exceeded) == exceeded \/ n >= PageSize

\* Mutant: no break on an empty page.
AfterEmptyPageAsksAgain == "fetch"

\* Line 140: an empty page ends the pull whatever the flag says.
AfterEmptyPage == "done"

\* One page by offset: the n rows that follow the first `offset'.
FetchOffset ==
  LET left == layer \ First(layer, offset)
  IN  \E n \in 0..PageSize, exceeded \in BOOLEAN :
        /\ mode = "offset"
        /\ stage = "fetch"
        /\ Answer(n, Cardinality(left), exceeded)
        /\ page' = left \cap First(layer, offset + n)
        /\ more' = MaybeMore(n, exceeded)
        /\ offset' = NextOffset(n)
        /\ stage' = IF page' = {} THEN AfterEmptyPage ELSE "yield"
        /\ lost' = IF page' = {} \/ ~MaybeMore(n, exceeded) THEN Cardinality(left \ page') ELSE 0
        /\ UNCHANGED <<mode, idsLeft, yields, delivered, layerVars>>

\* Without pagination: the OBJECTIDs are listed once (returnIdsOnly).
ListIds ==
  /\ stage = "list"
  /\ idsLeft' = layer
  /\ stage' = IF layer = {} THEN "done" ELSE "fetch"
  /\ UNCHANGED <<mode, offset, page, more, yields, delivered, lost, layerVars>>

\* Line 162: OBJECTID >= minId AND OBJECTID <= maxId.
InRange(r, batch) == (\E min \in batch : min <= r) /\ (\E max \in batch : r <= max)

\* The rows found that an answer of `got' is short of, up to a page of them.
HeldBack(found, got) ==
  IF Cardinality(got) >= PageSize THEN 0
  ELSE IF Cardinality(found) <= PageSize THEN Cardinality(found) - Cardinality(got)
  ELSE PageSize - Cardinality(got)

\* One batch of listed OBJECTIDs, asked for as a range with no limit of the
\* caller's: the server's own may be above the batch.  The flag is ignored.
FetchRange ==
  /\ mode = "ids"
  /\ stage = "fetch"
  /\ LET batch == First(idsLeft, PageSize)
         found == {r \in layer : InRange(r, batch)}
     IN  \E n \in 0..Cardinality(found) :
           /\ page' = First(found, n)
           /\ idsLeft' = idsLeft \ batch
           /\ more' = (idsLeft' # {})
           /\ lost' = lost + HeldBack(found, page')
           /\ stage' = IF page' # {} THEN "yield" ELSE IF more' THEN "fetch" ELSE "done"
  /\ UNCHANGED <<mode, offset, yields, delivered, layerVars>>

\* The generator yields row r, the next of the page, to its consumer.
Yield(r) ==
  /\ stage = "yield"
  /\ r \in page /\ \A s \in page : r <= s
  /\ yields' = yields + 1
  /\ delivered' = delivered \cup {r}
  /\ page' = page \ {r}
  /\ stage' = IF page' # {} THEN "yield" ELSE IF more THEN "fetch" ELSE "done"
  /\ UNCHANGED <<mode, offset, idsLeft, more, lost, layerVars>>

\* The county edits the layer between two requests.
RemoveRow ==
  /\ changes < MaxChanges
  /\ \E r \in layer :
       /\ layer' = layer \ {r}
       /\ present' = present \ {r}
  /\ removed' = removed + 1
  /\ changes' = changes + 1
  /\ UNCHANGED <<pullVars, added>>

AddRow ==
  /\ changes < MaxChanges
  /\ \E r \in Rows \ layer : layer' = layer \cup {r}
  /\ added' = added + 1
  /\ changes' = changes + 1
  /\ UNCHANGED <<pullVars, present, removed>>

\* The generator's requests; an exception of one is a step of its consumer.
PullStep == FetchOffset \/ ListIds \/ FetchRange

----------------------------------------------------------------------------
Missed == present \ delivered

\* arcgis.client.ts:98-102, "Full paginated attribute pull": of the rows that
\* were in the layer all along, a pull that ends has missed none but the rows
\* the server held back for good, and one more at most for each edit that moves
\* rows between its requests: a row removed before the offset shifts the rest,
\* and a row added inside a listed range pushes another out of its answer.
MissedBounded ==
  stage = "done" =>
    Cardinality(Missed) <= lost + (IF mode = "offset" THEN removed ELSE added)

\* A pull comes to an end, even against a server that sends empty pages.
PullEnds == Pulling ~> ~Pulling
=============================================================================
