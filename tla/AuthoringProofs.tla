---------------------------- MODULE AuthoringProofs ----------------------------
(***************************************************************************)
(* Proofs about the pages on which a user prepares what trades: that the   *)
(* list of pipelines, the list of scanners, the strategies and the consent *)
(* show what is stored once nothing is on its way, for any number of       *)
(* requests answered in any order; that no answer takes the place of what  *)
(* is being typed; and that all this and what BuilderProofs shows holds of *)
(* the pages together.                                                     *)
(*                                                                         *)
(* None of these is inductive.  Each invariant says in addition what the   *)
(* requests in flight will bring:                                          *)
(*  - RegistryInv and FilterInv: the answer to the list that was asked for *)
(*    last is current, unless a change was made whose answer has not come, *)
(*    and that answer will ask again;                                      *)
(*  - StrategiesCounted: of the answers about a strategy the one that was  *)
(*    made last is current, and the page shows it, or that answer or the   *)
(*    load is still to come;                                               *)
(*  - SettingsInv: the requests about the consent exclude each other.      *)
(***************************************************************************)
EXTENDS Authoring, BuilderProofs, FiniteSetTheorems, WellFoundedInduction, TLAPS

-------------------------------------------------------------------------------
(* The pipelines                                                           *)

\* A change that was made and whose answer has not arrived: it will load the list again.
ChangePending(calls) == \E c \in calls : c.kind \in Changes /\ c.answer = "ok"

\* The list that was asked for last is current, when it is shown and when it is on its way,
\* or will be asked for again.
ListIsKept ==
  registry.open /\ ~changeUnheard /\ ~ChangePending(pipelineCalls) =>
    /\ registry.shownFrom = registry.asked => registry.shown = pipelineRows
    /\ \A c \in pipelineCalls :
         c.kind = "load" /\ c.mine /\ c.answer = "ok" /\ c.n = registry.asked =>
           c.rows = pipelineRows

RegistryInv ==
  /\ PipelinesTypeOK /\ ListIsKept
  /\ pipelineDialog.kind = "none" => pipelineDialog = NoDialog
  /\ registry.asked <= callsSent /\ registry.shownFrom <= callsSent
  /\ \A c \in pipelineCalls : c.n <= callsSent

LEMMA SomeSmallest ==
  ASSUME NEW S \in SUBSET Nat, S # {} PROVE \E m \in S : \A k \in S : m <= k
<1>1. PICK m \in S : \A k \in S : ~(<<k, m>> \in OpToRel(<, Nat))
  BY NatLessThanWellFounded, WFMin
<1>2. \A k \in S : ~(k < m)
  BY <1>1 DEF OpToRel
<1> QED
  BY <1>2

LEMMA NewIs ==
  ASSUME NEW x \in PipelineIds, pipelineRows[x] = "none"
  PROVE  New \in PipelineIds
<1> DEFINE S == {p \in PipelineIds : pipelineRows[p] = "none"}
<1>1. S \in SUBSET Nat /\ S # {}
  BY DEF PipelineIds
<1>2. PICK m \in S : \A k \in S : m <= k
  BY <1>1, SomeSmallest
<1>3. \A q \in 1 .. m - 1 : pipelineRows[q] # "none"
  BY <1>2, PipelinesAssumption DEF PipelineIds
<1> QED
  BY <1>2, <1>3 DEF New

LEMMA RowsTyped ==
  /\ NoRows \in Rows
  /\ \A p : \A rows \in Rows, s \in {"active", "inactive", "deleted"} :
       [rows EXCEPT ![p] = s] \in Rows
BY DEF NoRows, Rows

\* A request that is sent is well formed, and one more.
LEMMA CallIs ==
  ASSUME RegistryInv, NEW kind \in CallKinds, NEW id \in 0 .. MaxPipelines, NEW mine \in BOOLEAN,
         NEW rest \in SUBSET pipelineCalls, Sent(kind, id, mine, rest)
  PROVE  /\ callsSent' = callsSent + 1 /\ callsSent' \in 1 .. MaxPipelineCalls
         /\ pipelineCalls' = rest \cup {Call(kind, id, mine)}
         /\ Call(kind, id, mine) \in PipelineCallSet
         /\ Call(kind, id, mine).answer = "none" /\ Call(kind, id, mine).n = callsSent'
<1>1. callsSent + 1 \in 1 .. MaxPipelineCalls
  BY PipelinesAssumption DEF Sent, RegistryInv, PipelinesTypeOK
<1> QED
  BY <1>1, RowsTyped DEF Sent, Call, PipelineCallSet

LEMMA RegistryInitially == PipelinesInit => RegistryInv
<1> SUFFICES ASSUME PipelinesInit PROVE RegistryInv
  OBVIOUS
<1>1. 1 \in 1 .. MaxPipelineCalls /\ 0 \in 0 .. MaxPipelineCalls /\ 0 \in 0 .. MaxPipelines
      /\ 0 \in 0 .. MaxPipelineMoves
  BY PipelinesAssumption
<1>2. registry \in Registries /\ registry.asked = 1 /\ registry.shownFrom = 0
  BY <1>1, RowsTyped DEF PipelinesInit, FreshRegistry, Registries
<1>3. pipelineCalls \subseteq PipelineCallSet
  BY <1>1, RowsTyped DEF PipelinesInit, PipelineCallSet, CallKinds
<1>4. pipelineDialog \in Dialogs
  BY <1>1 DEF PipelinesInit, NoDialog, Dialogs
<1>5. \A c \in pipelineCalls : c.n = 1 /\ c.answer = "none"
  BY DEF PipelinesInit
<1>6. PipelinesTypeOK
  BY <1>1, <1>2, <1>3, <1>4, RowsTyped DEF PipelinesInit, PipelinesTypeOK
<1>7. ListIsKept
  BY <1>2, <1>5 DEF ListIsKept
<1>8. callsSent = 1
  BY DEF PipelinesInit
<1> QED
  BY <1>2, <1>5, <1>6, <1>7, <1>8 DEF RegistryInv, PipelinesInit

LEMMA RegistryIs ==
  ASSUME RegistryInv
  PROVE  /\ callsSent \in Nat /\ registry.asked \in Nat /\ registry.shownFrom \in Nat
         /\ \A c \in pipelineCalls : c \in PipelineCallSet /\ c.n \in Nat /\ c.n <= callsSent
BY PipelinesAssumption DEF RegistryInv, PipelinesTypeOK, Registries, PipelineCallSet

LEMMA MoveIs ==
  ASSUME RegistryInv, PipelineMove
  PROVE  /\ pipelineMoves' \in 0 .. MaxPipelineMoves
         /\ UNCHANGED <<pipelineRows, changeUnheard>>
BY PipelinesAssumption DEF PipelineMove, RegistryInv, PipelinesTypeOK

\* Steps of the page: the rows stay, and what is added to the requests is not answered.
LEMMA PageStays ==
  ASSUME RegistryInv, PipelinesTypeOK', UNCHANGED <<pipelineRows, changeUnheard>>,
         registry' = registry, callsSent' >= callsSent,
         pipelineDialog'.kind = "none" => pipelineDialog' = NoDialog,
         \A c \in pipelineCalls' : c \in pipelineCalls \/ (c.answer = "none" /\ c.n <= callsSent'),
         pipelineCalls \subseteq pipelineCalls'
  PROVE  RegistryInv'
<1>1. callsSent' \in Nat
  BY PipelinesAssumption DEF PipelinesTypeOK
<1>2. registry'.asked <= callsSent' /\ registry'.shownFrom <= callsSent'
      /\ \A c \in pipelineCalls' : c.n <= callsSent'
  BY <1>1, RegistryIs DEF RegistryInv
<1>3. ListIsKept'
  BY DEF RegistryInv, ListIsKept, ChangePending
<1> QED
  BY <1>2, <1>3 DEF RegistryInv

\* The page is opened or left: nothing is shown that is not asked for again.
LEMMA PageOpened ==
  ASSUME RegistryInv, OpenRegistry \/ LeaveRegistry PROVE RegistryInv'
<1>0. pipelineMoves' \in 0 .. MaxPipelineMoves /\ UNCHANGED <<pipelineRows, changeUnheard>>
  BY MoveIs DEF OpenRegistry, LeaveRegistry
<1>1. CASE OpenRegistry
  <2>a. Sent("load", 0, TRUE, pipelineCalls)
    BY <1>1, Zenon DEF OpenRegistry
  <2>b. 0 \in 0 .. MaxPipelines /\ "load" \in CallKinds
    BY PipelinesAssumption DEF CallKinds
  <2> DEFINE new == Call("load", 0, TRUE)
  <2>2. /\ callsSent' = callsSent + 1 /\ callsSent' \in 1 .. MaxPipelineCalls
        /\ pipelineCalls' = pipelineCalls \cup {new} /\ new \in PipelineCallSet
        /\ new.answer = "none" /\ new.n = callsSent'
    BY <2>a, <2>b, CallIs
  <2> HIDE DEF new
  <2>3. registry' \in Registries /\ registry'.asked = callsSent' /\ registry'.shownFrom = 0
    BY <1>1, <2>2, RowsTyped, PipelinesAssumption DEF OpenRegistry, FreshRegistry, Registries
  <2>4. \A c \in pipelineCalls' : c.n <= callsSent' /\ (c.n = callsSent' => c.answer = "none")
    <3>1. \A c \in pipelineCalls : c.n <= callsSent' /\ c.n # callsSent'
      BY <2>2, RegistryIs
    <3>2. callsSent' <= callsSent'
      BY <2>2
    <3> QED
      BY <2>2, <3>1, <3>2
  <2>5. PipelinesTypeOK'
    BY <1>0, <1>1, <2>2, <2>3 DEF OpenRegistry, RegistryInv, PipelinesTypeOK
  <2>6. 0 # callsSent' /\ 0 <= callsSent' /\ callsSent' <= callsSent'
    BY <2>2
  <2>7. ListIsKept'
    BY <2>3, <2>4, <2>6 DEF ListIsKept
  <2> QED
    BY <1>1, <2>3, <2>4, <2>5, <2>6, <2>7 DEF RegistryInv, OpenRegistry
<1>2. CASE LeaveRegistry
  <2>1. \A c \in pipelineCalls :
          [c EXCEPT !.mine = FALSE] \in PipelineCallSet /\ [c EXCEPT !.mine = FALSE].n = c.n
    BY DEF RegistryInv, PipelinesTypeOK, PipelineCallSet
  <2>2. pipelineCalls' \subseteq PipelineCallSet /\ \A c \in pipelineCalls' : c.n <= callsSent
    BY <1>2, <2>1 DEF LeaveRegistry, Orphaned, RegistryInv
  <2>3. registry' \in Registries /\ ~registry'.open /\ registry'.asked = registry.asked
        /\ registry'.shownFrom = registry.shownFrom
    BY <1>2 DEF LeaveRegistry, RegistryInv, PipelinesTypeOK, Registries
  <2> QED
    BY <1>0, <1>2, <2>2, <2>3
       DEF LeaveRegistry, RegistryInv, PipelinesTypeOK, ListIsKept
<1> QED
  BY <1>1, <1>2

LEMMA DialogsKept ==
  ASSUME RegistryInv,
         \/ EditDialog \/ CancelDialog \/ ConfirmDialog
         \/ \E p \in PipelineIds : \/ ToggleActive(p)
                                   \/ \E kind \in {"delete", "clone"} : AskFor(kind, p)
                                   \/ \E kind \in {"run", "export"} : RunOrExport(kind, p)
  PROVE  RegistryInv'
<1> USE DEF PipelineIds
<1>0. /\ pipelineDialog \in Dialogs /\ registry.open \in BOOLEAN
      /\ pipelineMoves \in 0 .. MaxPipelineMoves
  BY DEF RegistryInv, PipelinesTypeOK, Registries
<1>1. /\ pipelineMoves' \in 0 .. MaxPipelineMoves
      /\ UNCHANGED <<pipelineRows, changeUnheard, listed, registry>>
  BY <1>0, MoveIs
     DEF EditDialog, CancelDialog, ConfirmDialog, ToggleActive, AskFor, RunOrExport
<1>2. pipelineDialog' \in Dialogs /\ (pipelineDialog'.kind = "none" => pipelineDialog' = NoDialog)
  <2>1. NoDialog \in Dialogs
    BY PipelinesAssumption DEF NoDialog, Dialogs
  <2>2. \A p \in 1 .. MaxPipelines, kind \in {"deactivate", "clone", "delete"}, b \in BOOLEAN :
          /\ [kind |-> kind, id |-> p, choice |-> b] \in Dialogs
          /\ [kind |-> kind, id |-> p, choice |-> b].kind # "none"
    BY DEF Dialogs
  <2>3. /\ [pipelineDialog EXCEPT !.choice = ~@] \in Dialogs
        /\ [pipelineDialog EXCEPT !.choice = ~@].kind = pipelineDialog.kind
    BY <1>0 DEF Dialogs
  <2>a. pipelineDialog.kind = "none" => pipelineDialog = NoDialog
    BY DEF RegistryInv
  <2>4. CASE \E p \in PipelineIds, kind \in {"delete", "clone"} : AskFor(kind, p)
    BY ZenonT(30), <2>2, <2>4 DEF AskFor
  <2>5. CASE \E p \in PipelineIds : ToggleActive(p)
    BY <1>0, <2>2, <2>5, <2>a DEF ToggleActive
  <2>6. CASE \E p \in PipelineIds, kind \in {"run", "export"} : RunOrExport(kind, p)
    BY <1>0, <2>6, <2>a DEF RunOrExport
  <2> QED
    BY <2>1, <2>3, <2>4, <2>5, <2>6 DEF EditDialog, CancelDialog, ConfirmDialog
<1>3. \/ UNCHANGED <<pipelineCalls, callsSent>>
      \/ \E kind \in CallKinds, id \in 0 .. MaxPipelines, mine \in BOOLEAN :
           Sent(kind, id, mine, pipelineCalls)
  <2>1. CASE ConfirmDialog
    <3>1. Confirmed(pipelineDialog) \in CallKinds
      <4>1. pipelineDialog.kind # "none"
        BY <2>1 DEF ConfirmDialog, RegistryInv
      <4> QED
        BY <1>0, <4>1 DEF Confirmed, Dialogs, CallKinds, Changes
    <3>2. pipelineDialog.id \in 0 .. MaxPipelines
      BY <1>0 DEF Dialogs
    <3> QED
      BY <1>0, <2>1, <3>1, <3>2, Zenon DEF ConfirmDialog
  <2>a. \A p \in PipelineIds : p \in 0 .. MaxPipelines
    BY PipelinesAssumption
  <2>b. {"activate", "run", "export"} \subseteq CallKinds /\ TRUE \in BOOLEAN
    BY DEF CallKinds, Changes
  <2>2. ASSUME NEW p \in PipelineIds, ToggleActive(p) PROVE <1>3!:
    <3>1. \/ Sent("activate", p, TRUE, pipelineCalls)
          \/ UNCHANGED <<pipelineCalls, callsSent>>
      BY <2>2, Zenon DEF ToggleActive
    <3> QED
      BY <2>a, <2>b, <3>1, Zenon
  <2>3. ASSUME NEW p \in PipelineIds, NEW kind \in {"run", "export"}, RunOrExport(kind, p)
        PROVE  <1>3!:
    <3>1. Sent(kind, p, TRUE, pipelineCalls)
      BY <2>3, Zenon DEF RunOrExport
    <3> QED
      BY <2>a, <2>b, <3>1, Zenon
  <2> QED
    BY <2>1, <2>2, <2>3 DEF EditDialog, CancelDialog, AskFor
<1>4. CASE UNCHANGED <<pipelineCalls, callsSent>>
  <2>1. PipelinesTypeOK'
    BY <1>1, <1>2, <1>4 DEF RegistryInv, PipelinesTypeOK
  <2> QED
    BY <1>1, <1>2, <1>4, <2>1, PageStays, RegistryIs
<1>5. ASSUME NEW kind \in CallKinds, NEW id \in 0 .. MaxPipelines, NEW mine \in BOOLEAN,
             Sent(kind, id, mine, pipelineCalls)
      PROVE  RegistryInv'
  <2> DEFINE new == Call(kind, id, mine)
  <2>1. /\ callsSent' = callsSent + 1 /\ callsSent' \in 1 .. MaxPipelineCalls
        /\ pipelineCalls' = pipelineCalls \cup {new} /\ new \in PipelineCallSet
        /\ new.answer = "none" /\ new.n = callsSent'
    BY <1>5, CallIs
  <2> HIDE DEF new
  <2>2. PipelinesTypeOK'
    BY <1>1, <1>2, <2>1 DEF RegistryInv, PipelinesTypeOK
  <2>3. callsSent' >= callsSent /\ callsSent' <= callsSent'
    BY <2>1, RegistryIs
  <2>4. \A c \in pipelineCalls' : c \in pipelineCalls \/ (c.answer = "none" /\ c.n <= callsSent')
    BY <2>1, <2>3
  <2> QED
    BY <1>1, <1>2, <2>1, <2>2, <2>3, <2>4, PageStays
<1> QED
  BY <1>3, <1>4, <1>5

\* The server's work: a list is read from the rows, a change is on its way back.
LEMMA ServeKept == ASSUME RegistryInv, NEW c \in pipelineCalls, Serve(c) PROVE RegistryInv'
<1>0. c \in PipelineCallSet /\ c.n <= callsSent
  BY RegistryIs
<1> DEFINE found == c.kind = "load" \/ In(pipelineRows, c.id)
           answer == IF found THEN "ok" ELSE "error"
           id == IF found /\ c.kind = "clone" THEN New ELSE c.id
           served == [c EXCEPT !.answer = answer, !.rows = pipelineRows', !.id = id]
<1>1. /\ pipelineCalls' = (pipelineCalls \ {c}) \cup {served}
      /\ pipelineRows' = IF found THEN Effect(c) ELSE pipelineRows
      /\ UNCHANGED <<listed, registry, pipelineDialog, callsSent, pipelineMoves, changeUnheard>>
  BY DEF Serve
<1>2. id \in 0 .. MaxPipelines
  <2>1. CASE c.kind = "clone"
    <3>1. New \in PipelineIds
      BY <2>1, NewIs DEF Serve
    <3> QED
      BY <1>0, <3>1, PipelinesAssumption DEF PipelineIds, PipelineCallSet
  <2>2. CASE c.kind # "clone"
    BY <1>0, <2>2 DEF PipelineCallSet
  <2> QED
    BY <2>1, <2>2
<1> HIDE DEF id
<1>3. pipelineRows \in Rows /\ Effect(c) \in Rows
  <2>1. pipelineRows \in Rows
    BY DEF RegistryInv, PipelinesTypeOK
  <2> QED
    BY <2>1, RowsTyped DEF Effect
<1>4. pipelineRows' \in Rows /\ answer \in {"ok", "error"}
  BY <1>1, <1>3
<1>5. /\ served \in PipelineCallSet /\ served.n = c.n /\ served.kind = c.kind
      /\ served.mine = c.mine /\ served.answer = answer /\ served.rows = pipelineRows'
  <2> HIDE DEF answer
  <2> QED
    BY <1>0, <1>2, <1>4 DEF PipelineCallSet
<1>6. pipelineRows' # pipelineRows => served.kind \in Changes /\ served.answer = "ok"
  BY <1>0, <1>1, <1>5 DEF Effect, PipelineCallSet, CallKinds, Changes
<1> HIDE DEF served, answer, found
<1>7. PipelinesTypeOK'
  BY <1>1, <1>4, <1>5 DEF RegistryInv, PipelinesTypeOK
<1>8. \A d \in pipelineCalls : d.answer = "ok" => d # c
  BY DEF Serve
<1>9. ChangePending(pipelineCalls) => ChangePending(pipelineCalls')
  BY <1>1, <1>8 DEF ChangePending
<1>10. pipelineRows' # pipelineRows => ChangePending(pipelineCalls')
  BY <1>1, <1>6 DEF ChangePending
<1>11. ListIsKept'
  BY <1>1, <1>5, <1>9, <1>10 DEF ListIsKept, RegistryInv
<1> QED
  BY <1>0, <1>1, <1>5, <1>7, <1>11 DEF RegistryInv

\* A request that fails: a change that was made is not heard of.
LEMMA FailKept == ASSUME RegistryInv, NEW c \in pipelineCalls, CallFails(c) PROVE RegistryInv'
<1>0. c \in PipelineCallSet /\ c.n <= callsSent
  BY RegistryIs
<1> DEFINE failed == [c EXCEPT !.answer = "error", !.rows = NoRows]
<1>1. /\ pipelineCalls' = (pipelineCalls \ {c}) \cup {failed}
      /\ UNCHANGED <<pipelineRows, listed, registry, pipelineDialog, callsSent>>
      /\ changeUnheard' = (changeUnheard \/ (c.answer = "ok" /\ c.kind \in Changes))
  BY DEF CallFails
<1>2. failed \in PipelineCallSet /\ failed.n = c.n /\ failed.answer = "error"
  BY <1>0, RowsTyped DEF PipelineCallSet
<1> HIDE DEF failed
<1>3. changeUnheard' \in BOOLEAN /\ (~changeUnheard' => ~changeUnheard)
  BY <1>1 DEF RegistryInv, PipelinesTypeOK
<1>4. pipelineMoves' \in 0 .. MaxPipelineMoves
  BY PipelinesAssumption DEF CallFails, RegistryInv, PipelinesTypeOK
<1>5. PipelinesTypeOK'
  BY <1>1, <1>2, <1>3, <1>4 DEF RegistryInv, PipelinesTypeOK
<1>6. ~changeUnheard' /\ ChangePending(pipelineCalls) => ChangePending(pipelineCalls')
  BY <1>1 DEF ChangePending
<1>7. ListIsKept'
  BY <1>1, <1>2, <1>3, <1>6 DEF ListIsKept, RegistryInv
<1> QED
  BY <1>0, <1>1, <1>2, <1>5, <1>7 DEF RegistryInv

LEMMA LoadedKept == ASSUME RegistryInv, NEW c \in pipelineCalls, Loaded(c) PROVE RegistryInv'
<1>0. c \in PipelineCallSet /\ c.n <= callsSent /\ c.kind = "load" /\ registry \in Registries
  BY RegistryIs DEF Loaded, RegistryInv, PipelinesTypeOK
<1>1. pipelineCalls' = pipelineCalls \ {c}
      /\ UNCHANGED <<pipelineRows, pipelineDialog, callsSent, pipelineMoves, changeUnheard>>
  BY DEF Loaded
<1>2. ChangePending(pipelineCalls) <=> ChangePending(pipelineCalls')
  BY <1>0, <1>1 DEF ChangePending, Changes
<1>3. listed' \in Rows
  BY <1>0 DEF Loaded, PipelineCallSet, RegistryInv, PipelinesTypeOK
<1>4. CASE c.mine /\ c.answer = "ok"
  <2>1. registry' = [registry EXCEPT !.loading = FALSE, !.shown = c.rows, !.shownFrom = c.n,
                                     !.shares = TRUE]
    BY <1>4 DEF Loaded
  <2>2. /\ registry' \in Registries /\ registry'.shown = c.rows /\ registry'.shownFrom = c.n
        /\ registry'.open = registry.open /\ registry'.asked = registry.asked
    <3>1. c.n \in 0 .. MaxPipelineCalls /\ c.rows \in Rows
      BY <1>0, PipelinesAssumption DEF PipelineCallSet
    <3> QED
      BY <1>0, <2>1, <3>1 DEF Registries
  <2>3. PipelinesTypeOK'
    BY <1>1, <1>3, <2>2 DEF RegistryInv, PipelinesTypeOK
  <2>4. ListIsKept'
    BY <1>0, <1>1, <1>2, <1>4, <2>2 DEF ListIsKept, RegistryInv
  <2> QED
    BY <1>0, <1>1, <2>2, <2>3, <2>4 DEF RegistryInv
<1>5. CASE ~(c.mine /\ c.answer = "ok")
  <2>1. /\ registry' \in Registries /\ registry'.shown = registry.shown
        /\ registry'.shownFrom = registry.shownFrom
        /\ registry'.open = registry.open /\ registry'.asked = registry.asked
    BY <1>0, <1>5 DEF Loaded, Registries
  <2>2. PipelinesTypeOK'
    BY <1>1, <1>3, <2>1 DEF RegistryInv, PipelinesTypeOK
  <2>3. ListIsKept'
    BY <1>1, <1>2, <2>1 DEF ListIsKept, RegistryInv
  <2> QED
    BY <1>1, <2>1, <2>2, <2>3 DEF RegistryInv
<1> QED
  BY <1>4, <1>5

\* A change that was made: the page that asked for it asks for the list.
LEMMA ChangedKept == ASSUME RegistryInv, NEW c \in pipelineCalls, Changed(c) PROVE RegistryInv'
<1>0. /\ c \in PipelineCallSet /\ c.n <= callsSent /\ c.kind \in Changes
      /\ registry \in Registries /\ listed \in Rows
  BY RegistryIs DEF Changed, RegistryInv, PipelinesTypeOK
<1>1. UNCHANGED <<pipelineRows, pipelineDialog, pipelineMoves>>
  BY DEF Changed
<1>2. CASE c.answer = "error"
  <2>1. /\ pipelineCalls' = pipelineCalls \ {c}
        /\ UNCHANGED <<listed, registry, callsSent, changeUnheard>>
    BY <1>2 DEF Changed
  <2>2. ChangePending(pipelineCalls) => ChangePending(pipelineCalls')
    BY <1>2, <2>1 DEF ChangePending
  <2>3. PipelinesTypeOK'
    BY <1>1, <2>1 DEF RegistryInv, PipelinesTypeOK
  <2>4. ListIsKept'
    BY <1>1, <2>1, <2>2 DEF ListIsKept, RegistryInv
  <2> QED
    BY <1>1, <2>1, <2>3, <2>4 DEF RegistryInv
<1>3. CASE /\ c.answer = "ok" /\ listed' = InPlace(c).rows /\ Reloaded(c)
           /\ changeUnheard' = (changeUnheard \/ ~c.mine)
  <2> DEFINE new == Call("load", 0, c.mine)
  <2>1. Sent("load", 0, c.mine, pipelineCalls \ {c})
    BY <1>3, Zenon DEF Reloaded
  <2>2. 0 \in 0 .. MaxPipelines /\ "load" \in CallKinds /\ c.mine \in BOOLEAN
    BY <1>0, PipelinesAssumption DEF CallKinds, PipelineCallSet
  <2>3. /\ callsSent' = callsSent + 1 /\ callsSent' \in 1 .. MaxPipelineCalls
        /\ pipelineCalls' = (pipelineCalls \ {c}) \cup {new} /\ new \in PipelineCallSet
        /\ new.answer = "none" /\ new.n = callsSent'
    BY <2>1, <2>2, CallIs
  <2> HIDE DEF new
  <2>4. InPlace(c).rows \in Rows /\ InPlace(c).shown \in Rows /\ InPlace(c).shares \in BOOLEAN
    <3>1. c.rows \in Rows /\ registry.shown \in Rows /\ registry.shares \in BOOLEAN
          /\ c.id \in 0 .. MaxPipelines
      BY <1>0 DEF PipelineCallSet, Registries
    <3>2. ASSUME NEW rows \in Rows PROVE [rows EXCEPT ![c.id] = c.rows[c.id]] \in Rows
      BY <3>1 DEF Rows
    <3> QED
      BY <1>0, <3>1, <3>2 DEF InPlace
  <2>5. registry' = [registry EXCEPT !.shown = InPlace(c).shown, !.shares = InPlace(c).shares,
                       !.loading = @ \/ c.mine, !.asked = IF c.mine THEN callsSent + 1 ELSE @]
    BY <1>3 DEF Reloaded
  <2>6. /\ registry' \in Registries /\ registry'.shownFrom = registry.shownFrom
        /\ registry'.asked = IF c.mine THEN callsSent' ELSE registry.asked
    BY <1>0, <2>2, <2>3, <2>4, <2>5 DEF Registries
  <2>7. \A d \in pipelineCalls' : d.n <= callsSent' /\ (d.n = callsSent' => d.answer = "none")
    <3>1. \A d \in pipelineCalls : d.n <= callsSent' /\ d.n # callsSent'
      BY <2>3, RegistryIs
    <3>2. callsSent' <= callsSent'
      BY <2>3
    <3> QED
      BY <2>3, <3>1, <3>2
  <2>8. PipelinesTypeOK'
    BY <1>0, <1>1, <1>3, <2>2, <2>3, <2>4, <2>6 DEF RegistryInv, PipelinesTypeOK
  <2>9. /\ registry.shownFrom # callsSent' /\ registry.shownFrom <= callsSent'
        /\ registry.asked <= callsSent' /\ callsSent' <= callsSent'
    BY <2>3, RegistryIs DEF RegistryInv
  <2>10. ListIsKept'
    BY <1>3, <2>2, <2>6, <2>7, <2>9 DEF ListIsKept
  <2> QED
    BY <1>1, <2>6, <2>7, <2>8, <2>9, <2>10 DEF RegistryInv
<1> QED
  BY <1>2, <1>3 DEF Changed

LEMMA StartedKept ==
  ASSUME RegistryInv, NEW c \in pipelineCalls, StartedOrExported(c) PROVE RegistryInv'
<1>1. /\ UNCHANGED <<pipelineRows, listed, pipelineDialog, callsSent, pipelineMoves, changeUnheard>>
      /\ c.kind \in {"run", "export"}
  BY DEF StartedOrExported
<1>2. CASE /\ c.answer = "ok" /\ registry' = [registry EXCEPT !.open = FALSE]
           /\ pipelineCalls' = Orphaned(pipelineCalls \ {c})
  <2>1. \A d \in pipelineCalls :
          [d EXCEPT !.mine = FALSE] \in PipelineCallSet /\ [d EXCEPT !.mine = FALSE].n = d.n
    BY DEF RegistryInv, PipelinesTypeOK, PipelineCallSet
  <2>2. pipelineCalls' \subseteq PipelineCallSet /\ \A d \in pipelineCalls' : d.n <= callsSent
    BY <1>2, <2>1 DEF Orphaned, RegistryInv
  <2>3. registry' \in Registries /\ ~registry'.open /\ registry'.asked = registry.asked
        /\ registry'.shownFrom = registry.shownFrom
    BY <1>2 DEF RegistryInv, PipelinesTypeOK, Registries
  <2> QED
    BY <1>1, <2>2, <2>3 DEF RegistryInv, PipelinesTypeOK, ListIsKept
<1>3. CASE pipelineCalls' = pipelineCalls \ {c} /\ UNCHANGED registry
  <2>1. ChangePending(pipelineCalls) => ChangePending(pipelineCalls')
    BY <1>1, <1>3 DEF ChangePending, Changes
  <2>2. PipelinesTypeOK'
    BY <1>1, <1>3 DEF RegistryInv, PipelinesTypeOK
  <2>3. ListIsKept'
    BY <1>1, <1>3, <2>1 DEF ListIsKept, RegistryInv
  <2> QED
    BY <1>1, <1>3, <2>2, <2>3 DEF RegistryInv
<1> QED
  BY <1>2, <1>3 DEF StartedOrExported

LEMMA RegistryStep == RegistryInv /\ [PipelinesNext]_pipelineVars => RegistryInv'
<1> SUFFICES ASSUME RegistryInv, [PipelinesNext]_pipelineVars PROVE RegistryInv'
  OBVIOUS
<1>1. CASE UNCHANGED pipelineVars
  BY <1>1 DEF pipelineVars, RegistryInv, PipelinesTypeOK, ListIsKept, ChangePending
<1> QED
  BY <1>1, PageOpened, DialogsKept, ServeKept, FailKept, LoadedKept, ChangedKept, StartedKept
     DEF PipelinesNext

\* The page of pipelines keeps its types, for any number of pipelines, requests and visits.
THEOREM PipelineTypes == PipelinesSpec => []PipelinesTypeOK
<1>1. RegistryInv => PipelinesTypeOK
  BY DEF RegistryInv
<1> QED
  BY <1>1, RegistryInitially, RegistryStep, PTL DEF PipelinesSpec

LEMMA RegistryShown == RegistryInv => RegistryIsCurrent
BY DEF RegistryInv, ListIsKept, ChangePending, RegistryIsCurrent

\* Once nothing is on its way and the list that was asked for last is there, the page shows
\* what is stored, however changes, lists and visits overlapped.
THEOREM RegistryCurrent == PipelinesSpec => []RegistryIsCurrent
BY RegistryShown, RegistryInitially, RegistryStep, PTL DEF PipelinesSpec
-------------------------------------------------------------------------------
(* The scanner editor                                                        *)

OpenDialogs == [id : 0 .. MaxScanners, mine : BOOLEAN]

EditorTypes ==
  /\ scanners \in ScannerRows /\ scannerPage \in ScannerPages
  /\ confirmations \subseteq OpenDialogs /\ scannerCalls \subseteq ScannerCallSet
  /\ scannersSent \in 1 .. MaxScannerCalls

\* What a page waits for is of its own kind: only the list waits for lists, only the editor
\* for the scanner of its address.
OwnCalls ==
  /\ \A c \in scannerCalls : c.mine =>
       IF c.kind \in {"get", "create", "save"} THEN scannerPage.view = "editor"
                                               ELSE scannerPage.view = "list"
  /\ \A c \in scannerCalls : c.mine /\ c.kind = "get" => c.id = scannerPage.id /\ c.id # 0
  /\ \A d \in confirmations : d.mine => scannerPage.view = "list"

\* The editor of a scanner has it, or is empty and not to be edited.
EditorHasIt ==
  scannerPage.view = "editor" /\ scannerPage.id # 0 =>
    \/ scannerPage.scanner = scannerPage.id
    \/ scannerPage.scanner = 0 /\ scannerPage.loading /\ scannerPage.form.tickers = {}

EditorInv == EditorTypes /\ OwnCalls /\ EditorHasIt

LEMMA EmptyIsTyped ==
  /\ NoScanner \in Scanner /\ NoScanners \in ScannerRows
  /\ \A view \in {"list", "editor", "other"} :
       EmptyPage(view) \in ScannerPages /\ EmptyPage(view).view = view
BY ScannersAssumption
   DEF NoScanner, NoScanners, Scanner, ScannerRows, EmptyPage, ScannerPages, Filters

\* A request that is sent is well formed, and one more.
ScannerAsked(kind, id, value, mine, n) ==
  [kind |-> kind, id |-> id, value |-> value, n |-> n, mine |-> mine, answer |-> "none",
   rows |-> NoScanners]

LEMMA ScannerSent ==
  ASSUME NEW kind \in {"list", "usage", "delete", "toggle", "get", "create", "save"},
         NEW id \in 0 .. MaxScanners, NEW value \in Scanner, NEW mine \in BOOLEAN,
         NEW n \in 1 .. MaxScannerCalls
  PROVE  ScannerAsked(kind, id, value, mine, n) \in ScannerCallSet
BY EmptyIsTyped DEF ScannerAsked, ScannerCallSet

LEMMA ScannerSentCount ==
  ASSUME EditorTypes, scannersSent < MaxScannerCalls
  PROVE  scannersSent + 1 \in 1 .. MaxScannerCalls
BY ScannersAssumption DEF EditorTypes

LEMMA LeftIsTyped ==
  ASSUME NEW S \in SUBSET ScannerCallSet
  PROVE  /\ ScannersLeft(S) \subseteq ScannerCallSet
         /\ \A c \in ScannersLeft(S) : ~c.mine /\ \E d \in S : c.kind = d.kind
BY DEF ScannersLeft, ScannerCallSet

LEMMA EditorInitially == ScannersInit => EditorInv
<1> SUFFICES ASSUME ScannersInit PROVE EditorInv
  OBVIOUS
<1>1. scanners \in ScannerRows
  BY ScannersAssumption DEF ScannersInit, ScannerRows, Scanner, NoScanners, NoScanner, ScannerIds
<1>2. scannerPage \in ScannerPages /\ scannerPage.view = "list"
  <2>1. EmptyPage("list") \in ScannerPages /\ EmptyPage("list").view = "list"
    BY EmptyIsTyped
  <2>2. 1 \in 0 .. MaxScannerCalls
    BY ScannersAssumption
  <2> QED
    BY <2>1, <2>2 DEF ScannersInit, ScannerPages
<1>3. scannerCalls \subseteq ScannerCallSet
  BY EmptyIsTyped, ScannersAssumption DEF ScannersInit, ScannerCallSet, ScannerRows
<1> QED
  BY <1>1, <1>2, <1>3, ScannersAssumption
     DEF ScannersInit, EditorInv, EditorTypes, OwnCalls, EditorHasIt

\* To another list: nothing of the old page is waited for any more.
LEMMA ToListKept ==
  ASSUME EditorInv, NEW rest \in SUBSET scannerCalls, ToList(rest) \/ StayOnList(rest),
         scanners' = scanners
  PROVE  EditorInv'
<1>1. CASE ToList(rest)
  <2>1. NoScanner \in Scanner /\ rest \in SUBSET ScannerCallSet
    BY EmptyIsTyped DEF EditorInv, EditorTypes
  <2>a. SendScanner("list", 0, NoScanner, TRUE, ScannersLeft(rest)) /\ EditorTypes
    BY <1>1 DEF ToList, EditorInv
  <2>b. 0 \in 0 .. MaxScanners
    BY ScannersAssumption
  <2> DEFINE new == ScannerAsked("list", 0, NoScanner, TRUE, scannersSent + 1)
  <2>3. scannersSent + 1 \in 1 .. MaxScannerCalls /\ scannersSent' = scannersSent + 1
    BY <2>a, ScannerSentCount DEF SendScanner
  <2>2. /\ scannerCalls' = ScannersLeft(rest) \cup {new}
        /\ new \in ScannerCallSet /\ new.kind = "list"
    <3>1. scannerCalls' = ScannersLeft(rest) \cup {new}
      BY <2>a DEF SendScanner, ScannerCall, ScannerAsked
    <3>2. new \in ScannerCallSet
      BY <2>1, <2>b, <2>3, ScannerSent
    <3> QED
      BY <3>1, <3>2 DEF ScannerAsked
  <2> HIDE DEF new
  <2>4. scannerPage' \in ScannerPages /\ scannerPage'.view = "list"
    <3>1. EmptyPage("list") \in ScannerPages /\ EmptyPage("list").view = "list"
      BY EmptyIsTyped
    <3>2. scannersSent + 1 \in 0 .. MaxScannerCalls
      BY <2>3
    <3> QED
      BY <1>1, <3>1, <3>2 DEF ToList, ScannerPages
  <2>5. confirmations' \subseteq OpenDialogs
    BY <1>1 DEF ToList, ScannersLeft, OpenDialogs, EditorInv, EditorTypes
  <2> QED
    BY <2>1, <2>2, <2>3, <2>4, <2>5, LeftIsTyped
       DEF EditorInv, EditorTypes, OwnCalls, EditorHasIt
<1>2. CASE StayOnList(rest)
  BY <1>2 DEF StayOnList, EditorInv, EditorTypes, OwnCalls, EditorHasIt
<1> QED
  BY <1>1, <1>2

\* The moves of the user that change the page and send nothing.
LEMMA EditorFormKept ==
  ASSUME EditorInv, Editing,
         \/ \E value \in SUBSET Tickers : EditForm("tickers", value)
         \/ \E state \in {"active", "inactive"} : EditForm("state", state)
         \/ NameScanner
  PROVE  EditorInv'
<1>0. scannerPage \in ScannerPages
  BY DEF EditorInv, EditorTypes
<1>1. scannerPage' \in ScannerPages /\ scannerPage'.view = scannerPage.view
        /\ scannerPage'.id = scannerPage.id /\ scannerPage'.scanner = scannerPage.scanner
        /\ scannerPage'.loading = scannerPage.loading
  <2>1. ASSUME NEW value \in SUBSET Tickers,
               scannerPage' = [scannerPage EXCEPT !.form["tickers"] = value]
        PROVE  <1>1!:
    BY <1>0, <2>1 DEF ScannerPages, Scanner
  <2>2. ASSUME NEW state \in {"active", "inactive"},
               scannerPage' = [scannerPage EXCEPT !.form["state"] = state]
        PROVE  <1>1!:
    BY <1>0, <2>2 DEF ScannerPages, Scanner
  <2>3. ASSUME scannerPage' = [scannerPage EXCEPT !.named = ~@]
        PROVE  <1>1!:
    BY <1>0, <2>3 DEF ScannerPages
  <2> QED
    BY <2>1, <2>2, <2>3 DEF EditForm, NameScanner
<1>2. UNCHANGED <<scanners, confirmations, scannerCalls, scannersSent>>
  BY DEF EditForm, NameScanner, ScannerMove
<1> QED
  BY <1>1, <1>2 DEF Editing, EditorInv, EditorTypes, OwnCalls, EditorHasIt

LEMMA EditorMovesKept ==
  ASSUME EditorInv,
         \/ VisitList \/ LeaveScanners
         \/ \E s \in 0 .. MaxScanners : VisitEditor(s)
         \/ \E filter \in Filters : ApplyFilter(filter)
         \/ \E s \in ScannerIds : DeleteScanner(s) \/ ToggleScannerStatus(s)
  PROVE  EditorInv'
<1>0. NoScanner \in Scanner /\ scannerCalls \in SUBSET ScannerCallSet
  BY EmptyIsTyped DEF EditorInv, EditorTypes
<1>1. CASE VisitList
  BY <1>1, ToListKept DEF VisitList, ScannerMove
<1>2. CASE LeaveScanners
  <2>1. scannerPage' \in ScannerPages /\ scannerPage'.view = "other"
    BY <1>2, EmptyIsTyped DEF LeaveScanners
  <2> QED
    BY <1>0, <1>2, <2>1, LeftIsTyped
       DEF LeaveScanners, ScannerMove, EditorInv, EditorTypes, OwnCalls, EditorHasIt
<1>3. ASSUME NEW s \in 0 .. MaxScanners, VisitEditor(s) PROVE EditorInv'
  <2>1. /\ scannerPage' \in ScannerPages /\ scannerPage'.view = "editor"
        /\ scannerPage'.id = s
        /\ s # 0 => /\ scannerPage'.scanner = 0 /\ scannerPage'.loading
                     /\ scannerPage'.form.tickers = {}
    BY <1>3, EmptyIsTyped DEF VisitEditor, EmptyPage, ScannerPages
  <2>2. CASE s = 0
    <3>1. /\ scannerCalls' = ScannersLeft(scannerCalls)
          /\ UNCHANGED <<scanners, scannersSent, confirmations>> /\ confirmations = {}
      BY <1>3, <2>2 DEF VisitEditor, ScannerMove
    <3> QED
      BY <1>0, <2>1, <2>2, <3>1, LeftIsTyped DEF EditorInv, EditorTypes, OwnCalls, EditorHasIt
  <2>3. CASE s # 0
    <3>1. SendScanner("get", s, NoScanner, TRUE, ScannersLeft(scannerCalls))
      BY <1>3, <2>3 DEF VisitEditor
    <3>a. EditorTypes
      BY DEF EditorInv
    <3> DEFINE new == ScannerAsked("get", s, NoScanner, TRUE, scannersSent + 1)
    <3>3. scannersSent + 1 \in 1 .. MaxScannerCalls /\ scannersSent' = scannersSent + 1
      BY <3>1, <3>a, ScannerSentCount DEF SendScanner
    <3>2. /\ scannerCalls' = ScannersLeft(scannerCalls) \cup {new}
          /\ new \in ScannerCallSet /\ new.kind = "get" /\ new.id = s
      <4>1. scannerCalls' = ScannersLeft(scannerCalls) \cup {new}
        BY <3>1 DEF SendScanner, ScannerCall, ScannerAsked
      <4>2. new \in ScannerCallSet
        BY <1>0, <1>3, <3>3, ScannerSent
      <4> QED
        BY <4>1, <4>2 DEF ScannerAsked
    <3> HIDE DEF new
    <3> QED
      BY <1>0, <1>3, <2>1, <3>2, <3>3, LeftIsTyped
         DEF VisitEditor, ScannerMove, EditorInv, EditorTypes, OwnCalls, EditorHasIt
  <2> QED
    BY <2>2, <2>3
<1>4. ASSUME NEW filter \in Filters, ApplyFilter(filter) PROVE EditorInv'
  <2>1. Filtered(scannerPage.allScanners, filter) \in ScannerRows
    BY <1>0 DEF Filtered, EditorInv, EditorTypes, ScannerPages, ScannerRows
  <2>2. scannerPage' \in ScannerPages /\ scannerPage'.view = "list"
    BY <1>4, <2>1 DEF ApplyFilter, EditorInv, EditorTypes, ScannerPages
  <2> QED
    BY <1>4, <2>2 DEF ApplyFilter, ScannerMove, EditorInv, EditorTypes, OwnCalls, EditorHasIt
<1>5. ASSUME NEW s \in ScannerIds, DeleteScanner(s) \/ ToggleScannerStatus(s) PROVE EditorInv'
  <2>1. PICK kind \in {"usage", "toggle"}, value \in Scanner :
          SendScanner(kind, s, value, TRUE, scannerCalls)
    BY <1>0, <1>5 DEF DeleteScanner, ToggleScannerStatus, EditorInv, EditorTypes, ScannerPages,
       ScannerRows, Scanner
  <2>a. EditorTypes /\ s \in 0 .. MaxScanners
    BY ScannersAssumption DEF EditorInv, ScannerIds
  <2> DEFINE new == ScannerAsked(kind, s, value, TRUE, scannersSent + 1)
  <2>3. scannersSent + 1 \in 1 .. MaxScannerCalls /\ scannersSent' = scannersSent + 1
    BY <2>1, <2>a, ScannerSentCount DEF SendScanner
  <2>2. /\ scannerCalls' = scannerCalls \cup {new}
        /\ new \in ScannerCallSet /\ new.kind = kind
    <3>1. scannerCalls' = scannerCalls \cup {new}
      BY <2>1 DEF SendScanner, ScannerCall, ScannerAsked
    <3>2. new \in ScannerCallSet
      BY <2>a, <2>3, ScannerSent
    <3> QED
      BY <3>1, <3>2 DEF ScannerAsked
  <2> HIDE DEF new
  <2>4. scannerPage.view = "list" /\ UNCHANGED <<scanners, scannerPage, confirmations>>
    BY <1>5 DEF DeleteScanner, ToggleScannerStatus, OnList, ScannerMove
  <2> QED
    BY <2>2, <2>3, <2>4 DEF EditorInv, EditorTypes, OwnCalls, EditorHasIt
<1> QED
  BY <1>1, <1>2, <1>3, <1>4, <1>5

\* What the user has confirmed or saved.
LEMMA ScannerSendingKept ==
  ASSUME EditorInv, SaveScanner \/ \E d \in confirmations : CloseConfirmation(d)
  PROVE  EditorInv'
<1>0. /\ EditorTypes /\ NoScanner \in Scanner /\ scannerPage.form \in Scanner
      /\ scannerPage.scanner \in 0 .. MaxScanners /\ 0 \in 0 .. MaxScanners
  BY EmptyIsTyped, ScannersAssumption DEF EditorInv, EditorTypes, ScannerPages
<1>1. CASE SaveScanner
  <2>1. PICK kind \in {"save", "create"}, id \in 0 .. MaxScanners :
          SendScanner(kind, id, scannerPage.form, TRUE, scannerCalls)
    BY <1>0, <1>1 DEF SaveScanner
  <2> DEFINE new == ScannerAsked(kind, id, scannerPage.form, TRUE, scannersSent + 1)
  <2>2. scannersSent + 1 \in 1 .. MaxScannerCalls /\ scannersSent' = scannersSent + 1
    BY <1>0, <2>1, ScannerSentCount DEF SendScanner
  <2>3. /\ scannerCalls' = scannerCalls \cup {new}
        /\ new \in ScannerCallSet /\ new.kind \in {"save", "create"}
    <3>1. scannerCalls' = scannerCalls \cup {new}
      BY <2>1 DEF SendScanner, ScannerCall, ScannerAsked
    <3>2. new \in ScannerCallSet
      BY <1>0, <2>2, ScannerSent
    <3> QED
      BY <3>1, <3>2 DEF ScannerAsked
  <2> HIDE DEF new
  <2>4. scannerPage.view = "editor" /\ scannerPage' = [scannerPage EXCEPT !.saving = TRUE]
          /\ UNCHANGED <<scanners, confirmations>>
    BY <1>1 DEF SaveScanner, CanSave
  <2>5. scannerPage' \in ScannerPages
    BY <1>0, <2>4 DEF EditorTypes, ScannerPages
  <2> QED
    BY <2>2, <2>3, <2>4, <2>5 DEF EditorInv, EditorTypes, OwnCalls, EditorHasIt, ScannerPages
<1>2. ASSUME NEW d \in confirmations, CloseConfirmation(d) PROVE EditorInv'
  <2>1. UNCHANGED <<scanners, scannerPage>> /\ confirmations' \subseteq confirmations
    BY <1>2 DEF CloseConfirmation
  <2>2. CASE UNCHANGED <<scannerCalls, scannersSent>>
    BY <2>1, <2>2 DEF EditorInv, EditorTypes, OwnCalls, EditorHasIt
  <2>3. CASE SendScanner("delete", d.id, NoScanner, d.mine, scannerCalls)
    <3> DEFINE new == ScannerAsked("delete", d.id, NoScanner, d.mine, scannersSent + 1)
    <3>1. d.id \in 0 .. MaxScanners /\ d.mine \in BOOLEAN
      BY <1>0 DEF EditorTypes, OpenDialogs
    <3>2. scannersSent + 1 \in 1 .. MaxScannerCalls /\ scannersSent' = scannersSent + 1
      BY <1>0, <2>3, ScannerSentCount DEF SendScanner
    <3>3. /\ scannerCalls' = scannerCalls \cup {new}
          /\ new \in ScannerCallSet /\ new.kind = "delete" /\ new.mine = d.mine
      <4>1. scannerCalls' = scannerCalls \cup {new}
        BY <2>3 DEF SendScanner, ScannerCall, ScannerAsked
      <4>2. new \in ScannerCallSet
        BY <1>0, <3>1, <3>2, ScannerSent
      <4> QED
        BY <4>1, <4>2 DEF ScannerAsked
    <3> HIDE DEF new
    <3> QED
      BY <2>1, <3>2, <3>3 DEF EditorInv, EditorTypes, OwnCalls, EditorHasIt
  <2> QED
    BY <1>2, <2>2, <2>3 DEF CloseConfirmation
<1> QED
  BY <1>1, <1>2

\* The answers, each to a request in flight.
LEMMA ScannerAnswersKept ==
  ASSUME EditorInv, NEW c \in scannerCalls, ScannerAnswers(c)
  PROVE  EditorInv'
<1>0. /\ EditorTypes /\ c \in ScannerCallSet /\ c.rows \in ScannerRows /\ c.id \in 0 .. MaxScanners
      /\ c.mine \in BOOLEAN /\ c.n \in 0 .. MaxScannerCalls /\ scannerPage \in ScannerPages
      /\ scannerCalls \ {c} \in SUBSET scannerCalls
  BY ScannersAssumption DEF EditorInv, EditorTypes, ScannerCallSet
<1>1. CASE UsageAnswered(c)
  <2>1. [id |-> c.id, mine |-> c.mine] \in OpenDialogs
    BY <1>0 DEF OpenDialogs
  <2> QED
    BY <1>0, <1>1, <2>1 DEF UsageAnswered, EditorInv, EditorTypes, OwnCalls, EditorHasIt
<1>2. CASE ScannersLoaded(c)
  <2>1. Filtered(c.rows, scannerPage.filterActive) \in ScannerRows
    BY <1>0, EmptyIsTyped DEF Filtered, ScannerRows
  <2>2. scannerPage' \in ScannerPages /\ scannerPage'.view = scannerPage.view
          /\ scannerPage'.id = scannerPage.id
    BY <1>0, <1>2, <2>1 DEF ScannersLoaded, ScannerPages
  <2>3. ~c.mine => /\ scannerPage'.scanner = scannerPage.scanner
                   /\ scannerPage'.loading = scannerPage.loading
                   /\ scannerPage'.form = scannerPage.form
    BY <1>0, <1>2 DEF ScannersLoaded, ScannerPages
  <2>4. c.mine => scannerPage.view = "list"
    BY <1>2 DEF ScannersLoaded, EditorInv, OwnCalls
  <2> QED
    BY <1>0, <1>2, <2>2, <2>3, <2>4
       DEF ScannersLoaded, EditorInv, EditorTypes, OwnCalls, EditorHasIt
<1>3. CASE ListChanged(c)
  <2>1. c.mine => scannerPage.view = "list"
    BY <1>3 DEF ListChanged, EditorInv, OwnCalls
  <2>2. CASE scannerCalls' = scannerCalls \ {c} /\ UNCHANGED <<scannerPage, scannersSent>>
    BY <1>3, <2>2 DEF ListChanged, EditorInv, EditorTypes, OwnCalls, EditorHasIt
  <2>3. CASE scannerPage' = Placed(c)
               /\ SendScanner("list", 0, NoScanner, c.mine, scannerCalls \ {c})
    <3> DEFINE new == ScannerAsked("list", 0, NoScanner, c.mine, scannersSent + 1)
    <3>1. scannersSent + 1 \in 1 .. MaxScannerCalls /\ scannersSent' = scannersSent + 1
      BY <1>0, <2>3, ScannerSentCount DEF SendScanner
    <3>2. /\ scannerCalls' = (scannerCalls \ {c}) \cup {new}
          /\ new \in ScannerCallSet /\ new.kind = "list" /\ new.mine = c.mine
      <4>1. scannerCalls' = (scannerCalls \ {c}) \cup {new}
        BY <2>3 DEF SendScanner, ScannerCall, ScannerAsked
      <4>2. 0 \in 0 .. MaxScanners
        BY ScannersAssumption
      <4>3. new \in ScannerCallSet
        BY <1>0, <3>1, <4>2, ScannerSent, EmptyIsTyped
      <4> QED
        BY <4>1, <4>3 DEF ScannerAsked
    <3> HIDE DEF new
    <3>3. [scannerPage.allScanners EXCEPT ![c.id] = c.rows[c.id]] \in ScannerRows
      BY <1>0 DEF ScannerPages, ScannerRows
    <3>4. scannersSent + 1 \in 0 .. MaxScannerCalls
      BY <3>1
    <3>5. scannerPage' \in ScannerPages /\ scannerPage'.view = scannerPage.view
            /\ scannerPage'.id = scannerPage.id
      BY ZenonT(30), <1>0, <2>3, <3>3, <3>4 DEF Placed, ScannerPages
    <3>6. ~c.mine => /\ scannerPage'.scanner = scannerPage.scanner
                     /\ scannerPage'.loading = scannerPage.loading
                     /\ scannerPage'.form = scannerPage.form
      BY <1>0, <2>3 DEF Placed, ScannerPages
    <3>7. UNCHANGED <<scanners, confirmations>>
      BY <1>3 DEF ListChanged
    <3> QED
      BY <1>0, <2>1, <3>1, <3>2, <3>5, <3>6, <3>7 DEF EditorInv, EditorTypes, OwnCalls, EditorHasIt
  <2> QED
    BY <1>3, <2>2, <2>3 DEF ListChanged
<1>4. CASE ScannerLoaded(c)
  <2>1. CASE c.answer = "error"
    <3>1. ToList(scannerCalls \ {c}) \/ StayOnList(scannerCalls \ {c})
      BY <1>4, <2>1 DEF ScannerLoaded
    <3>2. scanners' = scanners
      BY <1>4 DEF ScannerLoaded
    <3> QED
      BY <1>0, <3>1, <3>2, ToListKept
  <2>2. CASE c.answer = "ok"
    <3>1. /\ scannerCalls' = scannerCalls \ {c}
          /\ UNCHANGED <<scanners, confirmations, scannersSent>>
          /\ scannerPage' = IF ~c.mine THEN scannerPage
               ELSE [scannerPage EXCEPT !.loading = FALSE, !.scanner = c.id, !.named = TRUE,
                                        !.form = c.rows[c.id]]
      BY <1>4, <2>2 DEF ScannerLoaded
    <3>2. CASE ~c.mine
      BY <3>1, <3>2 DEF EditorInv, EditorTypes, OwnCalls, EditorHasIt
    <3>3. CASE c.mine
      <4>1. c.id = scannerPage.id /\ c.id # 0 /\ scannerPage.view = "editor"
        BY <1>4, <3>3 DEF ScannerLoaded, EditorInv, OwnCalls
      <4>2. c.rows[c.id] \in Scanner
        <5>1. c.id \in ScannerIds
          BY <1>0, <4>1, ScannersAssumption DEF ScannerIds
        <5> QED
          BY <1>0, <5>1 DEF ScannerRows
      <4>3. scannerPage' \in ScannerPages /\ scannerPage'.view = "editor"
              /\ scannerPage'.id = scannerPage.id /\ scannerPage'.scanner = c.id
        BY <1>0, <3>1, <3>3, <4>1, <4>2 DEF ScannerPages
      <4> QED
        BY <3>1, <4>1, <4>3 DEF EditorInv, EditorTypes, OwnCalls, EditorHasIt
    <3> QED
      BY <3>2, <3>3
  <2> QED
    BY <1>4, <2>1, <2>2 DEF ScannerLoaded
<1>5. CASE SaveAnswered(c)
  <2>1. CASE c.answer = "ok"
    <3>1. ToList(scannerCalls \ {c}) \/ StayOnList(scannerCalls \ {c})
      BY <1>5, <2>1 DEF SaveAnswered
    <3>2. scanners' = scanners
      BY <1>5 DEF SaveAnswered
    <3> QED
      BY <1>0, <3>1, <3>2, ToListKept
  <2>2. CASE c.answer = "error"
    <3>1. /\ scannerCalls' = scannerCalls \ {c}
          /\ UNCHANGED <<scanners, confirmations, scannersSent>>
          /\ scannerPage' = IF c.mine THEN [scannerPage EXCEPT !.saving = FALSE] ELSE scannerPage
      BY <1>5, <2>2 DEF SaveAnswered
    <3>2. /\ scannerPage' \in ScannerPages /\ scannerPage'.view = scannerPage.view
          /\ scannerPage'.id = scannerPage.id /\ scannerPage'.scanner = scannerPage.scanner
          /\ scannerPage'.loading = scannerPage.loading /\ scannerPage'.form = scannerPage.form
      BY <1>0, <3>1 DEF ScannerPages
    <3> QED
      BY <3>1, <3>2 DEF EditorInv, EditorTypes, OwnCalls, EditorHasIt
  <2> QED
    BY <1>5, <2>1, <2>2 DEF SaveAnswered
<1> QED
  BY <1>1, <1>2, <1>3, <1>4, <1>5 DEF ScannerAnswers

\* The server's work, and what fails.
LEMMA ScannerServingKept ==
  ASSUME EditorInv, NEW c \in scannerCalls, ServeScanner(c) \/ ScannerFails(c)
  PROVE  EditorInv'
<1>0. /\ EditorTypes /\ c \in ScannerCallSet /\ c.value \in Scanner /\ NoScanners \in ScannerRows
  BY EmptyIsTyped DEF EditorInv, EditorTypes, ScannerCallSet
<1>1. scanners' \in ScannerRows
  <2>1. CASE scanners' = ScannerEffect(c)
    <3>1. /\ [scanners EXCEPT ![c.id] = [state |-> "deleted", tickers |-> {}]] \in ScannerRows
          /\ [scanners EXCEPT ![c.id] = c.value] \in ScannerRows
          /\ [scanners EXCEPT ![NewScanner] = c.value] \in ScannerRows
      BY <1>0 DEF EditorTypes, ScannerRows, Scanner
    <3>2. [scanners EXCEPT ![c.id].state = c.value.state] \in ScannerRows
      BY <1>0 DEF EditorTypes, ScannerRows, Scanner
    <3> QED
      BY <1>0, <2>1, <3>1, <3>2 DEF ScannerEffect, EditorTypes
  <2>2. CASE UNCHANGED scanners
    BY <1>0, <2>2 DEF EditorTypes
  <2> QED
    BY <2>1, <2>2 DEF ServeScanner, ScannerFails
<1>2. PICK new \in ScannerCallSet :
        /\ scannerCalls' = (scannerCalls \ {c}) \cup {new}
        /\ new.kind = c.kind /\ new.id = c.id /\ new.mine = c.mine
  <2>1. CASE ServeScanner(c)
    <3>1. PICK answer \in {"ok", "error"} :
            scannerCalls' = (scannerCalls \ {c}) \cup
              {[c EXCEPT !.answer = answer, !.rows = scanners']}
      BY <2>1 DEF ServeScanner
    <3>2. [c EXCEPT !.answer = answer, !.rows = scanners'] \in ScannerCallSet
      BY <1>0, <1>1 DEF ScannerCallSet
    <3> QED
      BY <1>0, <3>1, <3>2 DEF ScannerCallSet
  <2>2. CASE ScannerFails(c)
    <3>1. [c EXCEPT !.answer = "error", !.rows = NoScanners] \in ScannerCallSet
      BY <1>0 DEF ScannerCallSet
    <3> QED
      BY <1>0, <2>2, <3>1 DEF ScannerFails, ScannerCallSet
  <2> QED
    BY <2>1, <2>2
<1>3. UNCHANGED <<scannerPage, confirmations, scannersSent>>
  BY DEF ServeScanner, ScannerFails
<1> QED
  BY <1>0, <1>1, <1>2, <1>3 DEF EditorInv, EditorTypes, OwnCalls, EditorHasIt

LEMMA EditorStep == EditorInv /\ [ScannersNext]_scannerVars => EditorInv'
<1> SUFFICES ASSUME EditorInv, [ScannersNext]_scannerVars PROVE EditorInv'
  OBVIOUS
<1>1. CASE ScannerUser
  <2>1. ASSUME \/ \E t \in Tickers : ToggleTicker(t)
               \/ \E some \in TickerSets : AddTickers(some) \/ ClearTickers(some)
               \/ \E state \in {"active", "inactive"} : EditForm("state", state)
               \/ NameScanner
        PROVE  EditorInv'
    <3>1. /\ scannerPage.form.tickers \in SUBSET Tickers
          /\ \A t \in Tickers : /\ scannerPage.form.tickers \ {t} \in SUBSET Tickers
                              /\ scannerPage.form.tickers \cup {t} \in SUBSET Tickers
          /\ \A some \in TickerSets : /\ scannerPage.form.tickers \ some \in SUBSET Tickers
                                     /\ scannerPage.form.tickers \cup some \in SUBSET Tickers
      BY DEF EditorInv, EditorTypes, ScannerPages, Scanner, TickerSets
    <3>2. \/ \E value \in SUBSET Tickers : EditForm("tickers", value)
          \/ \E state \in {"active", "inactive"} : EditForm("state", state)
          \/ NameScanner
      BY <2>1, <3>1 DEF ToggleTicker, AddTickers, ClearTickers
    <3>3. Editing
      BY <3>2 DEF EditForm, NameScanner
    <3> QED
      BY <3>2, <3>3, EditorFormKept
  <2> QED
    BY <1>1, <2>1, EditorMovesKept, ScannerSendingKept DEF ScannerUser
<1>2. ASSUME NEW c \in scannerCalls,
             ServeScanner(c) \/ ScannerFails(c) \/ (c.answer # "none" /\ ScannerAnswers(c))
      PROVE  EditorInv'
  BY <1>2, ScannerServingKept, ScannerAnswersKept
<1>3. CASE UNCHANGED scannerVars
  BY <1>3 DEF scannerVars, EditorInv, EditorTypes, OwnCalls, EditorHasIt
<1> QED
  BY <1>1, <1>2, <1>3 DEF ScannersNext

\* Every step: the editor of a scanner, opened before or after its scanner has come, sends
\* to no other scanner and makes none.
EditorSends ==
  scannerPage.view = "editor" /\ scannerPage.id # 0 /\ scannerPage'.saving
    => \A c \in scannerCalls' \ scannerCalls :
         c.kind \in {"save", "create"} /\ c.answer = "none" =>
           c.kind = "save" /\ c.id = scannerPage.id

LEMMA EditorSendsIt == EditorInv /\ [ScannersNext]_scannerVars => EditorSends
<1> SUFFICES ASSUME EditorInv, [ScannersNext]_scannerVars,
                    scannerPage.view = "editor", scannerPage.id # 0, scannerPage'.saving,
                    NEW c \in scannerCalls' \ scannerCalls,
                    c.kind \in {"save", "create"}, c.answer = "none"
             PROVE  c.kind = "save" /\ c.id = scannerPage.id
  BY DEF EditorSends
<1>1. CASE SaveScanner
  <2>1. scannerPage.form.tickers # {}
    BY <1>1 DEF SaveScanner, CanSave
  <2>2. scannerPage.scanner = scannerPage.id
    BY <2>1 DEF EditorInv, EditorHasIt
  <2> QED
    BY <1>1, <2>2 DEF SaveScanner, SendScanner, ScannerCall
<1>2. CASE LeaveScanners \/ VisitList \/ \E s \in 0 .. MaxScanners : VisitEditor(s)
  <2>1. CASE VisitList
    BY <2>1 DEF VisitList, ToList, EmptyPage
  <2>2. CASE LeaveScanners
    BY <2>2 DEF LeaveScanners, EmptyPage
  <2>3. CASE \E s \in 0 .. MaxScanners : VisitEditor(s)
    BY <2>3 DEF VisitEditor
  <2> QED
    BY <1>2, <2>1, <2>2, <2>3
<1>3. CASE \/ \E filter \in Filters : ApplyFilter(filter)
           \/ \E t \in Tickers : ToggleTicker(t)
           \/ \E some \in TickerSets : AddTickers(some) \/ ClearTickers(some)
           \/ \E state \in {"active", "inactive"} : EditForm("state", state)
           \/ NameScanner \/ UNCHANGED scannerVars
  BY <1>3 DEF ApplyFilter, ToggleTicker, AddTickers, ClearTickers, EditForm, NameScanner,
     scannerVars
<1>4. CASE \/ \E s \in ScannerIds : DeleteScanner(s) \/ ToggleScannerStatus(s)
           \/ \E d \in confirmations : CloseConfirmation(d)
  BY <1>4 DEF DeleteScanner, ToggleScannerStatus, CloseConfirmation, SendScanner, ScannerCall
<1>5. ASSUME NEW d \in scannerCalls, ServeScanner(d) \/ ScannerFails(d) PROVE FALSE
  <2>1. d \in ScannerCallSet
    BY DEF EditorInv, EditorTypes
  <2>2. CASE ServeScanner(d)
    <3>1. PICK answer \in {"ok", "error"} :
            scannerCalls' = (scannerCalls \ {d}) \cup
              {[d EXCEPT !.answer = answer, !.rows = scanners']}
      BY <2>2 DEF ServeScanner
    <3> QED
      BY <2>1, <3>1 DEF ScannerCallSet
  <2>3. CASE ScannerFails(d)
    <3>1. scannerCalls' = (scannerCalls \ {d}) \cup
            {[d EXCEPT !.answer = "error", !.rows = NoScanners]}
      BY <2>3 DEF ScannerFails
    <3>2. c = [d EXCEPT !.answer = "error", !.rows = NoScanners]
      BY <3>1
    <3>3. c.answer = "error"
      BY <2>1, <3>2 DEF ScannerCallSet
    <3> QED
      BY <3>3
  <2> QED
    BY <1>5, <2>2, <2>3
<1>6. ASSUME NEW d \in scannerCalls, ScannerAnswers(d) PROVE FALSE
  <2>1. CASE ToList(scannerCalls \ {d})
    BY <2>1 DEF ToList, EmptyPage
  <2>2. CASE ~ToList(scannerCalls \ {d})
    BY <1>6, <2>2 DEF ScannerAnswers, UsageAnswered, ScannersLoaded, ListChanged, ScannerLoaded,
       SaveAnswered, StayOnList, SendScanner, ScannerCall
  <2> QED
    BY <2>1, <2>2
<1> QED
  BY <1>1, <1>2, <1>3, <1>4, <1>5, <1>6 DEF ScannersNext, ScannerUser

\* The scanner editor: saving changes the scanner of the address and makes no other, however
\* early it is pressed.
THEOREM EditorKeeps == ScannersSpec => EditorKeepsToItsScanner
<1>1. EditorInv /\ [ScannersNext]_scannerVars => [EditorSends]_scannerVars
  BY EditorSendsIt
<1>2. ScannersSpec => []EditorInv
  BY EditorInitially, EditorStep, PTL DEF ScannersSpec
<1>3. EditorKeepsToItsScanner <=> [][EditorSends]_scannerVars
  BY DEF EditorKeepsToItsScanner, EditorSends
<1> QED
  BY <1>1, <1>2, <1>3, PTL DEF ScannersSpec

\* A change that was made and whose answer has not arrived: it will load the list again.
ScannerChanges == {"delete", "toggle", "save", "create"}
ScannerPending(calls) == \E c \in calls : c.kind \in ScannerChanges /\ c.answer = "ok"

\* The list that was asked for last is current and filtered, when it is shown and when it is
\* on its way, or will be asked for again.
FilteredIsKept(page, calls, rows) ==
  ~ScannerPending(calls) =>
    /\ page.shownFrom = page.asked =>
         page.allScanners = rows /\ page.scanners = Filtered(rows, page.filterActive)
    /\ \A c \in calls : c.kind = "list" /\ c.mine /\ c.answer = "ok" /\ c.n = page.asked =>
         c.rows = rows

RequestIsSound(c, sent) ==
  /\ c.n <= sent
  /\ c.kind = "usage" => c.id \in ScannerIds
  /\ c.kind \in {"save", "create"} => c.value.tickers # {}

StoredHaveTickers(rows) == \A s \in ScannerIds : ScannerExists(rows, s) => rows[s].tickers # {}

FilterInv ==
  /\ scannerMoves \in 0 .. MaxScannerMoves /\ scannerUnheard \in BOOLEAN
  /\ confirmations \subseteq Confirmations /\ StoredHaveTickers(scanners)
  /\ \A c \in scannerCalls : RequestIsSound(c, scannersSent)
  /\ scannerPage.asked <= scannersSent /\ scannerPage.shownFrom <= scannersSent
  /\ scannerPage.view = "list" /\ ~scannerUnheard =>
       FilteredIsKept(scannerPage, scannerCalls, scanners)

LEMMA FilterTypes ==
  ASSUME EditorInv, FilterInv
  PROVE  /\ scannersSent \in Nat /\ scannerPage.asked \in Nat /\ scannerPage.shownFrom \in Nat
         /\ \A c \in scannerCalls : c \in ScannerCallSet /\ c.n \in Nat /\ c.n <= scannersSent
BY ScannersAssumption
   DEF EditorInv, EditorTypes, FilterInv, RequestIsSound, ScannerPages, ScannerCallSet

LEMMA ScannerMoveIs ==
  ASSUME FilterInv, ScannerMove
  PROVE  scannerMoves' \in 0 .. MaxScannerMoves /\ UNCHANGED <<scanners, scannerUnheard>>
BY ScannersAssumption DEF ScannerMove, FilterInv

\* What a page leaves behind is what it was, but nobody's.
LEMMA LeftAre ==
  ASSUME NEW S \in SUBSET ScannerCallSet
  PROVE  \A c \in ScannersLeft(S) : \E d \in S : /\ c.n = d.n /\ c.kind = d.kind /\ c.id = d.id
                                              /\ c.value = d.value /\ c.answer = d.answer
BY DEF ScannersLeft, ScannerCallSet

LEMMA ConfirmationsLeft ==
  ASSUME NEW S \in SUBSET Confirmations PROVE ScannersLeft(S) \subseteq Confirmations
BY DEF ScannersLeft, Confirmations

\* A request that is sent is the latest one and has no answer.
LEMMA SendIs ==
  ASSUME EditorInv, FilterInv, NEW kind, NEW id, NEW value, NEW mine, NEW rest,
         SendScanner(kind, id, value, mine, rest)
  PROVE  \E new : /\ scannerCalls' = rest \cup {new} /\ scannersSent' = scannersSent + 1
                  /\ new.n = scannersSent' /\ new.answer = "none" /\ new.kind = kind
                  /\ new.id = id /\ new.value = value
<1> DEFINE new == ScannerAsked(kind, id, value, mine, scannersSent + 1)
<1>1. scannerCalls' = rest \cup {new} /\ scannersSent' = scannersSent + 1
  BY DEF SendScanner, ScannerCall, ScannerAsked
<1>2. /\ new.n = scannersSent' /\ new.answer = "none" /\ new.kind = kind
      /\ new.id = id /\ new.value = value
  BY <1>1 DEF ScannerAsked
<1> HIDE DEF new
<1> QED
  BY <1>1, <1>2

\* The rest of the requests, left or not, and one more.
LEMMA SentSound ==
  ASSUME EditorInv, FilterInv, scannersSent' = scannersSent + 1,
         NEW new, new.n = scannersSent', new.answer = "none",
         RequestIsSound(new, scannersSent'),
         scannerCalls' \subseteq scannerCalls \cup ScannersLeft(scannerCalls) \cup {new}
  PROVE  /\ \A c \in scannerCalls' : RequestIsSound(c, scannersSent')
         /\ \A c \in scannerCalls' : c.n = scannersSent' => c.answer = "none"
<1>1. \A c \in scannerCalls \cup ScannersLeft(scannerCalls) :
        \E d \in scannerCalls : c.n = d.n /\ c.kind = d.kind /\ c.id = d.id /\ c.value = d.value
  <2>1. scannerCalls \in SUBSET ScannerCallSet
    BY FilterTypes
  <2> QED
    BY <2>1, LeftAre
<1>2. \A d \in scannerCalls : RequestIsSound(d, scannersSent') /\ d.n # scannersSent'
  BY FilterTypes DEF FilterInv, RequestIsSound
<1>3. \A c \in scannerCalls \cup ScannersLeft(scannerCalls) :
        RequestIsSound(c, scannersSent') /\ c.n # scannersSent'
  BY <1>1, <1>2 DEF RequestIsSound
<1> QED
  BY <1>3

\* To another list: it is asked for.
LEMMA ToListFilters ==
  ASSUME EditorInv, FilterInv, NEW rest \in SUBSET scannerCalls, ToList(rest),
         scanners' = scanners, scannerUnheard' \in BOOLEAN,
         scannerMoves' \in 0 .. MaxScannerMoves
  PROVE  FilterInv'
<1>1. SendScanner("list", 0, NoScanner, TRUE, ScannersLeft(rest))
  BY Zenon DEF ToList
<1>a. PICK kind, id, value, mine, left :
        /\ SendScanner(kind, id, value, mine, left)
        /\ kind = "list" /\ left = ScannersLeft(rest)
  BY <1>1, Zenon
<1>2. PICK new : /\ scannerCalls' = ScannersLeft(rest) \cup {new}
                 /\ scannersSent' = scannersSent + 1
                 /\ new.n = scannersSent' /\ new.answer = "none" /\ new.kind = "list"
  BY <1>a, SendIs
<1>3. scannersSent' \in Nat /\ 0 <= scannersSent' /\ scannersSent' <= scannersSent'
        /\ 0 # scannersSent'
  BY <1>2, FilterTypes
<1>4. /\ \A c \in scannerCalls' : RequestIsSound(c, scannersSent')
      /\ \A c \in scannerCalls' : c.n = scannersSent' => c.answer = "none"
  <2>1. RequestIsSound(new, scannersSent')
    BY <1>2, <1>3 DEF RequestIsSound
  <2>2. ScannersLeft(rest) \subseteq ScannersLeft(scannerCalls)
    BY DEF ScannersLeft
  <2> QED
    BY <1>2, <2>1, <2>2, SentSound
<1>5. scannerPage'.asked = scannersSent' /\ scannerPage'.shownFrom = 0
  BY <1>2 DEF ToList, EmptyPage
<1>6. FilteredIsKept(scannerPage', scannerCalls', scanners')
  BY <1>3, <1>4, <1>5 DEF FilteredIsKept
<1>7. confirmations' \subseteq Confirmations
  BY ConfirmationsLeft DEF ToList, FilterInv
<1> QED
  BY <1>3, <1>4, <1>5, <1>6, <1>7 DEF FilterInv

\* A step that leaves the list and what is stored as they are, and adds what is not answered.
LEMMA ListRemains ==
  ASSUME EditorInv, FilterInv, UNCHANGED <<scanners, scannerUnheard>>,
         scannerMoves' \in 0 .. MaxScannerMoves, confirmations' \subseteq Confirmations,
         scannersSent' \in Nat, scannersSent <= scannersSent',
         \A c \in scannerCalls' : RequestIsSound(c, scannersSent'),
         scannerPage'.asked = scannerPage.asked, scannerPage'.shownFrom = scannerPage.shownFrom,
         scannerPage'.view = "list" =>
           /\ scannerPage.view = "list"
           /\ scannerPage'.allScanners = scannerPage.allScanners
           /\ \/ scannerPage'.scanners =
                   Filtered(scannerPage.allScanners, scannerPage'.filterActive)
              \/ scannerPage'.scanners = scannerPage.scanners
                   /\ scannerPage'.filterActive = scannerPage.filterActive
           /\ \A c \in scannerCalls' : c \in scannerCalls \/ c.answer # "ok"
           /\ \A c \in scannerCalls :
                c.kind \in ScannerChanges /\ c.answer = "ok" => c \in scannerCalls'
  PROVE  FilterInv'
<1>1. scannerPage'.asked <= scannersSent' /\ scannerPage'.shownFrom <= scannersSent'
  BY FilterTypes DEF FilterInv
<1>2. ASSUME scannerPage'.view = "list", ~scannerUnheard'
      PROVE  FilteredIsKept(scannerPage', scannerCalls', scanners')
  <2>1. FilteredIsKept(scannerPage, scannerCalls, scanners)
    BY <1>2 DEF FilterInv
  <2>2. ScannerPending(scannerCalls) => ScannerPending(scannerCalls')
    BY <1>2 DEF ScannerPending
  <2>3. CASE ~ScannerPending(scannerCalls')
    BY <1>2, <2>1, <2>2, <2>3 DEF FilteredIsKept
  <2> QED
    BY <2>3 DEF FilteredIsKept
<1> QED
  BY <1>1, <1>2 DEF FilterInv

\* A page that is not the list waits for none.
LEMMA ElsewhereFilters ==
  ASSUME FilterInv, ScannerMove, UNCHANGED confirmations, scannersSent' \in Nat,
         scannerPage'.view # "list", scannerPage'.asked = 0, scannerPage'.shownFrom = 0,
         \A c \in scannerCalls' : RequestIsSound(c, scannersSent')
  PROVE  FilterInv'
BY ScannerMoveIs DEF FilterInv

\* A request that asks for no list, sent by the page that stays.
LEMMA SendFilters ==
  ASSUME EditorInv, FilterInv, NEW kind, NEW id, NEW value, NEW mine,
         SendScanner(kind, id, value, mine, scannerCalls),
         kind = "usage" => id \in ScannerIds,
         kind \in {"save", "create"} => value.tickers # {},
         UNCHANGED <<scanners, scannerUnheard>>, scannerMoves' \in 0 .. MaxScannerMoves,
         confirmations' \subseteq Confirmations,
         scannerPage' = scannerPage \/ scannerPage' = [scannerPage EXCEPT !.saving = TRUE]
  PROVE  FilterInv'
<1>1. PICK new : /\ scannerCalls' = scannerCalls \cup {new} /\ scannersSent' = scannersSent + 1
                 /\ new.n = scannersSent' /\ new.answer = "none" /\ new.kind = kind
                 /\ new.id = id /\ new.value = value
  BY SendIs
<1>2. scannersSent' \in Nat /\ scannersSent <= scannersSent' /\ scannersSent' <= scannersSent'
  BY <1>1, FilterTypes
<1>3. RequestIsSound(new, scannersSent')
  BY <1>1, <1>2 DEF RequestIsSound
<1>4. \A c \in scannerCalls' : RequestIsSound(c, scannersSent')
  BY <1>1, <1>3, SentSound
<1>5. scannerPage \in ScannerPages
  BY DEF EditorInv, EditorTypes
<1>6. /\ scannerPage'.asked = scannerPage.asked /\ scannerPage'.shownFrom = scannerPage.shownFrom
      /\ scannerPage'.view = scannerPage.view
      /\ scannerPage'.allScanners = scannerPage.allScanners
      /\ scannerPage'.scanners = scannerPage.scanners
      /\ scannerPage'.filterActive = scannerPage.filterActive
  BY <1>5 DEF ScannerPages
<1> QED
  BY <1>1, <1>2, <1>4, <1>6, ListRemains

LEMMA MovesFilter == ASSUME EditorInv, FilterInv, ScannerUser PROVE FilterInv'
<1>0. /\ scannerPage \in ScannerPages /\ scannerCalls \in SUBSET ScannerCallSet
      /\ confirmations \subseteq Confirmations /\ scannersSent \in Nat
      /\ scannersSent <= scannersSent /\ scannerMoves \in 0 .. MaxScannerMoves
      /\ \A c \in scannerCalls : RequestIsSound(c, scannersSent)
  BY FilterTypes DEF EditorInv, EditorTypes, FilterInv
<1>1. CASE VisitList
  <2>1. ToList(scannerCalls) /\ ScannerMove
    BY <1>1 DEF VisitList
  <2>2. scannerUnheard' \in BOOLEAN
    BY <2>1 DEF ScannerMove, FilterInv
  <2> QED
    BY <2>1, <2>2, ScannerMoveIs, ToListFilters
<1>2. \A c \in ScannersLeft(scannerCalls) : RequestIsSound(c, scannersSent)
  BY <1>0, LeftAre DEF RequestIsSound
<1>3. CASE LeaveScanners
  <2>1. /\ ScannerMove /\ scannerPage' = EmptyPage("other")
        /\ scannerCalls' = ScannersLeft(scannerCalls) /\ UNCHANGED <<confirmations, scannersSent>>
    BY <1>3 DEF LeaveScanners
  <2> QED
    BY <1>0, <1>2, <2>1, ElsewhereFilters DEF EmptyPage
<1>4. ASSUME NEW s \in 0 .. MaxScanners, VisitEditor(s) PROVE FilterInv'
  <2>1. /\ ScannerMove /\ UNCHANGED confirmations
        /\ scannerPage'.view = "editor" /\ scannerPage'.asked = 0 /\ scannerPage'.shownFrom = 0
    BY <1>4 DEF VisitEditor, EmptyPage
  <2>2. CASE s = 0
    BY <1>0, <1>2, <1>4, <2>1, <2>2, ElsewhereFilters DEF VisitEditor
  <2>3. CASE s # 0
    <3>1. PICK kind, id, value, mine, left :
            /\ SendScanner(kind, id, value, mine, left)
            /\ kind = "get" /\ left = ScannersLeft(scannerCalls)
      BY <1>4, <2>3, Zenon DEF VisitEditor
    <3>2. PICK new : /\ scannerCalls' = ScannersLeft(scannerCalls) \cup {new}
                     /\ scannersSent' = scannersSent + 1
                     /\ new.n = scannersSent' /\ new.answer = "none" /\ new.kind = "get"
      BY <3>1, SendIs
    <3>3. scannersSent' \in Nat /\ scannersSent' <= scannersSent'
      BY <1>0, <3>2
    <3>4. RequestIsSound(new, scannersSent')
      BY <3>2, <3>3 DEF RequestIsSound
    <3>5. \A c \in scannerCalls' : RequestIsSound(c, scannersSent')
      BY <3>2, <3>4, SentSound
    <3> QED
      BY <2>1, <3>3, <3>5, ElsewhereFilters
  <2> QED
    BY <2>2, <2>3
<1>5. ASSUME NEW filter \in Filters, ApplyFilter(filter) PROVE FilterInv'
  <2>1. /\ ScannerMove /\ UNCHANGED <<confirmations, scannerCalls, scannersSent>>
        /\ scannerPage.view = "list"
    BY <1>5 DEF ApplyFilter
  <2>2. /\ scannerPage'.asked = scannerPage.asked
        /\ scannerPage'.shownFrom = scannerPage.shownFrom
        /\ scannerPage'.allScanners = scannerPage.allScanners
        /\ scannerPage'.filterActive = filter
        /\ scannerPage'.scanners = Filtered(scannerPage.allScanners, filter)
    BY <1>0, <1>5 DEF ApplyFilter, ScannerPages
  <2> QED
    BY <1>0, <2>1, <2>2, ScannerMoveIs, ListRemains
<1>6. ASSUME NEW s \in ScannerIds, DeleteScanner(s) \/ ToggleScannerStatus(s) PROVE FilterInv'
  <2>1. ScannerMove /\ UNCHANGED <<scannerPage, confirmations>>
    BY <1>6 DEF DeleteScanner, ToggleScannerStatus
  <2>2. PICK kind, id, value, mine :
          /\ SendScanner(kind, id, value, mine, scannerCalls)
          /\ kind \in {"usage", "toggle"} /\ id = s
    <3>1. CASE DeleteScanner(s)
      <4>1. /\ SendScanner("usage", s, NoScanner, TRUE, scannerCalls)
            /\ "usage" \in {"usage", "toggle"}
        BY <3>1, Zenon DEF DeleteScanner
      <4> QED
        BY <4>1, Zenon
    <3>2. CASE ToggleScannerStatus(s)
      <4>1. \E value : SendScanner("toggle", s, value, TRUE, scannerCalls)
        BY <3>2, Zenon DEF ToggleScannerStatus
      <4>2. "toggle" \in {"usage", "toggle"}
        OBVIOUS
      <4> QED
        BY <4>1, <4>2, Zenon
    <3> QED
      BY <1>6, <3>1, <3>2
  <2> QED
    BY <1>0, <2>1, <2>2, ScannerMoveIs, SendFilters
<1>7. ASSUME NEW d \in confirmations, CloseConfirmation(d) PROVE FilterInv'
  <2>1. /\ UNCHANGED <<scanners, scannerPage, scannerMoves, scannerUnheard>>
        /\ confirmations' \subseteq confirmations
    BY <1>7 DEF CloseConfirmation
  <2>2. CASE UNCHANGED <<scannerCalls, scannersSent>>
    BY <1>0, <2>1, <2>2, ListRemains
  <2>3. CASE SendScanner("delete", d.id, NoScanner, d.mine, scannerCalls)
    BY <1>0, <2>1, <2>3, SendFilters
  <2> QED
    BY <1>7, <2>2, <2>3 DEF CloseConfirmation
<1>8. CASE SaveScanner
  <2>1. /\ scannerPage' = [scannerPage EXCEPT !.saving = TRUE] /\ scannerPage.form.tickers # {}
        /\ UNCHANGED <<scanners, confirmations, scannerMoves, scannerUnheard>>
    BY <1>8 DEF SaveScanner, CanSave
  <2>2. PICK kind, id, value, mine :
          /\ SendScanner(kind, id, value, mine, scannerCalls)
          /\ kind # "usage" /\ value = scannerPage.form
    <3>1. \/ SendScanner("save", scannerPage.scanner, scannerPage.form, TRUE, scannerCalls)
          \/ SendScanner("create", 0, scannerPage.form, TRUE, scannerCalls)
      BY <1>8, Zenon DEF SaveScanner
    <3>2. "save" # "usage" /\ "create" # "usage"
      OBVIOUS
    <3> QED
      BY <3>1, <3>2, Zenon
  <2> QED
    BY <1>0, <2>1, <2>2, SendFilters
<1>9. ASSUME \/ \E t \in Tickers : ToggleTicker(t)
             \/ \E some \in TickerSets : AddTickers(some) \/ ClearTickers(some)
             \/ \E state \in {"active", "inactive"} : EditForm("state", state)
             \/ NameScanner
      PROVE  FilterInv'
  <2>1. \/ \E field, value : EditForm(field, value)
        \/ NameScanner
    BY <1>9 DEF ToggleTicker, AddTickers, ClearTickers
  <2>2. /\ ScannerMove /\ UNCHANGED <<confirmations, scannerCalls, scannersSent>>
        /\ scannerPage.view = "editor"
    BY <2>1 DEF EditForm, NameScanner, Editing
  <2>3. /\ scannerPage'.asked = scannerPage.asked
        /\ scannerPage'.shownFrom = scannerPage.shownFrom /\ scannerPage'.view = "editor"
    BY <1>0, <2>1, <2>2 DEF EditForm, NameScanner, ScannerPages
  <2> QED
    BY <1>0, <2>2, <2>3, ScannerMoveIs, ListRemains
<1> QED
  BY <1>1, <1>3, <1>4, <1>5, <1>6, <1>7, <1>8, <1>9 DEF ScannerUser

\* The server: a scanner that is stored keeps or gets tickers; a change is on its way back.
LEMMA ServingFilters ==
  ASSUME EditorInv, FilterInv, NEW c \in scannerCalls, ServeScanner(c)
  PROVE  FilterInv'
<1>0. /\ c \in ScannerCallSet /\ scanners \in ScannerRows /\ RequestIsSound(c, scannersSent)
      /\ StoredHaveTickers(scanners)
  BY FilterTypes DEF EditorInv, EditorTypes, FilterInv
<1> DEFINE found == c.kind \in {"list", "create"} \/ ScannerExists(scanners, c.id)
           answer == IF found THEN "ok" ELSE "error"
           served == [c EXCEPT !.answer = answer, !.rows = scanners']
<1>1. /\ scannerCalls' = (scannerCalls \ {c}) \cup {served}
      /\ scanners' = IF found THEN ScannerEffect(c) ELSE scanners
      /\ UNCHANGED <<scannerPage, confirmations, scannersSent, scannerMoves, scannerUnheard>>
      /\ c.answer = "none"
  BY DEF ServeScanner
<1>2. /\ served.n = c.n /\ served.kind = c.kind /\ served.id = c.id /\ served.value = c.value
      /\ served.answer = answer /\ served.rows = scanners'
  BY <1>0 DEF ScannerCallSet
<1>3. scanners' # scanners => served.kind \in ScannerChanges /\ served.answer = "ok"
  BY <1>0, <1>1, <1>2 DEF ScannerEffect, ScannerCallSet, ScannerChanges
<1>4. StoredHaveTickers(scanners')
  <2>1. CASE found /\ c.kind = "delete"
    <3>1. scanners' = [scanners EXCEPT ![c.id] = [state |-> "deleted", tickers |-> {}]]
      BY <1>1, <2>1 DEF ScannerEffect
    <3> QED
      BY <1>0, <3>1 DEF StoredHaveTickers, ScannerExists, ScannerRows
  <2>2. CASE found /\ c.kind = "toggle"
    <3>1. scanners' = [scanners EXCEPT ![c.id].state = c.value.state]
      BY <1>1, <2>2 DEF ScannerEffect
    <3>2. ScannerExists(scanners, c.id)
      BY <2>2
    <3> QED
      BY <1>0, <3>1, <3>2 DEF StoredHaveTickers, ScannerExists, ScannerRows, Scanner
  <2>3. CASE found /\ c.kind \in {"save", "create"}
    <3>1. \E s : scanners' = [scanners EXCEPT ![s] = c.value]
      BY <1>1, <2>3 DEF ScannerEffect
    <3>2. c.value.tickers # {}
      BY <1>0, <2>3 DEF RequestIsSound
    <3> QED
      BY <1>0, <3>1, <3>2 DEF StoredHaveTickers, ScannerExists, ScannerRows
  <2>4. CASE ~found \/ c.kind \notin ScannerChanges
    <3>1. scanners' = scanners
      BY <1>1, <2>4 DEF ScannerEffect, ScannerChanges
    <3> QED
      BY <1>0, <3>1
  <2> QED
    BY <2>1, <2>2, <2>3, <2>4 DEF ScannerChanges
<1> HIDE DEF served, answer, found
<1>5. \A d \in scannerCalls' : RequestIsSound(d, scannersSent')
  BY <1>0, <1>1, <1>2 DEF RequestIsSound, FilterInv
<1>6. ASSUME scannerPage'.view = "list", ~scannerUnheard'
      PROVE  FilteredIsKept(scannerPage', scannerCalls', scanners')
  <2>1. FilteredIsKept(scannerPage, scannerCalls, scanners)
    BY <1>1, <1>6 DEF FilterInv
  <2>2. ScannerPending(scannerCalls) => ScannerPending(scannerCalls')
    BY <1>1 DEF ScannerPending
  <2>3. scanners' # scanners => ScannerPending(scannerCalls')
    BY <1>1, <1>3 DEF ScannerPending
  <2> QED
    BY <1>1, <1>2, <2>1, <2>2, <2>3 DEF FilteredIsKept
<1> QED
  BY <1>1, <1>4, <1>5, <1>6 DEF FilterInv

LEMMA FailuresFilter ==
  ASSUME EditorInv, FilterInv, NEW c \in scannerCalls, ScannerFails(c)
  PROVE  FilterInv'
<1>0. c \in ScannerCallSet /\ RequestIsSound(c, scannersSent) /\ scannersSent \in Nat
  BY FilterTypes DEF FilterInv
<1> DEFINE failed == [c EXCEPT !.answer = "error", !.rows = NoScanners]
<1>1. /\ scannerCalls' = (scannerCalls \ {c}) \cup {failed}
      /\ UNCHANGED <<scanners, scannerPage, confirmations, scannersSent>>
      /\ scannerUnheard' = (scannerUnheard \/
           (c.answer = "ok" /\ c.kind \in {"delete", "toggle", "save", "create"}))
  BY DEF ScannerFails
<1>2. /\ failed.n = c.n /\ failed.kind = c.kind /\ failed.id = c.id /\ failed.value = c.value
      /\ failed.answer = "error"
  BY <1>0 DEF ScannerCallSet
<1> HIDE DEF failed
<1>3. scannerUnheard' \in BOOLEAN /\ (~scannerUnheard' => ~scannerUnheard)
  BY <1>1 DEF FilterInv
<1>4. scannerMoves' \in 0 .. MaxScannerMoves
  BY ScannersAssumption DEF ScannerFails, FilterInv
<1>5. \A d \in scannerCalls' : RequestIsSound(d, scannersSent')
  BY <1>0, <1>1, <1>2 DEF RequestIsSound, FilterInv
<1>6. ASSUME scannerPage'.view = "list", ~scannerUnheard'
      PROVE  FilteredIsKept(scannerPage', scannerCalls', scanners')
  <2>1. FilteredIsKept(scannerPage, scannerCalls, scanners)
    BY <1>1, <1>3, <1>6 DEF FilterInv
  <2>2. ScannerPending(scannerCalls) => ScannerPending(scannerCalls')
    BY <1>1, <1>6 DEF ScannerPending, ScannerChanges
  <2> QED
    BY <1>1, <1>2, <2>1, <2>2 DEF FilteredIsKept
<1> QED
  BY <1>1, <1>3, <1>4, <1>5, <1>6 DEF FilterInv

LEMMA AnswersFilter ==
  ASSUME EditorInv, FilterInv, NEW c \in scannerCalls, c.answer # "none", ScannerAnswers(c)
  PROVE  FilterInv'
<1>0. /\ scannerPage \in ScannerPages /\ scannersSent \in Nat /\ scannersSent <= scannersSent
      /\ c \in ScannerCallSet /\ RequestIsSound(c, scannersSent) /\ c.answer \in {"ok", "error"}
      /\ confirmations \subseteq Confirmations /\ scannerMoves \in 0 .. MaxScannerMoves
      /\ scannerUnheard \in BOOLEAN
      /\ \A d \in scannerCalls : RequestIsSound(d, scannersSent)
  BY FilterTypes DEF EditorInv, EditorTypes, FilterInv, ScannerCallSet
<1>1. CASE UsageAnswered(c)
  <2>1. /\ UNCHANGED <<scanners, scannerPage, scannersSent, scannerMoves, scannerUnheard>>
        /\ scannerCalls' = scannerCalls \ {c} /\ c.kind = "usage"
        /\ confirmations' = confirmations \cup {[id |-> c.id, mine |-> c.mine]}
    BY <1>1 DEF UsageAnswered
  <2>2. confirmations' \subseteq Confirmations
    BY <1>0, <2>1 DEF Confirmations, RequestIsSound, ScannerCallSet
  <2> QED
    BY <1>0, <2>1, <2>2, ListRemains DEF ScannerChanges
<1>2. CASE ScannersLoaded(c)
  <2>1. /\ UNCHANGED <<scanners, confirmations, scannersSent, scannerMoves, scannerUnheard>>
        /\ scannerCalls' = scannerCalls \ {c} /\ c.kind = "list"
    BY <1>2 DEF ScannersLoaded
  <2>2. CASE ~(c.mine /\ c.answer = "ok")
    <3>1. /\ scannerPage'.asked = scannerPage.asked
          /\ scannerPage'.shownFrom = scannerPage.shownFrom
          /\ scannerPage'.view = scannerPage.view
          /\ scannerPage'.allScanners = scannerPage.allScanners
          /\ scannerPage'.scanners = scannerPage.scanners
          /\ scannerPage'.filterActive = scannerPage.filterActive
      BY <1>0, <1>2, <2>2 DEF ScannersLoaded, ScannerPages
    <3> QED
      BY <1>0, <2>1, <3>1, ListRemains DEF ScannerChanges
  <2>3. CASE c.mine /\ c.answer = "ok"
    <3>1. /\ scannerPage'.asked = scannerPage.asked /\ scannerPage'.shownFrom = c.n
          /\ scannerPage'.view = scannerPage.view /\ scannerPage'.allScanners = c.rows
          /\ scannerPage'.filterActive = scannerPage.filterActive
          /\ scannerPage'.scanners = Filtered(c.rows, scannerPage.filterActive)
      BY <1>0, <1>2, <2>3 DEF ScannersLoaded, ScannerPages
    <3>2. ScannerPending(scannerCalls) => ScannerPending(scannerCalls')
      BY <2>1 DEF ScannerPending, ScannerChanges
    <3>3. ASSUME scannerPage'.view = "list", ~scannerUnheard'
          PROVE  FilteredIsKept(scannerPage', scannerCalls', scanners')
      <4>1. FilteredIsKept(scannerPage, scannerCalls, scanners)
        BY <2>1, <3>1, <3>3 DEF FilterInv
      <4> QED
        BY <2>1, <2>3, <3>1, <3>2, <4>1 DEF FilteredIsKept
    <3>4. c.n <= scannersSent
      BY <1>0 DEF RequestIsSound
    <3> QED
      BY <2>1, <3>1, <3>3, <3>4 DEF FilterInv
  <2> QED
    BY <2>2, <2>3
<1>3. CASE ListChanged(c)
  <2>1. UNCHANGED <<scanners, confirmations, scannerMoves>>
    BY <1>3 DEF ListChanged
  <2>2. CASE /\ c.answer = "error" /\ scannerCalls' = scannerCalls \ {c}
             /\ UNCHANGED <<scannerPage, scannersSent, scannerUnheard>>
    BY <1>0, <2>1, <2>2, ListRemains
  <2>3. CASE /\ c.answer = "ok" /\ scannerPage' = Placed(c)
             /\ SendScanner("list", 0, NoScanner, c.mine, scannerCalls \ {c})
             /\ scannerUnheard' = (scannerUnheard \/ ~c.mine)
    <3>1. PICK new : /\ scannerCalls' = (scannerCalls \ {c}) \cup {new}
                     /\ scannersSent' = scannersSent + 1
                     /\ new.n = scannersSent' /\ new.answer = "none" /\ new.kind = "list"
      BY <2>3, SendIs
    <3>2. /\ scannersSent' \in Nat /\ scannersSent <= scannersSent'
          /\ scannersSent' <= scannersSent' /\ scannersSent' # scannersSent
      BY <1>0, <3>1
    <3>3. RequestIsSound(new, scannersSent')
      BY <3>1, <3>2 DEF RequestIsSound
    <3>4. /\ \A d \in scannerCalls' : RequestIsSound(d, scannersSent')
          /\ \A d \in scannerCalls' : d.n = scannersSent' => d.answer = "none"
      BY <3>1, <3>3, SentSound
    <3>5. /\ scannerPage'.shownFrom = scannerPage.shownFrom
          /\ scannerPage'.asked = IF c.mine THEN scannersSent + 1 ELSE scannerPage.asked
      BY <1>0, <2>3 DEF Placed, ScannerPages
    <3>6. scannerPage.shownFrom < scannersSent' /\ scannerPage.asked <= scannersSent'
      BY <3>1, FilterTypes DEF FilterInv
    <3>7. /\ scannerPage'.asked <= scannersSent' /\ scannerPage'.shownFrom <= scannersSent'
          /\ c.mine => scannerPage'.asked = scannersSent' /\ scannerPage'.shownFrom # scannersSent'
      BY <3>1, <3>2, <3>5, <3>6, FilterTypes
    <3>8. ~scannerUnheard' => FilteredIsKept(scannerPage', scannerCalls', scanners')
      BY <2>3, <3>4, <3>7 DEF FilteredIsKept
    <3>9. scannerUnheard' \in BOOLEAN
      BY <2>3
    <3> QED
      BY <2>1, <3>4, <3>7, <3>8, <3>9 DEF FilterInv
  <2> QED
    BY <1>3, <2>2, <2>3 DEF ListChanged
<1>4. ASSUME ToList(scannerCalls \ {c}), UNCHANGED <<scanners, scannerMoves>>,
             scannerUnheard' \in BOOLEAN
      PROVE  FilterInv'
  BY <1>0, <1>4, ToListFilters
<1>5. CASE ScannerLoaded(c)
  <2>1. UNCHANGED <<scanners, scannerMoves, scannerUnheard>> /\ c.kind = "get"
    BY <1>5 DEF ScannerLoaded
  <2>2. CASE ToList(scannerCalls \ {c})
    BY <1>0, <1>4, <2>1, <2>2
  <2>3. CASE /\ scannerCalls' = scannerCalls \ {c} /\ UNCHANGED <<confirmations, scannersSent>>
             /\ \/ scannerPage' = scannerPage
                \/ /\ scannerPage' = [scannerPage EXCEPT !.loading = FALSE, !.scanner = c.id,
                                        !.named = TRUE, !.form = c.rows[c.id]]
                   /\ c.mine
    <3>1. /\ scannerPage'.asked = scannerPage.asked
          /\ scannerPage'.shownFrom = scannerPage.shownFrom
          /\ scannerPage'.view = scannerPage.view
          /\ scannerPage'.allScanners = scannerPage.allScanners
          /\ scannerPage'.scanners = scannerPage.scanners
          /\ scannerPage'.filterActive = scannerPage.filterActive
      BY <1>0, <2>3 DEF ScannerPages
    <3> QED
      BY <1>0, <2>1, <2>3, <3>1, ListRemains DEF ScannerChanges
  <2> QED
    BY <1>5, <2>2, <2>3 DEF ScannerLoaded, StayOnList
<1>6. CASE SaveAnswered(c)
  <2>1. /\ UNCHANGED <<scanners, scannerMoves>> /\ c.kind \in {"save", "create"}
        /\ scannerUnheard' = (scannerUnheard \/ (c.answer = "ok" /\ ~c.mine))
    BY <1>6 DEF SaveAnswered
  <2>a. scannerUnheard' \in BOOLEAN
    BY <2>1
  <2>2. CASE ToList(scannerCalls \ {c})
    BY <1>4, <2>1, <2>a, <2>2
  <2>3. CASE c.answer = "ok" /\ StayOnList(scannerCalls \ {c})
    <3>1. ~c.mine
      BY <2>1, <2>3 DEF StayOnList, EditorInv, OwnCalls
    <3> QED
      BY <1>0, <2>1, <2>3, <3>1 DEF StayOnList, FilterInv
  <2>4. CASE /\ c.answer = "error" /\ scannerCalls' = scannerCalls \ {c}
             /\ scannerPage' = IF c.mine THEN [scannerPage EXCEPT !.saving = FALSE] ELSE scannerPage
             /\ UNCHANGED <<confirmations, scannersSent>>
    <3>1. /\ scannerPage'.asked = scannerPage.asked
          /\ scannerPage'.shownFrom = scannerPage.shownFrom
          /\ scannerPage'.view = scannerPage.view
          /\ scannerPage'.allScanners = scannerPage.allScanners
          /\ scannerPage'.scanners = scannerPage.scanners
          /\ scannerPage'.filterActive = scannerPage.filterActive
      BY <1>0, <2>4 DEF ScannerPages
    <3>2. scannerUnheard' = scannerUnheard
      BY <1>0, <2>1, <2>4
    <3> QED
      BY <1>0, <2>1, <2>4, <3>1, <3>2, ListRemains
  <2> QED
    BY <1>6, <2>2, <2>3, <2>4 DEF SaveAnswered
<1> QED
  BY <1>1, <1>2, <1>3, <1>5, <1>6 DEF ScannerAnswers

LEMMA FilterInitially == ScannersInit => FilterInv
<1> SUFFICES ASSUME ScannersInit PROVE FilterInv
  OBVIOUS
<1>1. PICK some \in (SUBSET Tickers) \ {{}} :
        scanners = [NoScanners EXCEPT ![1] = [state |-> "active", tickers |-> some]]
  BY DEF ScannersInit
<1>2. StoredHaveTickers(scanners)
  <2> SUFFICES ASSUME NEW s \in ScannerIds, ScannerExists(scanners, s)
               PROVE  scanners[s].tickers # {}
    BY DEF StoredHaveTickers
  <2>1. CASE s = 1
    <3>1. scanners[s] = [state |-> "active", tickers |-> some]
      BY <1>1, <2>1 DEF NoScanners
    <3>2. some # {}
      BY Zenon
    <3> QED
      BY <3>1, <3>2
  <2>2. CASE s # 1
    <3>1. scanners[s] = NoScanner
      BY <1>1, <2>2 DEF NoScanners
    <3> QED
      BY <3>1 DEF ScannerExists, NoScanner
  <2> QED
    BY <2>1, <2>2
<1>3. scannerPage.asked = 1 /\ scannerPage.shownFrom = 0
  BY DEF ScannersInit, EmptyPage
<1>4. \A c \in scannerCalls : c.kind = "list" /\ c.n = 1 /\ c.answer = "none"
  BY DEF ScannersInit
<1>5. \A c \in scannerCalls : RequestIsSound(c, scannersSent)
  BY <1>4 DEF ScannersInit, RequestIsSound
<1>6. FilteredIsKept(scannerPage, scannerCalls, scanners)
  BY <1>3, <1>4 DEF FilteredIsKept
<1>7. scannersSent = 1 /\ scannerMoves = 0 /\ scannerUnheard = FALSE /\ confirmations = {}
  BY DEF ScannersInit
<1>8. /\ scannerMoves \in 0 .. MaxScannerMoves /\ scannerUnheard \in BOOLEAN
      /\ confirmations \subseteq Confirmations
      /\ scannerPage.asked <= scannersSent /\ scannerPage.shownFrom <= scannersSent
  <2>1. scannerMoves \in 0 .. MaxScannerMoves
    BY <1>7, ScannersAssumption
  <2>2. scannerUnheard \in BOOLEAN
    BY <1>7, Zenon
  <2>3. confirmations \subseteq Confirmations
    BY <1>7, Zenon
  <2>4. scannerPage.asked <= scannersSent /\ scannerPage.shownFrom <= scannersSent
    BY <1>3, <1>7
  <2> QED
    BY <2>1, <2>2, <2>3, <2>4, Zenon
<1> QED
  BY <1>2, <1>5, <1>6, <1>8 DEF FilterInv

LEMMA FilterStep == EditorInv /\ FilterInv /\ [ScannersNext]_scannerVars => FilterInv'
<1> SUFFICES ASSUME EditorInv, FilterInv, [ScannersNext]_scannerVars PROVE FilterInv'
  OBVIOUS
<1>1. CASE UNCHANGED scannerVars
  BY <1>1 DEF scannerVars, FilterInv
<1> QED
  BY <1>1, MovesFilter, ServingFilters, FailuresFilter, AnswersFilter DEF ScannersNext

LEMMA ScannersAreTyped == EditorInv /\ FilterInv => ScannersTypeOK
BY DEF EditorInv, EditorTypes, FilterInv, StoredHaveTickers, ScannersTypeOK

LEMMA FilterShown == EditorInv /\ FilterInv => ListIsFiltered
BY DEF FilterInv, FilteredIsKept, ScannerPending, ListIsFiltered

\* The pages of the scanners keep their types, and no scanner is stored without tickers, for
\* any catalogue and any number of scanners and requests.
THEOREM ScannerTypes == ScannersSpec => []ScannersTypeOK
BY ScannersAreTyped, EditorInitially, FilterInitially, EditorStep, FilterStep,
   PTL DEF ScannersSpec

\* Once nothing is on its way and the list that was asked for last is there, the page shows
\* the stored scanners behind its filter, however changes, lists and visits overlapped.
THEOREM ListFiltered == ScannersSpec => []ListIsFiltered
BY FilterShown, EditorInitially, FilterInitially, EditorStep, FilterStep, PTL DEF ScannersSpec
-------------------------------------------------------------------------------
(* The strategies                                                            *)

\* The changes of what is shown of a strategy, and the requests a page starts with.
Moving == StrategyChanges \ {"vote"}
Opening == {"user", "lists", "get"}

Alike(a, b) == a.title = b.title /\ a.publication_status = b.publication_status
Gone(row) == row.publication_status = "deleted"

\* A change of s that was made and whose answer has not arrived; one made after n.
Moved(c, s) == c.kind \in Moving /\ c.answer = "ok" /\ c.id = s
Underway(calls, s) == \E c \in calls : Moved(c, s)
Later(calls, s, n) == \E c \in calls : Moved(c, s) /\ n < c.n

\* The strategies whose rows a page shows.
Relevant(page) == IF page.view = "list" THEN MyStrategies ELSE {page.id}

\* What a page waits for was asked for by it, and a page opens with one request.
RequestKept(c, page, sent, served) ==
  /\ c.sent <= sent /\ c.n <= served /\ (c.id = "none" <=> c.kind \in {"user", "lists"})
  /\ c.mine =>
       /\ c.kind \in {"user", "lists"} => page.view = "list" /\ page.loading
       /\ c.kind = "get" => page.view = "detail" /\ page.loading
       /\ page.view = "detail" => c.id = page.id
       /\ page.view = "list" /\ c.kind \in StrategyChanges =>
            c.kind \in {"approve", "reject", "delete"}
       /\ c.kind = "delete" /\ c.from = "detail" => page.view = "detail"

RequestsKept(calls, page, sent, served) ==
  /\ \A c \in calls : RequestKept(c, page, sent, served)
  /\ \A c, d \in calls : c.sent = d.sent => c = d
  /\ \A c, d \in calls : c.mine /\ d.mine /\ c.kind \in Opening /\ d.kind \in Opening => c = d

PageKept(page, dialog) ==
  /\ page.view = "detail" <=> page.id # "none"
  /\ page.loading => ~page.editing
  /\ page.view # "list" \/ page.loading => page.adminPendingStrategies = {}
  /\ page.view = "detail" /\ dialog.kind # "none" => dialog.id = page.id

\* A deletion is for ever: what an answer shows deleted is, and was before anything was done
\* to the strategy later.
DeletionKept(calls, rows) ==
  /\ \A c \in calls, s \in Strategies : c.answer = "ok" /\ Gone(c.rows[s]) => Gone(rows[s])
  /\ \A c, d \in calls, s \in Strategies :
       Moved(c, s) /\ c.kind # "delete" /\ d.answer = "ok" /\ Gone(d.rows[s]) => c.n < d.n
  /\ \A c \in calls, s \in Strategies : Moved(c, s) /\ c.kind = "delete" => Gone(c.rows[s])

AnswersCurrent(calls, rows, seen) ==
  /\ \A c \in calls, s \in Strategies :
       c.answer = "ok" /\ c.kind \in Moving /\ seen <= c.n /\ ~Later(calls, s, c.n)
         => Alike(c.rows[s], rows[s])
  /\ \A c \in calls, s \in Strategies :
       c.answer = "ok" /\ c.mine /\ c.kind \in Opening /\ ~Underway(calls, s)
         => Alike(c.rows[s], rows[s])

PageCurrent(page, calls, rows, seen) ==
  /\ ~page.loading /\ page.view # "other" => \A s \in Relevant(page) :
       /\ ~Underway(calls, s) => Alike(page.strategies[s], rows[s])
       /\ Gone(page.strategies[s]) => Gone(rows[s])
       /\ \A c \in calls :
            Gone(page.strategies[s]) /\ Moved(c, s) /\ c.kind # "delete" => c.n < seen
  /\ \A s \in page.adminPendingStrategies :
       ~Underway(calls, s) => rows[s].publication_status = "pending_review"

\* While a page loads, a dialog left over from the page before is about what is deleted.
LeftoversAreGone(page, calls, dialog, rows) ==
  page.loading =>
    /\ dialog.kind # "none" => Gone(rows[dialog.id])
    /\ \A c \in calls : c.mine /\ c.kind \in Moving => c.answer # "ok" /\ Gone(rows[c.id])

StrategiesInv ==
  /\ StrategiesTypeOK
  /\ RequestsKept(strategyCalls, strategyPage, strategiesSent, strategyHistory.served)
  /\ PageKept(strategyPage, strategyDialog)
  /\ DeletionKept(strategyCalls, strategies)
  /\ strategyHistory.seen <= strategyHistory.served
  /\ ~strategyHistory.astray =>
       /\ AnswersCurrent(strategyCalls, strategies, strategyHistory.seen)
       /\ PageCurrent(strategyPage, strategyCalls, strategies, strategyHistory.seen)
       /\ LeftoversAreGone(strategyPage, strategyCalls, strategyDialog, strategies)

\* Every request is served at most once.
Unserved(calls) == {c.sent : c \in {d \in calls : d.answer = "none"}}
ServedOnce ==
  strategyHistory.served + Cardinality(Unserved(strategyCalls)) <= strategiesSent

LEMMA NewPageIs ==
  ASSUME NEW view \in Views, NEW id \in Strategies \cup {"none"}, NEW known \in BOOLEAN
  PROVE  /\ NewPage(view, id, known) \in StrategyPagesSet
         /\ NewPage(view, id, known).view = view /\ NewPage(view, id, known).id = id
         /\ (NewPage(view, id, known).loading <=> view # "other")
         /\ ~NewPage(view, id, known).editing
         /\ NewPage(view, id, known).adminPendingStrategies = {}
<1>1. NoTitle \in Titles
  BY StrategiesAssumption DEF NoTitle
<1>2. NoStrategies \in StrategyRows
  BY <1>1 DEF NoStrategies, NoStrategy, StrategyRows, Strategy, Statuses
<1>3. (view # "other") \in BOOLEAN
  OBVIOUS
<1> QED
  BY <1>2, <1>3 DEF NewPage, StrategyPagesSet, Views

LEMMA StrategiesAre ==
  ASSUME StrategiesTypeOK
  PROVE  /\ strategies \in StrategyRows /\ strategyPage \in StrategyPagesSet
         /\ strategyCalls \in SUBSET StrategyCallSet /\ strategiesSent \in Nat
         /\ strategyHistory.served \in Nat /\ strategyHistory.seen \in Nat
         /\ strategyPage.view \in Views /\ strategyPage.id \in Strategies \cup {"none"}
         /\ \A c \in strategyCalls : c.sent \in Nat /\ c.n \in Nat
<1>1. /\ strategies \in StrategyRows /\ strategyPage \in StrategyPagesSet
      /\ strategyCalls \in SUBSET StrategyCallSet /\ strategiesSent \in 0 .. MaxStrategyCalls
      /\ strategyHistory \in [served : 0 .. MaxStrategyCalls, seen : 0 .. MaxStrategyCalls,
                              astray : BOOLEAN]
  BY Zenon DEF StrategiesTypeOK
<1>2. strategyPage.view \in Views /\ strategyPage.id \in Strategies \cup {"none"}
  BY <1>1 DEF StrategyPagesSet
<1>3. \A c \in strategyCalls : c.sent \in Nat /\ c.n \in Nat
  BY <1>1 DEF StrategyCallSet
<1>4. strategyHistory.served \in Nat /\ strategyHistory.seen \in Nat
  BY <1>1
<1> QED
  BY <1>1, <1>2, <1>3, <1>4

\* A request as it is sent.
StrategyAsked(kind, id, title, from, n) ==
  [kind |-> kind, id |-> id, title |-> title, sent |-> n, from |-> from, mine |-> TRUE,
   answer |-> "none", n |-> 0, rows |-> NoStrategies]

LEMMA SendStrategyIs ==
  ASSUME StrategiesTypeOK, NEW kind \in StrategyKinds, NEW id \in Strategies \cup {"none"},
         NEW title \in Titles, NEW rest, SendStrategy(kind, id, title, rest)
  PROVE  \E new \in StrategyCallSet :
           /\ strategyCalls' = rest \cup {new} /\ strategiesSent' = strategiesSent + 1
           /\ strategiesSent' \in 0 .. MaxStrategyCalls
           /\ new.sent = strategiesSent' /\ new.answer = "none" /\ new.mine /\ new.n = 0
           /\ new.kind = kind /\ new.id = id /\ new.from = strategyPage.view
<1> DEFINE new == StrategyAsked(kind, id, title, strategyPage.view, strategiesSent + 1)
<1>1. strategyCalls' = rest \cup {new} /\ strategiesSent' = strategiesSent + 1
  BY DEF SendStrategy, StrategyAsked
<1>2. strategiesSent' \in 0 .. MaxStrategyCalls /\ strategiesSent + 1 \in 1 .. MaxStrategyCalls
  BY <1>1, StrategiesAre, StrategiesAssumption DEF SendStrategy
<1>3. /\ NoStrategies \in StrategyRows /\ 0 \in 0 .. MaxStrategyCalls
      /\ strategyPage.view \in Views
  <2>1. NoTitle \in Titles
    BY StrategiesAssumption DEF NoTitle
  <2>2. NoStrategies \in StrategyRows
    BY <2>1 DEF NoStrategies, NoStrategy, StrategyRows, Strategy, Statuses
  <2> QED
    BY <2>2, StrategiesAre, StrategiesAssumption
<1>4. new \in StrategyCallSet
  BY <1>2, <1>3 DEF StrategyAsked, StrategyCallSet
<1>5. /\ new.sent = strategiesSent + 1 /\ new.answer = "none" /\ new.mine /\ new.n = 0
      /\ new.kind = kind /\ new.id = id /\ new.from = strategyPage.view
  BY DEF StrategyAsked
<1> HIDE DEF new
<1> QED
  BY <1>1, <1>2, <1>4, <1>5

\* One request is the other as far as the server's answer goes.
SameAnswer(c, d) ==
  /\ c.kind = d.kind /\ c.id = d.id /\ c.sent = d.sent /\ c.n = d.n /\ c.rows = d.rows
  /\ c.answer = d.answer

LEMMA AbandonedAre ==
  ASSUME NEW S \in SUBSET StrategyCallSet
  PROVE  /\ Abandoned(S) \subseteq StrategyCallSet
         /\ \A c \in Abandoned(S) : ~c.mine /\ \E d \in S : SameAnswer(c, d)
         /\ \A d \in S : \E c \in Abandoned(S) : SameAnswer(c, d)
         /\ \A c, d \in Abandoned(S) : (\A x, y \in S : x.sent = y.sent => x = y) =>
              (c.sent = d.sent => c = d)
<1>1. \A d \in S : /\ [d EXCEPT !.mine = FALSE] \in StrategyCallSet
                   /\ ~[d EXCEPT !.mine = FALSE].mine
                   /\ SameAnswer([d EXCEPT !.mine = FALSE], d)
  BY DEF StrategyCallSet, SameAnswer
<1>2. \A c \in Abandoned(S) : \E d \in S : c = [d EXCEPT !.mine = FALSE]
  BY DEF Abandoned
<1>3. \A d \in S : [d EXCEPT !.mine = FALSE] \in Abandoned(S)
  BY DEF Abandoned
<1>4. ASSUME NEW c \in Abandoned(S), NEW d \in Abandoned(S), c.sent = d.sent,
             \A x, y \in S : x.sent = y.sent => x = y
      PROVE  c = d
  <2>1. PICK x \in S : c = [x EXCEPT !.mine = FALSE]
    BY <1>2
  <2>2. PICK y \in S : d = [y EXCEPT !.mine = FALSE]
    BY <1>2
  <2>3. c.sent = x.sent /\ d.sent = y.sent
    BY <1>1, <2>1, <2>2 DEF SameAnswer
  <2>4. x = y
    BY <1>4, <2>3
  <2> QED
    BY <2>1, <2>2, <2>4
<1>5. Abandoned(S) \subseteq StrategyCallSet
  BY <1>1, <1>2
<1>6. ASSUME NEW c \in Abandoned(S) PROVE ~c.mine /\ \E d \in S : SameAnswer(c, d)
  <2>1. PICK d \in S : c = [d EXCEPT !.mine = FALSE]
    BY <1>2
  <2>2. ~c.mine
    BY <2>1 DEF StrategyCallSet
  <2>3. SameAnswer(c, d)
    BY <1>1, <2>1
  <2> QED
    BY <2>2, <2>3
<1>7. \A d \in S : \E c \in Abandoned(S) : SameAnswer(c, d)
  BY <1>1, <1>3
<1> QED
  BY <1>4, <1>5, <1>6, <1>7

\* What is answered stays so: every answer was there before, and the changes that were made
\* are still on their way or the page knows of later ones.
LEMMA AnswersRemain ==
  ASSUME NEW calls \in SUBSET StrategyCallSet, NEW later \in SUBSET StrategyCallSet,
         NEW rows, NEW seen \in Nat, NEW heard \in Nat, seen <= heard,
         AnswersCurrent(calls, rows, seen),
         \A c \in later : c.answer = "ok" =>
           \E d \in calls : SameAnswer(c, d) /\ (c.mine => d.mine),
         \A d \in calls : d.answer = "ok" /\ d.kind \in Moving =>
           d.n <= heard \/ \E c \in later : SameAnswer(c, d),
         \/ \A d \in calls : d.answer = "ok" /\ d.kind \in Moving =>
              \E c \in later : SameAnswer(c, d)
         \/ \A c \in later : c.mine /\ c.kind \in Opening => c.answer # "ok"
  PROVE  AnswersCurrent(later, rows, heard)
<1>0. /\ \A c \in calls : c.n \in Nat
      /\ \A c \in later : c.n \in Nat
  BY DEF StrategyCallSet
<1>1. ASSUME NEW c \in later, NEW s \in Strategies, c.answer = "ok", c.kind \in Moving,
             heard <= c.n, ~Later(later, s, c.n)
      PROVE  Alike(c.rows[s], rows[s])
  <2>1. PICK d \in calls : SameAnswer(c, d)
    BY <1>1
  <2>2. d.answer = "ok" /\ d.kind \in Moving /\ seen <= d.n /\ c.n = d.n /\ c.rows = d.rows
    BY <1>0, <1>1, <2>1 DEF SameAnswer
  <2>3. ~Later(calls, s, d.n)
    <3> SUFFICES ASSUME NEW x \in calls, Moved(x, s), d.n < x.n PROVE FALSE
      BY DEF Later
    <3>1. ~(x.n <= heard)
      BY <1>0, <1>1, <2>2
    <3>2. PICK y \in later : SameAnswer(y, x)
      BY <3>1 DEF Moved
    <3> QED
      BY <1>1, <2>2, <3>2 DEF SameAnswer, Moved, Later
  <2> QED
    BY <2>2, <2>3 DEF AnswersCurrent
<1>2. ASSUME NEW c \in later, NEW s \in Strategies, c.answer = "ok", c.mine,
             c.kind \in Opening, ~Underway(later, s)
      PROVE  Alike(c.rows[s], rows[s])
  <2>1. PICK d \in calls : SameAnswer(c, d) /\ d.mine
    BY <1>2
  <2>2. ~Underway(calls, s)
    <3> SUFFICES ASSUME NEW x \in calls, Moved(x, s) PROVE FALSE
      BY DEF Underway
    <3>1. PICK y \in later : SameAnswer(y, x)
      BY <1>2 DEF Moved
    <3> QED
      BY <1>2, <3>1 DEF SameAnswer, Moved, Underway
  <2> QED
    BY <1>2, <2>1, <2>2 DEF AnswersCurrent, SameAnswer
<1> QED
  BY <1>1, <1>2 DEF AnswersCurrent

LEMMA DeletionRemains ==
  ASSUME NEW calls, NEW later, NEW rows, DeletionKept(calls, rows),
         \A c \in later : c.answer = "ok" => \E d \in calls : SameAnswer(c, d)
  PROVE  DeletionKept(later, rows)
<1>1. ASSUME NEW c \in later, c.answer = "ok"
      PROVE  \E d \in calls : d.answer = "ok" /\ d.kind = c.kind /\ d.id = c.id /\ d.n = c.n
                              /\ d.rows = c.rows
  BY <1>1 DEF SameAnswer
<1> QED
  BY <1>1 DEF DeletionKept, Moved

\* A page that shows what it showed.
LEMMA PageRemains ==
  ASSUME NEW calls \in SUBSET StrategyCallSet, NEW later, NEW rows, NEW page, NEW after,
         NEW seen \in Nat, NEW heard \in Nat, seen <= heard,
         PageCurrent(page, calls, rows, seen),
         after.view = page.view, after.id = page.id, after.loading = page.loading,
         after.strategies = page.strategies,
         after.adminPendingStrategies = page.adminPendingStrategies,
         \A c \in later : c.answer = "ok" => \E d \in calls : SameAnswer(c, d),
         \A d \in calls : d.answer = "ok" /\ d.kind \in Moving => \E c \in later : SameAnswer(c, d)
  PROVE  PageCurrent(after, later, rows, heard)
<1>1. \A s : Underway(calls, s) => Underway(later, s)
  BY DEF Underway, Moved, SameAnswer
<1>2. \A c \in later : \A s : Moved(c, s) =>
        \E d \in calls : Moved(d, s) /\ c.n = d.n /\ c.kind = d.kind /\ d.n \in Nat
  BY DEF Moved, SameAnswer, StrategyCallSet
<1>3. Relevant(after) = Relevant(page)
  BY DEF Relevant
<1>4. ASSUME NEW s \in Relevant(page), NEW c \in later, Gone(page.strategies[s]), Moved(c, s),
             c.kind # "delete", ~page.loading, page.view # "other"
      PROVE  c.n < heard
  <2>1. PICK d \in calls : Moved(d, s) /\ c.n = d.n /\ c.kind = d.kind /\ d.n \in Nat
    BY <1>2, <1>4
  <2>2. d.n < seen
    BY <1>4, <2>1 DEF PageCurrent
  <2> QED
    BY <2>1, <2>2
<1> QED
  BY <1>1, <1>3, <1>4 DEF PageCurrent

\* A request that is new: the latest one, without an answer, and the only one.
Latest(added, before, now) ==
  /\ added \subseteq StrategyCallSet /\ before <= now
  /\ \A c \in added : before < c.sent /\ c.sent <= now /\ c.answer = "none" /\ c.n = 0 /\ c.mine
  /\ \A c, d \in added : c = d

\* The page stays, and may send a request or open a dialog.
LEMMA SentKept ==
  ASSUME StrategiesInv, UNCHANGED <<strategies, isAdmin, strategyHistory>>,
         strategyMoves' \in 0 .. MaxStrategyMoves, strategyDialog' \in Questions,
         strategiesSent' \in 0 .. MaxStrategyCalls,
         strategyPage' \in StrategyPagesSet,
         strategyPage'.view = strategyPage.view, strategyPage'.id = strategyPage.id,
         strategyPage'.loading = strategyPage.loading,
         strategyPage'.strategies = strategyPage.strategies,
         strategyPage'.adminPendingStrategies = strategyPage.adminPendingStrategies,
         PageKept(strategyPage', strategyDialog'),
         strategyPage.loading /\ ~strategyHistory.astray =>
           (strategyDialog'.kind # "none" => Gone(strategies[strategyDialog'.id])),
         NEW added, strategyCalls' = strategyCalls \cup added,
         Latest(added, strategiesSent, strategiesSent'),
         \A c \in added :
           /\ c.kind \notin Opening
           /\ RequestKept(c, strategyPage', strategiesSent', strategyHistory.served)
           /\ strategyPage.loading /\ ~strategyHistory.astray /\ c.kind \in Moving =>
                Gone(strategies[c.id])
  PROVE  StrategiesInv'
<1>0. /\ strategyCalls \in SUBSET StrategyCallSet /\ strategiesSent \in Nat
      /\ strategiesSent' \in Nat /\ strategyHistory.seen \in Nat
      /\ strategyHistory.seen <= strategyHistory.seen
      /\ \A c \in strategyCalls : c.sent \in Nat
  BY StrategiesAre DEF StrategiesInv
<1>1. StrategiesTypeOK'
  <2>1. strategyCalls' \subseteq StrategyCallSet
    BY <1>0 DEF Latest
  <2> QED
    BY <2>1, Zenon DEF StrategiesInv, StrategiesTypeOK
<1>2. RequestsKept(strategyCalls', strategyPage', strategiesSent', strategyHistory'.served)
  <2>1. ASSUME NEW c \in strategyCalls
        PROVE  /\ c.sent <= strategiesSent
               /\ RequestKept(c, strategyPage', strategiesSent', strategyHistory.served)
    BY <1>0 DEF StrategiesInv, RequestsKept, RequestKept, Latest
  <2>2. \A c \in strategyCalls, d \in added : c.sent # d.sent
    BY <1>0, <2>1 DEF Latest, StrategyCallSet
  <2>3. \A c, d \in strategyCalls' : c.sent = d.sent => c = d
    BY <2>2 DEF StrategiesInv, RequestsKept, Latest
  <2>4. \A c, d \in strategyCalls' :
          c.mine /\ d.mine /\ c.kind \in Opening /\ d.kind \in Opening => c = d
    BY DEF StrategiesInv, RequestsKept
  <2> QED
    BY <2>1, <2>3, <2>4 DEF RequestsKept
<1>3. /\ \A c \in strategyCalls' : c.answer = "ok" => c \in strategyCalls
      /\ \A c \in strategyCalls : c \in strategyCalls' /\ SameAnswer(c, c)
  BY DEF Latest, SameAnswer
<1>4. DeletionKept(strategyCalls', strategies')
  <2>1. DeletionKept(strategyCalls, strategies)
    BY DEF StrategiesInv
  <2> QED
    BY <1>3, <2>1, DeletionRemains
<1>5. ASSUME ~strategyHistory'.astray
      PROVE  /\ AnswersCurrent(strategyCalls', strategies', strategyHistory'.seen)
             /\ PageCurrent(strategyPage', strategyCalls', strategies', strategyHistory'.seen)
             /\ LeftoversAreGone(strategyPage', strategyCalls', strategyDialog', strategies')
  <2>0. /\ AnswersCurrent(strategyCalls, strategies, strategyHistory.seen)
        /\ PageCurrent(strategyPage, strategyCalls, strategies, strategyHistory.seen)
        /\ LeftoversAreGone(strategyPage, strategyCalls, strategyDialog, strategies)
    BY <1>5 DEF StrategiesInv
  <2>1. strategyCalls' \in SUBSET StrategyCallSet
    BY <1>0 DEF Latest
  <2>2. AnswersCurrent(strategyCalls', strategies, strategyHistory.seen)
    <3>1. /\ \A c \in strategyCalls' : c.answer = "ok" =>
               \E d \in strategyCalls : SameAnswer(c, d) /\ (c.mine => d.mine)
          /\ \A d \in strategyCalls : \E c \in strategyCalls' : SameAnswer(c, d)
      BY <1>3
    <3> QED
      BY <1>0, <2>0, <2>1, <3>1, AnswersRemain
  <2>3. PageCurrent(strategyPage', strategyCalls', strategies, strategyHistory.seen)
    BY <1>0, <1>3, <2>0, PageRemains
  <2>4. LeftoversAreGone(strategyPage', strategyCalls', strategyDialog', strategies)
    BY <1>5, <2>0 DEF LeftoversAreGone, Latest
  <2> QED
    BY <2>2, <2>3, <2>4
<1> QED
  BY <1>1, <1>2, <1>4, <1>5 DEF StrategiesInv

\* Another page is opened: it shows nothing yet, and the answers to come are not its own.
LEMMA OpenedKept ==
  ASSUME StrategiesInv, UNCHANGED <<strategies, isAdmin>>,
         NEW view \in Views, NEW id \in Strategies \cup {"none"}, NEW known \in BOOLEAN,
         view = "detail" <=> id # "none", strategyPage' = NewPage(view, id, known),
         strategyMoves' \in 0 .. MaxStrategyMoves, strategyDialog' \in Questions,
         strategiesSent' \in 0 .. MaxStrategyCalls,
         strategyHistory' \in [served : 0 .. MaxStrategyCalls, seen : 0 .. MaxStrategyCalls,
                               astray : BOOLEAN],
         strategyHistory'.served = strategyHistory.served,
         strategyHistory.seen <= strategyHistory'.seen,
         strategyHistory'.seen <= strategyHistory'.served,
         ~strategyHistory'.astray => ~strategyHistory.astray,
         view = "detail" => strategyDialog'.kind = "none",
         view # "other" /\ ~strategyHistory'.astray =>
           (strategyDialog'.kind # "none" => Gone(strategies[strategyDialog'.id])),
         NEW rest \in SUBSET strategyCalls,
         ~strategyHistory'.astray => \A d \in strategyCalls \ rest :
           d.answer = "ok" /\ d.kind \in Moving => d.n <= strategyHistory'.seen,
         NEW added, strategyCalls' = Abandoned(rest) \cup added,
         Latest(added, strategiesSent, strategiesSent'),
         \A c \in added : \/ c.kind \in {"user", "lists"} /\ c.id = "none" /\ view = "list"
                          \/ c.kind = "get" /\ c.id = id /\ view = "detail"
  PROVE  StrategiesInv'
<1>0. /\ strategyCalls \in SUBSET StrategyCallSet /\ strategiesSent \in Nat
      /\ rest \in SUBSET StrategyCallSet
      /\ strategiesSent' \in Nat /\ strategyHistory.seen \in Nat /\ strategyHistory'.seen \in Nat
      /\ strategyHistory.served \in Nat
      /\ \A c \in strategyCalls : c.sent \in Nat /\ c.n \in Nat
  BY StrategiesAre DEF StrategiesInv
<1>1. /\ strategyPage' \in StrategyPagesSet /\ strategyPage'.view = view /\ strategyPage'.id = id
      /\ (strategyPage'.loading <=> view # "other") /\ ~strategyPage'.editing
      /\ strategyPage'.adminPendingStrategies = {}
  BY NewPageIs
<1>2. /\ Abandoned(rest) \subseteq StrategyCallSet
      /\ \A c \in Abandoned(rest) : ~c.mine /\ \E d \in rest : SameAnswer(c, d)
      /\ \A d \in rest : \E c \in Abandoned(rest) : SameAnswer(c, d)
      /\ \A c, d \in Abandoned(rest) : c.sent = d.sent => c = d
  <2>1. \A x, y \in rest : x.sent = y.sent => x = y
    BY DEF StrategiesInv, RequestsKept
  <2> QED
    BY <1>0, <2>1, AbandonedAre
<1>3. strategyCalls' \in SUBSET StrategyCallSet
  BY <1>2 DEF Latest
<1>4. StrategiesTypeOK'
  BY <1>1, <1>3, Zenon DEF StrategiesInv, StrategiesTypeOK
<1>5. RequestsKept(strategyCalls', strategyPage', strategiesSent', strategyHistory'.served)
  <2>1. ASSUME NEW c \in Abandoned(rest)
        PROVE  /\ c.sent <= strategiesSent /\ c.sent \in Nat
               /\ RequestKept(c, strategyPage', strategiesSent', strategyHistory'.served)
    <3>1. PICK d \in rest : SameAnswer(c, d)
      BY <1>2
    <3>2. RequestKept(d, strategyPage, strategiesSent, strategyHistory.served)
      BY DEF StrategiesInv, RequestsKept
    <3> QED
      BY <1>0, <1>2, <3>1, <3>2 DEF SameAnswer, RequestKept, Latest
  <2>2. ASSUME NEW c \in added
        PROVE  RequestKept(c, strategyPage', strategiesSent', strategyHistory'.served)
    BY <1>0, <1>1, StrategiesAssumption DEF Latest, RequestKept, StrategyChanges
  <2>3. \A c \in Abandoned(rest), d \in added : c.sent # d.sent
    BY <1>0, <2>1 DEF Latest, StrategyCallSet
  <2>4. \A c, d \in strategyCalls' : c.sent = d.sent => c = d
    BY <1>2, <2>3 DEF Latest
  <2>5. \A c, d \in strategyCalls' :
          c.mine /\ d.mine /\ c.kind \in Opening /\ d.kind \in Opening => c = d
    BY <1>2 DEF Latest
  <2> QED
    BY <2>1, <2>2, <2>4, <2>5 DEF RequestsKept
<1>6. PageKept(strategyPage', strategyDialog')
  BY <1>1 DEF PageKept
<1>7. \A c \in strategyCalls' : c.answer = "ok" =>
        ~c.mine /\ \E d \in strategyCalls : SameAnswer(c, d)
  BY <1>2 DEF Latest
<1>8. DeletionKept(strategyCalls', strategies')
  <2>1. DeletionKept(strategyCalls, strategies)
    BY DEF StrategiesInv
  <2> QED
    BY <1>7, <2>1, DeletionRemains
<1>9. ASSUME ~strategyHistory'.astray
      PROVE  /\ AnswersCurrent(strategyCalls', strategies', strategyHistory'.seen)
             /\ PageCurrent(strategyPage', strategyCalls', strategies', strategyHistory'.seen)
             /\ LeftoversAreGone(strategyPage', strategyCalls', strategyDialog', strategies')
  <2>1. AnswersCurrent(strategyCalls, strategies, strategyHistory.seen)
    BY <1>9 DEF StrategiesInv
  <2>2. \A d \in strategyCalls : d.answer = "ok" /\ d.kind \in Moving =>
          d.n <= strategyHistory'.seen \/ \E c \in strategyCalls' : SameAnswer(c, d)
    BY <1>2, <1>9
  <2>3. /\ \A c \in strategyCalls' : c.mine /\ c.kind \in Opening => c.answer # "ok"
        /\ \A c \in strategyCalls' : c.answer = "ok" =>
             \E d \in strategyCalls : SameAnswer(c, d) /\ (c.mine => d.mine)
    BY <1>7
  <2>4. AnswersCurrent(strategyCalls', strategies, strategyHistory'.seen)
    BY <1>0, <1>3, <2>1, <2>2, <2>3, AnswersRemain
  <2>5. PageCurrent(strategyPage', strategyCalls', strategies, strategyHistory'.seen)
    BY <1>1 DEF PageCurrent
  <2>6. LeftoversAreGone(strategyPage', strategyCalls', strategyDialog', strategies)
    BY <1>1, <1>2, <1>9 DEF LeftoversAreGone, Moving, StrategyChanges
  <2> QED
    BY <2>4, <2>5, <2>6
<1> QED
  BY <1>4, <1>5, <1>6, <1>8, <1>9 DEF StrategiesInv

LEMMA DraftsReset ==
  ASSUME NEW page \in StrategyPagesSet
  PROVE  /\ ResetMetadataDrafts(page) \in StrategyPagesSet
         /\ ResetMetadataDrafts(page).view = page.view
         /\ ResetMetadataDrafts(page).id = page.id
         /\ ResetMetadataDrafts(page).loading = page.loading
         /\ ResetMetadataDrafts(page).editing = page.editing
         /\ ResetMetadataDrafts(page).strategies = page.strategies
         /\ ResetMetadataDrafts(page).adminPendingStrategies = page.adminPendingStrategies
<1>1. PICK title \in Titles \cup {Blank} :
        ResetMetadataDrafts(page) = [page EXCEPT !.edited = title]
  <2>1. page.id # "none" => page.strategies[page.id].title \in Titles
    BY DEF StrategyPagesSet, StrategyRows, Strategy
  <2> QED
    BY <2>1 DEF ResetMetadataDrafts
<1> QED
  BY <1>1 DEF StrategyPagesSet

\* No request is sent.
LEMMA NothingAdded ==
  ASSUME StrategiesInv, UNCHANGED strategiesSent
  PROVE  /\ strategyCalls \cup {} = strategyCalls
         /\ Latest({}, strategiesSent, strategiesSent') /\ strategiesSent' \in 0 .. MaxStrategyCalls
<1>1. strategiesSent' \in 0 .. MaxStrategyCalls
  BY DEF StrategiesInv, StrategiesTypeOK
<1>2. Latest({}, strategiesSent, strategiesSent')
  BY StrategiesAre DEF StrategiesInv, Latest
<1> QED
  BY <1>1, <1>2

LEMMA OneAdded ==
  ASSUME StrategiesInv, NEW new \in StrategyCallSet, new.sent = strategiesSent',
         strategiesSent' = strategiesSent + 1, new.answer = "none", new.mine, new.n = 0
  PROVE  Latest({new}, strategiesSent, strategiesSent')
BY StrategiesAre DEF StrategiesInv, Latest

\* The clicks on a page.
LEMMA EditsKept ==
  ASSUME StrategiesInv, NEW s \in Strategies,
         \/ StartMetadataEdit(s) \/ CancelMetadataEdit(s)
         \/ \E title \in Titles \cup {Blank} : TypeTitle(s, title)
  PROVE  StrategiesInv'
<1>0. strategyPage \in StrategyPagesSet /\ PageKept(strategyPage, strategyDialog)
  BY StrategiesAre DEF StrategiesInv
<1>1. /\ StrategyMove /\ OnDetail(s) /\ UNCHANGED <<strategyDialog, strategyCalls, strategiesSent>>
  BY DEF StartMetadataEdit, CancelMetadataEdit, TypeTitle
<1>2. /\ strategyPage.id = s /\ ~strategyPage.loading
      /\ strategyPage.id \in Strategies
  BY <1>1 DEF OnDetail, Shows
<1>3. /\ strategyPage' \in StrategyPagesSet
      /\ strategyPage'.view = strategyPage.view /\ strategyPage'.id = strategyPage.id
      /\ strategyPage'.loading = strategyPage.loading
      /\ strategyPage'.strategies = strategyPage.strategies
      /\ strategyPage'.adminPendingStrategies = strategyPage.adminPendingStrategies
  <2>1. ASSUME NEW b \in BOOLEAN,
               strategyPage' = ResetMetadataDrafts([strategyPage EXCEPT !.editing = b])
        PROVE  <1>3!:
    <3> DEFINE page == [strategyPage EXCEPT !.editing = b]
    <3>1. /\ page \in StrategyPagesSet /\ page.view = strategyPage.view /\ page.id = strategyPage.id
          /\ page.loading = strategyPage.loading /\ page.strategies = strategyPage.strategies
          /\ page.adminPendingStrategies = strategyPage.adminPendingStrategies
      BY <1>0 DEF StrategyPagesSet
    <3>2. strategyPage' = ResetMetadataDrafts(page)
      BY <2>1
    <3> HIDE DEF page
    <3> QED
      BY <1>2, <3>1, <3>2, DraftsReset
  <2>2. ASSUME NEW title \in Titles \cup {Blank},
               strategyPage' = [strategyPage EXCEPT !.edited = title]
        PROVE  <1>3!:
    BY <1>0, <2>2 DEF StrategyPagesSet
  <2>3. CASE StartMetadataEdit(s)
    BY <2>1, <2>3 DEF StartMetadataEdit
  <2>4. CASE CancelMetadataEdit(s)
    BY <2>1, <2>4 DEF CancelMetadataEdit
  <2>5. CASE \E title \in Titles \cup {Blank} : TypeTitle(s, title)
    BY <2>2, <2>5 DEF TypeTitle
  <2> QED
    BY <2>3, <2>4, <2>5
<1>4. PageKept(strategyPage', strategyDialog')
  BY <1>0, <1>1, <1>2, <1>3 DEF PageKept
<1>5. /\ strategyMoves' \in 0 .. MaxStrategyMoves
      /\ UNCHANGED <<strategies, isAdmin, strategyHistory>>
      /\ strategyDialog' \in Questions
  BY <1>1, StrategiesAssumption DEF StrategyMove, StrategiesInv, StrategiesTypeOK
<1> QED
  BY <1>1, <1>2, <1>3, <1>4, <1>5, NothingAdded, SentKept

\* What is sent of the strategy of the page, and the questions.
LEMMA PressesKept ==
  ASSUME StrategiesInv, NEW s \in Strategies,
         \/ SaveMetadata(s)
         \/ \E kind \in {"vote", "submit", "use"} : Press(s, kind)
  PROVE  StrategiesInv'
<1>0. /\ strategyPage \in StrategyPagesSet /\ PageKept(strategyPage, strategyDialog)
      /\ StrategiesTypeOK /\ s \in Strategies \cup {"none"} /\ NoTitle \in Titles
      /\ strategyHistory.served \in Nat /\ strategiesSent \in Nat
  BY StrategiesAre, StrategiesAssumption DEF StrategiesInv, NoTitle
<1>1. /\ strategyPage.view = "detail" /\ strategyPage.id = s /\ ~strategyPage.loading
      /\ UNCHANGED <<strategies, isAdmin, strategyHistory, strategyDialog>>
  BY DEF SaveMetadata, Press, OnDetail, Shows, StrategyMove
<1>2. strategyMoves' \in 0 .. MaxStrategyMoves
  BY StrategiesAssumption
     DEF SaveMetadata, Press, StrategyMove, StrategiesInv, StrategiesTypeOK
<1>3. PICK kind \in {"vote", "submit", "use", "update"}, title \in Titles :
        SendStrategy(kind, s, title, strategyCalls)
  <2>1. CASE SaveMetadata(s)
    <3>1. strategyPage.edited \in Titles
      BY <1>0, <2>1 DEF SaveMetadata, StrategyPagesSet
    <3> QED
      BY <2>1, <3>1 DEF SaveMetadata
  <2>2. CASE \E kind \in {"vote", "submit", "use"} : Press(s, kind)
    BY <1>0, <2>2 DEF Press
  <2> QED
    BY <2>1, <2>2
<1>4. PICK new \in StrategyCallSet :
        /\ strategyCalls' = strategyCalls \cup {new} /\ strategiesSent' = strategiesSent + 1
        /\ strategiesSent' \in 0 .. MaxStrategyCalls
        /\ new.sent = strategiesSent' /\ new.answer = "none" /\ new.mine /\ new.n = 0
        /\ new.kind = kind /\ new.id = s
  <2>1. kind \in StrategyKinds
    BY DEF StrategyKinds
  <2> QED
    BY <1>0, <1>3, <2>1, SendStrategyIs
<1>5. /\ strategyPage' \in StrategyPagesSet
      /\ strategyPage'.view = strategyPage.view /\ strategyPage'.id = strategyPage.id
      /\ strategyPage'.loading = strategyPage.loading
      /\ strategyPage'.strategies = strategyPage.strategies
      /\ strategyPage'.adminPendingStrategies = strategyPage.adminPendingStrategies
  <2>1. strategyPage' \in {strategyPage, [strategyPage EXCEPT !.saving = TRUE]}
    BY DEF SaveMetadata, Press
  <2> QED
    BY <1>0, <2>1 DEF StrategyPagesSet
<1>6. PageKept(strategyPage', strategyDialog')
  BY <1>0, <1>1, <1>5 DEF PageKept
<1>7. /\ kind \notin Opening
      /\ RequestKept(new, strategyPage', strategiesSent', strategyHistory.served)
  BY <1>0, <1>1, <1>4, <1>5, StrategiesAssumption DEF RequestKept, Opening
<1>8. Latest({new}, strategiesSent, strategiesSent')
  BY <1>4, OneAdded
<1>9. strategyDialog' \in Questions
  BY <1>1 DEF StrategiesInv, StrategiesTypeOK
<1> QED
  BY <1>1, <1>2, <1>4, <1>5, <1>6, <1>7, <1>8, <1>9, SentKept

LEMMA QuestionsKept ==
  ASSUME StrategiesInv,
         \/ CloseQuestion
         \/ \E s \in Strategies, kind \in {"approve", "reject", "delete"} : AskStrategy(s, kind)
  PROVE  StrategiesInv'
<1>0. /\ strategyPage \in StrategyPagesSet /\ PageKept(strategyPage, strategyDialog)
      /\ StrategiesTypeOK /\ NoTitle \in Titles /\ strategyDialog \in Questions
      /\ strategyHistory.served \in Nat /\ strategiesSent \in Nat
  BY StrategiesAre, StrategiesAssumption DEF StrategiesInv, StrategiesTypeOK, NoTitle
<1>1. /\ UNCHANGED <<strategies, isAdmin, strategyHistory>>
      /\ strategyMoves' \in 0 .. MaxStrategyMoves
  BY StrategiesAssumption
     DEF CloseQuestion, AskStrategy, StrategyMove, StrategiesInv, StrategiesTypeOK
<1>2. ASSUME NEW s \in Strategies, NEW kind \in {"approve", "reject", "delete"},
             AskStrategy(s, kind)
      PROVE  StrategiesInv'
  <2>1. /\ strategyDialog' = [kind |-> kind, id |-> s] /\ ~strategyPage.loading
        /\ strategyPage.view = "detail" => strategyPage.id = s
        /\ UNCHANGED <<strategyPage, strategyCalls, strategiesSent>>
    BY <1>2 DEF AskStrategy, Shows
  <2>2. strategyDialog' \in Questions /\ strategyDialog'.id = s
    BY <2>1 DEF Questions
  <2>3. PageKept(strategyPage', strategyDialog')
    BY <1>0, <2>1, <2>2 DEF PageKept
  <2> QED
    BY <1>0, <1>1, <2>1, <2>2, <2>3, NothingAdded, SentKept
<1>3. CASE CloseQuestion
  <2>1. /\ strategyDialog' = NoQuestion /\ NoQuestion \in Questions /\ NoQuestion.kind = "none"
        /\ strategyDialog # NoQuestion
    BY <1>3 DEF CloseQuestion, Questions, NoQuestion
  <2>2. PageKept(strategyPage, strategyDialog')
    BY <1>0, <2>1 DEF PageKept
  <2>3. CASE UNCHANGED <<strategyPage, strategyCalls, strategiesSent>>
    BY <1>0, <1>1, <2>1, <2>2, <2>3, NothingAdded, SentKept
  <2>4. CASE /\ SendStrategy(strategyDialog.kind, strategyDialog.id, NoTitle, strategyCalls)
             /\ strategyPage' = [strategyPage EXCEPT
                  !.reviewing = @ \/ (strategyPage.view = "detail"
                                     /\ strategyDialog.kind # "delete")]
    <3>1. strategyDialog.kind \in {"approve", "reject", "delete"}
            /\ strategyDialog.id \in Strategies
      BY <1>0, <2>1 DEF Questions
    <3>2. PICK new \in StrategyCallSet :
            /\ strategyCalls' = strategyCalls \cup {new} /\ strategiesSent' = strategiesSent + 1
            /\ strategiesSent' \in 0 .. MaxStrategyCalls
            /\ new.sent = strategiesSent' /\ new.answer = "none" /\ new.mine /\ new.n = 0
            /\ new.kind = strategyDialog.kind /\ new.id = strategyDialog.id
            /\ new.from = strategyPage.view
      <4>1. PICK kind \in StrategyKinds, id \in Strategies \cup {"none"} :
              /\ SendStrategy(kind, id, NoTitle, strategyCalls)
              /\ kind = strategyDialog.kind /\ id = strategyDialog.id
        BY <2>4, <3>1 DEF StrategyKinds
      <4>2. \E new \in StrategyCallSet :
              /\ strategyCalls' = strategyCalls \cup {new} /\ strategiesSent' = strategiesSent + 1
              /\ strategiesSent' \in 0 .. MaxStrategyCalls
              /\ new.sent = strategiesSent' /\ new.answer = "none" /\ new.mine /\ new.n = 0
              /\ new.kind = kind /\ new.id = id /\ new.from = strategyPage.view
        <5>1. SendStrategy(kind, id, NoTitle, strategyCalls)
          BY <4>1
        <5>2. StrategiesTypeOK /\ NoTitle \in Titles
          BY <1>0
        <5> QED
          BY <5>1, <5>2, SendStrategyIs
      <4> QED
        BY <4>1, <4>2
    <3>3. /\ strategyPage' \in StrategyPagesSet
          /\ strategyPage'.view = strategyPage.view /\ strategyPage'.id = strategyPage.id
          /\ strategyPage'.loading = strategyPage.loading
          /\ strategyPage'.editing = strategyPage.editing
          /\ strategyPage'.strategies = strategyPage.strategies
          /\ strategyPage'.adminPendingStrategies = strategyPage.adminPendingStrategies
      <4>1. PICK b \in BOOLEAN : strategyPage' = [strategyPage EXCEPT !.reviewing = b]
        BY <1>0, <2>4 DEF StrategyPagesSet
      <4> QED
        BY <1>0, <4>1 DEF StrategyPagesSet
    <3>4. PageKept(strategyPage', strategyDialog')
      BY <2>2, <3>3 DEF PageKept
    <3>5. /\ new.kind \notin Opening
          /\ RequestKept(new, strategyPage', strategiesSent', strategyHistory.served)
      BY <1>0, <2>1, <3>1, <3>2, <3>3, StrategiesAssumption
         DEF RequestKept, Opening, PageKept
    <3>6. strategyPage.loading /\ ~strategyHistory.astray => Gone(strategies[new.id])
      BY <3>1, <3>2 DEF StrategiesInv, LeftoversAreGone
    <3>7. Latest({new}, strategiesSent, strategiesSent')
      BY <3>2, OneAdded
    <3> QED
      BY <1>1, <2>1, <3>2, <3>3, <3>4, <3>5, <3>6, <3>7, SentKept
  <2> QED
    BY <1>3, <2>3, <2>4 DEF CloseQuestion
<1> QED
  BY <1>2, <1>3

LEMMA VisitsKept ==
  ASSUME StrategiesInv, VisitStrategies \/ \E s \in Strategies : VisitStrategy(s)
  PROVE  StrategiesInv'
<1>0. /\ StrategiesTypeOK /\ NoTitle \in Titles /\ strategyCalls \in SUBSET strategyCalls
      /\ strategyHistory.seen \in Nat /\ strategyHistory.seen <= strategyHistory.seen
      /\ strategyHistory.seen <= strategyHistory.served
  BY StrategiesAre, StrategiesAssumption DEF StrategiesInv, NoTitle
<1>a. StrategyMove /\ strategyDialog = NoQuestion /\ UNCHANGED strategyDialog
  BY DEF VisitStrategies, VisitStrategy
<1>1. /\ UNCHANGED <<strategies, isAdmin, strategyHistory, strategyDialog>>
      /\ strategyDialog = NoQuestion /\ strategyMoves' \in 0 .. MaxStrategyMoves
  BY <1>a, StrategiesAssumption DEF StrategyMove, StrategiesInv, StrategiesTypeOK
<1>2. /\ strategyDialog' \in Questions /\ strategyDialog'.kind = "none"
      /\ strategyHistory' \in [served : 0 .. MaxStrategyCalls, seen : 0 .. MaxStrategyCalls,
                               astray : BOOLEAN]
  BY <1>0, <1>1 DEF StrategiesTypeOK, Questions, NoQuestion
<1>3. CASE VisitStrategies
  <2>1. PICK known \in BOOLEAN : ToStrategies(known, strategyCalls)
    BY <1>3 DEF VisitStrategies
  <2>2. PICK kind \in {"lists", "user"} :
          SendStrategy(kind, "none", NoTitle, Abandoned(strategyCalls))
    BY <2>1 DEF ToStrategies
  <2>3. kind \in StrategyKinds /\ "none" \in Strategies \cup {"none"} /\ "list" \in Views
    BY DEF StrategyKinds, Views
  <2>4. PICK new \in StrategyCallSet :
          /\ strategyCalls' = Abandoned(strategyCalls) \cup {new}
          /\ strategiesSent' = strategiesSent + 1 /\ strategiesSent' \in 0 .. MaxStrategyCalls
          /\ new.sent = strategiesSent' /\ new.answer = "none" /\ new.mine /\ new.n = 0
          /\ new.kind = kind /\ new.id = "none"
    BY <1>0, <2>2, <2>3, SendStrategyIs
  <2>5. Latest({new}, strategiesSent, strategiesSent')
    BY <2>4, OneAdded
  <2>6. strategyPage' = NewPage("list", "none", known)
    BY <2>1 DEF ToStrategies
  <2> QED
    BY <1>0, <1>1, <1>2, <2>3, <2>4, <2>5, <2>6, OpenedKept
<1>4. ASSUME NEW s \in Strategies, VisitStrategy(s) PROVE StrategiesInv'
  <2>1. /\ strategyPage' = NewPage("detail", s, TRUE)
        /\ "detail" \in Views /\ "get" \in StrategyKinds
        /\ SendStrategy("get", s, NoTitle, Abandoned(strategyCalls))
        /\ s \in Strategies \cup {"none"} /\ s # "none"
    BY <1>4, StrategiesAssumption DEF VisitStrategy, Views, StrategyKinds
  <2>2. PICK new \in StrategyCallSet :
          /\ strategyCalls' = Abandoned(strategyCalls) \cup {new}
          /\ strategiesSent' = strategiesSent + 1 /\ strategiesSent' \in 0 .. MaxStrategyCalls
          /\ new.sent = strategiesSent' /\ new.answer = "none" /\ new.mine /\ new.n = 0
          /\ new.kind = "get" /\ new.id = s
    BY <1>0, <2>1, SendStrategyIs
  <2>3. Latest({new}, strategiesSent, strategiesSent')
    BY <2>2, OneAdded
  <2>4. PICK known \in BOOLEAN : strategyPage' = NewPage("detail", s, known)
    BY <2>1, Zenon
  <2>5. "detail" \in Views /\ s \in Strategies \cup {"none"} /\ s # "none"
    BY <2>1
  <2> QED
    BY <1>0, <1>1, <1>2, <2>2, <2>3, <2>4, <2>5, OpenedKept
<1> QED
  BY <1>3, <1>4

\* What the server does to a strategy.
LEMMA StrategyEffectIs ==
  ASSUME NEW c \in StrategyCallSet, NEW row \in Strategy
  PROVE  /\ StrategyEffect(c, row) \in Strategy
         /\ c.kind \notin Moving => Alike(StrategyEffect(c, row), row)
         /\ c.kind = "delete" => Gone(StrategyEffect(c, row))
         /\ c.kind # "delete" /\ ~Gone(row) => ~Gone(StrategyEffect(c, row))
<1> DEFINE updated == [row EXCEPT !.title = c.title,
                         !.publication_status = IF @ = "published" THEN "draft" ELSE @]
<1>1. updated \in Strategy /\ (~Gone(row) => ~Gone(updated))
  BY DEF StrategyCallSet, Strategy, Statuses, Gone
<1>2. \A status \in {"pending_review", "published", "rejected"} :
        /\ [row EXCEPT !.publication_status = status] \in Strategy
        /\ ~Gone([row EXCEPT !.publication_status = status])
  BY DEF Strategy, Statuses, Gone
<1>3. /\ [row EXCEPT !.has_voted = ~@] \in Strategy /\ Alike([row EXCEPT !.has_voted = ~@], row)
      /\ (~Gone(row) => ~Gone([row EXCEPT !.has_voted = ~@]))
  BY DEF Strategy, Alike, Gone
<1>4. NoStrategy \in Strategy /\ Gone(NoStrategy)
  <2>1. NoTitle \in Titles
    BY StrategiesAssumption DEF NoTitle
  <2> QED
    BY <2>1 DEF NoStrategy, Strategy, Statuses, Gone
<1>5. CASE c.kind = "update"
  <2>1. StrategyEffect(c, row) = updated /\ c.kind \in Moving /\ c.kind # "delete"
    BY <1>5 DEF StrategyEffect, Moving, StrategyChanges
  <2> HIDE DEF updated
  <2> QED
    BY <1>1, <2>1
<1>6. CASE c.kind \in {"submit", "approve", "reject"}
  <2>1. /\ c.kind \in Moving /\ c.kind # "delete"
        /\ \E status \in {"pending_review", "published", "rejected"} :
             StrategyEffect(c, row) = [row EXCEPT !.publication_status = status]
    BY <1>6 DEF StrategyEffect, Moving, StrategyChanges
  <2> QED
    BY <1>2, <2>1
<1>7. CASE c.kind = "vote"
  BY <1>3, <1>7 DEF StrategyEffect, Moving
<1>8. CASE c.kind = "delete"
  BY <1>4, <1>8 DEF StrategyEffect, Moving, StrategyChanges
<1>9. CASE c.kind \notin StrategyChanges
  BY <1>9 DEF StrategyEffect, Moving, StrategyChanges, Alike
<1> QED
  BY <1>5, <1>6, <1>7, <1>8, <1>9 DEF StrategyChanges

LEMMA AnsweringIs ==
  ASSUME NEW c, NEW rows \in StrategyRows
  PROVE  /\ Answering(c, rows) \in StrategyRows
         /\ \A s \in Strategies : /\ Alike(Answering(c, rows)[s], rows[s])
                                  /\ Gone(Answering(c, rows)[s]) <=> Gone(rows[s])
BY DEF Answering, StrategyRows, Strategy, Alike, Gone

\* The server: an answer says what is stored then, and a change is on its way back.
LEMMA ServingKept ==
  ASSUME StrategiesInv, strategyHistory.served < MaxStrategyCalls,
         NEW c \in strategyCalls, ServeStrategy(c)
  PROVE  StrategiesInv'
<1>0. /\ strategyCalls \in SUBSET StrategyCallSet /\ c \in StrategyCallSet
      /\ strategies \in StrategyRows /\ strategyHistory.served \in Nat
      /\ strategyHistory.seen \in Nat
      /\ \A d \in strategyCalls : d.n \in Nat /\ d.n <= strategyHistory.served
      /\ RequestsKept(strategyCalls, strategyPage, strategiesSent, strategyHistory.served)
      /\ DeletionKept(strategyCalls, strategies) /\ PageKept(strategyPage, strategyDialog)
      /\ strategyHistory.seen <= strategyHistory.served
  BY StrategiesAre DEF StrategiesInv, RequestsKept, RequestKept
<1> DEFINE answer == IF Grants(c) THEN "ok" ELSE "error"
           n == strategyHistory.served + 1
           served == [c EXCEPT !.answer = answer, !.n = strategyHistory.served + 1,
                               !.rows = Answering(c, strategies')]
<1>1. /\ c.answer = "none" /\ strategyCalls' = (strategyCalls \ {c}) \cup {served}
      /\ strategies' = IF Grants(c) /\ c.id # "none"
                       THEN [strategies EXCEPT ![c.id] = StrategyEffect(c, @)] ELSE strategies
      /\ strategyHistory' = [strategyHistory EXCEPT !.served = @ + 1]
      /\ UNCHANGED <<isAdmin, strategyPage, strategyDialog, strategiesSent, strategyMoves>>
  BY DEF ServeStrategy
<1>2. c.id # "none" => c.id \in Strategies /\ c.kind \notin {"user", "lists"}
  BY <1>0 DEF StrategyCallSet, RequestsKept, RequestKept
<1>3. /\ strategies' \in StrategyRows
      /\ \A s \in Strategies : s # c.id => strategies'[s] = strategies[s]
      /\ Grants(c) /\ c.id # "none" => strategies'[c.id] = StrategyEffect(c, strategies[c.id])
      /\ ~Grants(c) => strategies' = strategies
  <2>1. c.id \in Strategies => StrategyEffect(c, strategies[c.id]) \in Strategy
    BY <1>0, StrategyEffectIs DEF StrategyRows
  <2> QED
    BY <1>0, <1>1, <1>2, <2>1 DEF StrategyRows
<1>4. Grants(c) /\ c.id # "none" => ~Gone(strategies[c.id])
  BY <1>2 DEF Grants, Gone
<1>5. /\ served.sent = c.sent /\ served.kind = c.kind /\ served.id = c.id /\ served.mine = c.mine
      /\ served.from = c.from /\ served.answer = answer /\ served.n = n
      /\ served.rows = Answering(c, strategies')
  BY <1>0 DEF StrategyCallSet
<1>6. n \in Nat /\ strategyHistory.served < n /\ n \in 0 .. MaxStrategyCalls
  BY <1>0, StrategiesAssumption
<1>7. served \in StrategyCallSet
  <2>1. Answering(c, strategies') \in StrategyRows
    BY <1>3, AnsweringIs
  <2> QED
    BY <1>0, <1>6, <2>1 DEF StrategyCallSet
<1>8. \A s \in Strategies : /\ Alike(served.rows[s], strategies'[s])
                            /\ Gone(served.rows[s]) <=> Gone(strategies'[s])
  BY <1>3, <1>5, AnsweringIs
<1>a. served.answer = "ok" <=> Grants(c)
  BY <1>5
<1>b. strategyHistory'.served = n /\ strategyHistory'.seen = strategyHistory.seen
        /\ strategyHistory'.astray = strategyHistory.astray
        /\ strategyHistory' \in [served : 0 .. MaxStrategyCalls, seen : 0 .. MaxStrategyCalls,
                                 astray : BOOLEAN]
  <2>1. strategyHistory \in [served : 0 .. MaxStrategyCalls, seen : 0 .. MaxStrategyCalls,
                             astray : BOOLEAN]
    BY DEF StrategiesInv, StrategiesTypeOK
  <2> QED
    BY <1>1, <1>6, <2>1
<1> HIDE DEF answer, served, n
\* What is done to the strategy of the request, and to no other.
<1>9. \A s \in Strategies :
        /\ Gone(strategies[s]) => Gone(strategies'[s])
        /\ ~Moved(served, s) => Alike(strategies'[s], strategies[s])
        /\ Moved(served, s) => ~Gone(strategies[s])
        /\ Moved(served, s) /\ c.kind # "delete" => ~Gone(strategies'[s])
        /\ Moved(served, s) /\ c.kind = "delete" => Gone(strategies'[s])
  <2> SUFFICES ASSUME NEW s \in Strategies PROVE <1>9!(s)
    OBVIOUS
  <2>1. CASE s # c.id \/ ~Grants(c)
    BY <1>3, <1>5, <1>a, <2>1 DEF Moved, Alike
  <2>2. CASE s = c.id /\ Grants(c)
    <3>1. strategies[s] \in Strategy /\ c.id # "none" /\ s = c.id
      BY <1>0, <2>2, StrategiesAssumption DEF StrategyRows
    <3>2. strategies'[s] = StrategyEffect(c, strategies[s]) /\ ~Gone(strategies[s])
      BY <1>3, <1>4, <2>2, <3>1
    <3> QED
      BY <1>0, <1>5, <1>a, <2>2, <3>1, <3>2, StrategyEffectIs DEF Moved
  <2> QED
    BY <2>1, <2>2
<1>10. StrategiesTypeOK'
  <2>1. strategyCalls' \subseteq StrategyCallSet
    BY <1>0, <1>1, <1>7
  <2> QED
    BY <1>1, <1>3, <1>b, <2>1, Zenon DEF StrategiesInv, StrategiesTypeOK
<1>11. RequestsKept(strategyCalls', strategyPage', strategiesSent', strategyHistory'.served)
  <2>1. ASSUME NEW d \in strategyCalls
        PROVE  RequestKept(d, strategyPage, strategiesSent, n)
    BY <1>0, <1>6 DEF RequestsKept, RequestKept
  <2>2. RequestKept(served, strategyPage, strategiesSent, n)
    <3>1. RequestKept(c, strategyPage, strategiesSent, strategyHistory.served) /\ n <= n
      BY <1>0, <1>6 DEF RequestsKept
    <3> QED
      BY <1>5, <3>1 DEF RequestKept
  <2>3. /\ \A x, y \in strategyCalls' : x.sent = y.sent => x = y
        /\ \A x, y \in strategyCalls' :
             x.mine /\ y.mine /\ x.kind \in Opening /\ y.kind \in Opening => x = y
    BY <1>0, <1>1, <1>5 DEF RequestsKept
  <2> QED
    BY <1>1, <1>b, <2>1, <2>2, <2>3 DEF RequestsKept
<1>12. DeletionKept(strategyCalls', strategies')
  <2>1. ASSUME NEW x \in strategyCalls', NEW s \in Strategies, x.answer = "ok", Gone(x.rows[s])
        PROVE  Gone(strategies'[s])
    BY <1>0, <1>1, <1>8, <1>9, <2>1 DEF DeletionKept
  <2>2. ASSUME NEW x \in strategyCalls', NEW y \in strategyCalls', NEW s \in Strategies,
               Moved(x, s), x.kind # "delete", y.answer = "ok", Gone(y.rows[s])
        PROVE  x.n < y.n
    <3>1. x # served
      BY <1>5, <1>9, <2>1, <2>2
    <3>2. x.n \in Nat /\ x.n < n
      BY <1>0, <1>1, <1>6, <3>1
    <3>3. CASE y = served
      BY <1>5, <3>2, <3>3
    <3>4. CASE y # served
      BY <1>0, <1>1, <2>2, <3>1, <3>4 DEF DeletionKept
    <3> QED
      BY <3>3, <3>4
  <2>3. ASSUME NEW x \in strategyCalls', NEW s \in Strategies, Moved(x, s), x.kind = "delete"
        PROVE  Gone(x.rows[s])
    BY <1>0, <1>1, <1>5, <1>8, <1>9, <2>3 DEF DeletionKept
  <2> QED
    BY <2>1, <2>2, <2>3 DEF DeletionKept
<1>13. ASSUME ~strategyHistory'.astray
       PROVE  /\ AnswersCurrent(strategyCalls', strategies', strategyHistory'.seen)
              /\ PageCurrent(strategyPage', strategyCalls', strategies', strategyHistory'.seen)
              /\ LeftoversAreGone(strategyPage', strategyCalls', strategyDialog', strategies')
  <2>0. /\ AnswersCurrent(strategyCalls, strategies, strategyHistory.seen)
        /\ PageCurrent(strategyPage, strategyCalls, strategies, strategyHistory.seen)
        /\ LeftoversAreGone(strategyPage, strategyCalls, strategyDialog, strategies)
    BY <1>13, <1>b DEF StrategiesInv
  <2>1. \A s : Underway(strategyCalls, s) => Underway(strategyCalls', s)
    BY <1>1 DEF Underway, Moved
  <2>2. \A s : \A m : Later(strategyCalls, s, m) => Later(strategyCalls', s, m)
    BY <1>1 DEF Later, Moved
  <2>3. \A s \in Strategies : ~Underway(strategyCalls', s) => Alike(strategies'[s], strategies[s])
    BY <1>1, <1>9 DEF Underway
  <2>4. AnswersCurrent(strategyCalls', strategies', strategyHistory'.seen)
    <3>1. ASSUME NEW x \in strategyCalls', NEW s \in Strategies, x.answer = "ok",
                 x.kind \in Moving, strategyHistory.seen <= x.n, ~Later(strategyCalls', s, x.n)
          PROVE  Alike(x.rows[s], strategies'[s])
      <4>1. CASE x = served
        BY <1>8, <4>1
      <4>2. CASE x # served
        <5>1. x \in strategyCalls /\ x.n < n
          BY <1>0, <1>1, <1>6, <4>2
        <5>2. Alike(x.rows[s], strategies[s])
          BY <2>0, <2>2, <3>1, <5>1 DEF AnswersCurrent
        <5>3. ~Moved(served, s)
          BY <1>1, <1>5, <3>1, <5>1 DEF Later
        <5> QED
          BY <1>9, <5>2, <5>3 DEF Alike
      <4> QED
        BY <4>1, <4>2
    <3>2. ASSUME NEW x \in strategyCalls', NEW s \in Strategies, x.answer = "ok", x.mine,
                 x.kind \in Opening, ~Underway(strategyCalls', s)
          PROVE  Alike(x.rows[s], strategies'[s])
      <4>1. CASE x = served
        BY <1>8, <4>1
      <4>2. CASE x # served
        <5>1. Alike(x.rows[s], strategies[s])
          BY <1>1, <2>0, <2>1, <3>2, <4>2 DEF AnswersCurrent
        <5> QED
          BY <2>3, <3>2, <5>1 DEF Alike
      <4> QED
        BY <4>1, <4>2
    <3> QED
      BY <1>b, <3>1, <3>2 DEF AnswersCurrent
  <2>5. PageCurrent(strategyPage', strategyCalls', strategies', strategyHistory'.seen)
    <3>1. strategyPage.adminPendingStrategies \subseteq Strategies
      BY StrategiesAre DEF StrategiesInv, StrategyPagesSet
    <3>2. strategyPage.view # "other" => Relevant(strategyPage) \subseteq Strategies
      BY <1>0, StrategiesAre, StrategiesAssumption
         DEF StrategiesInv, Relevant, PageKept, Views
    <3>3. ASSUME ~strategyPage.loading, strategyPage.view # "other",
                 NEW s \in Relevant(strategyPage)
          PROVE  /\ ~Underway(strategyCalls', s) =>
                      Alike(strategyPage.strategies[s], strategies'[s])
                 /\ Gone(strategyPage.strategies[s]) => Gone(strategies'[s])
                 /\ \A x \in strategyCalls' :
                      Gone(strategyPage.strategies[s]) /\ Moved(x, s) /\ x.kind # "delete"
                        => x.n < strategyHistory.seen
      <4>1. /\ ~Underway(strategyCalls, s) => Alike(strategyPage.strategies[s], strategies[s])
            /\ Gone(strategyPage.strategies[s]) => Gone(strategies[s])
            /\ \A x \in strategyCalls :
                 Gone(strategyPage.strategies[s]) /\ Moved(x, s) /\ x.kind # "delete"
                   => x.n < strategyHistory.seen
        BY <2>0, <3>3 DEF PageCurrent
      <4>2. s \in Strategies
        BY <3>2, <3>3
      <4>3. ~Underway(strategyCalls', s) => Alike(strategyPage.strategies[s], strategies'[s])
        BY <2>1, <2>3, <4>1, <4>2 DEF Alike
      <4>4. Gone(strategyPage.strategies[s]) => Gone(strategies'[s]) /\ ~Moved(served, s)
        BY <1>9, <4>1, <4>2
      <4> QED
        BY <1>1, <4>1, <4>3, <4>4
    <3>4. ASSUME NEW s \in strategyPage.adminPendingStrategies, ~Underway(strategyCalls', s)
          PROVE  strategies'[s].publication_status = "pending_review"
      BY <2>0, <2>1, <2>3, <3>1, <3>4 DEF PageCurrent, Alike
    <3> QED
      BY <1>1, <1>b, <3>3, <3>4 DEF PageCurrent
  <2>6. LeftoversAreGone(strategyPage', strategyCalls', strategyDialog', strategies')
    <3>1. strategyDialog.kind # "none" => strategyDialog.id \in Strategies
      BY DEF StrategiesInv, StrategiesTypeOK, Questions, NoQuestion
    <3>2. \A x \in strategyCalls : x.kind \in Moving => x.id \in Strategies
      BY <1>0 DEF RequestsKept, RequestKept, StrategyCallSet, Moving, StrategyChanges
    <3>3. strategyPage.loading /\ c.mine /\ c.kind \in Moving =>
              Gone(strategies[c.id]) /\ ~Grants(c)
      <4> SUFFICES ASSUME strategyPage.loading, c.mine, c.kind \in Moving
                   PROVE  Gone(strategies[c.id]) /\ ~Grants(c)
        OBVIOUS
      <4>1. Gone(strategies[c.id])
        BY <2>0 DEF LeftoversAreGone
      <4>2. c.id # "none"
        BY <3>2, StrategiesAssumption
      <4> QED
        BY <1>4, <4>1, <4>2
    <3>4. ASSUME strategyPage.loading, NEW x \in strategyCalls', x.mine, x.kind \in Moving
          PROVE  x.answer # "ok" /\ Gone(strategies'[x.id])
      <4>1. CASE x = served
        BY <1>5, <1>9, <1>a, <3>2, <3>3, <3>4, <4>1
      <4>2. CASE x # served
        BY <1>1, <1>9, <2>0, <3>2, <3>4, <4>2 DEF LeftoversAreGone
      <4> QED
        BY <4>1, <4>2
    <3>5. strategyPage.loading /\ strategyDialog.kind # "none" =>
              Gone(strategies'[strategyDialog.id])
      BY <1>9, <2>0, <3>1 DEF LeftoversAreGone
    <3> QED
      BY <1>1, <3>4, <3>5 DEF LeftoversAreGone
  <2> QED
    BY <2>4, <2>5, <2>6
<1> QED
  BY <1>0, <1>1, <1>6, <1>b, <1>10, <1>11, <1>12, <1>13 DEF StrategiesInv

\* A request that fails: a change that was made goes astray.
LEMMA FailingKept ==
  ASSUME StrategiesInv, NEW c \in strategyCalls, StrategyFails(c)
  PROVE  StrategiesInv'
<1>0. /\ strategyCalls \in SUBSET StrategyCallSet /\ c \in StrategyCallSet
      /\ strategyHistory.seen \in Nat /\ strategyHistory.seen <= strategyHistory.seen
      /\ RequestsKept(strategyCalls, strategyPage, strategiesSent, strategyHistory.served)
      /\ DeletionKept(strategyCalls, strategies) /\ PageKept(strategyPage, strategyDialog)
      /\ strategyHistory.seen <= strategyHistory.served
  BY StrategiesAre DEF StrategiesInv
<1> DEFINE failed == [c EXCEPT !.answer = "error", !.rows = NoStrategies]
<1>1. /\ strategyCalls' = (strategyCalls \ {c}) \cup {failed}
      /\ strategyHistory' = [strategyHistory EXCEPT
           !.astray = @ \/ (c.answer = "ok" /\ c.kind \in StrategyChanges)]
      /\ UNCHANGED <<strategies, isAdmin, strategyPage, strategyDialog, strategiesSent>>
      /\ strategyMoves' \in 0 .. MaxStrategyMoves
  BY StrategiesAssumption DEF StrategyFails, StrategiesInv, StrategiesTypeOK
<1>2. /\ failed \in StrategyCallSet /\ failed.answer = "error" /\ failed.sent = c.sent
      /\ failed.n = c.n /\ failed.kind = c.kind /\ failed.id = c.id /\ failed.mine = c.mine
      /\ failed.from = c.from
  <2>1. NoTitle \in Titles
    BY StrategiesAssumption DEF NoTitle
  <2>2. NoStrategies \in StrategyRows
    BY <2>1 DEF NoStrategies, NoStrategy, StrategyRows, Strategy, Statuses
  <2> QED
    BY <1>0, <2>2 DEF StrategyCallSet
<1> HIDE DEF failed
<1>3. /\ strategyHistory'.served = strategyHistory.served
      /\ strategyHistory'.seen = strategyHistory.seen
      /\ ~strategyHistory'.astray =>
           ~strategyHistory.astray /\ ~(c.answer = "ok" /\ c.kind \in StrategyChanges)
      /\ strategyHistory' \in [served : 0 .. MaxStrategyCalls, seen : 0 .. MaxStrategyCalls,
                               astray : BOOLEAN]
  <2>1. strategyHistory \in [served : 0 .. MaxStrategyCalls, seen : 0 .. MaxStrategyCalls,
                             astray : BOOLEAN]
    BY DEF StrategiesInv, StrategiesTypeOK
  <2>2. PICK b \in BOOLEAN : /\ strategyHistory' = [strategyHistory EXCEPT !.astray = b]
                             /\ b = (strategyHistory.astray \/
                                      (c.answer = "ok" /\ c.kind \in StrategyChanges))
    BY <1>1, <2>1
  <2> QED
    BY <2>1, <2>2
<1>4. strategyCalls' \in SUBSET StrategyCallSet
  BY <1>0, <1>1, <1>2
<1>5. StrategiesTypeOK'
  BY <1>1, <1>3, <1>4, Zenon DEF StrategiesInv, StrategiesTypeOK
<1>6. RequestsKept(strategyCalls', strategyPage', strategiesSent', strategyHistory'.served)
  <2>1. RequestKept(failed, strategyPage, strategiesSent, strategyHistory.served)
    BY <1>0, <1>2 DEF RequestsKept, RequestKept
  <2> QED
    BY <1>0, <1>1, <1>2, <1>3, <2>1 DEF RequestsKept
<1>7. /\ \A d \in strategyCalls' : d.answer = "ok" => d \in strategyCalls
      /\ \A d \in strategyCalls : d = c \/ d \in strategyCalls'
      /\ \A d : SameAnswer(d, d)
  BY <1>1, <1>2 DEF SameAnswer
<1>8. DeletionKept(strategyCalls', strategies')
  BY <1>0, <1>1, <1>7, DeletionRemains
<1>9. ASSUME ~strategyHistory'.astray
      PROVE  /\ AnswersCurrent(strategyCalls', strategies', strategyHistory'.seen)
             /\ PageCurrent(strategyPage', strategyCalls', strategies', strategyHistory'.seen)
             /\ LeftoversAreGone(strategyPage', strategyCalls', strategyDialog', strategies')
  <2>0. /\ AnswersCurrent(strategyCalls, strategies, strategyHistory.seen)
        /\ PageCurrent(strategyPage, strategyCalls, strategies, strategyHistory.seen)
        /\ LeftoversAreGone(strategyPage, strategyCalls, strategyDialog, strategies)
    BY <1>3, <1>9 DEF StrategiesInv
  <2>1. /\ \A d \in strategyCalls' : d.answer = "ok" =>
             \E e \in strategyCalls : SameAnswer(d, e) /\ (d.mine => e.mine)
        /\ \A d \in strategyCalls : d.answer = "ok" /\ d.kind \in Moving =>
             \E e \in strategyCalls' : SameAnswer(e, d)
    BY <1>3, <1>7, <1>9 DEF Moving
  <2>2. AnswersCurrent(strategyCalls', strategies, strategyHistory.seen)
    BY <1>0, <1>4, <2>0, <2>1, AnswersRemain
  <2>3. PageCurrent(strategyPage, strategyCalls', strategies, strategyHistory.seen)
    BY <1>0, <2>0, <2>1, PageRemains
  <2>4. LeftoversAreGone(strategyPage, strategyCalls', strategyDialog, strategies)
    BY <1>1, <1>2, <2>0 DEF LeftoversAreGone
  <2> QED
    BY <1>1, <1>3, <2>2, <2>3, <2>4
<1> QED
  BY <1>0, <1>1, <1>3, <1>5, <1>6, <1>8, <1>9 DEF StrategiesInv

\* What the history makes of an answer.
LEMMA HeardIs ==
  ASSUME StrategiesInv, NEW c \in strategyCalls, Heard(c)
  PROVE  /\ strategyHistory' \in [served : 0 .. MaxStrategyCalls, seen : 0 .. MaxStrategyCalls,
                                  astray : BOOLEAN]
         /\ strategyHistory'.served = strategyHistory.served
         /\ strategyHistory.seen \in Nat /\ strategyHistory'.seen \in Nat
         /\ strategyHistory.seen <= strategyHistory'.seen
         /\ strategyHistory'.seen <= strategyHistory'.served
         /\ c.mine => c.n <= strategyHistory'.seen
         /\ ~strategyHistory'.astray =>
              /\ ~strategyHistory.astray
              /\ c.answer = "ok" /\ c.kind \in StrategyChanges =>
                   c.mine /\ strategyHistory.seen <= c.n
              /\ c.kind = "lists" => c.answer # "error"
<1>1. /\ strategyHistory \in [served : 0 .. MaxStrategyCalls, seen : 0 .. MaxStrategyCalls,
                              astray : BOOLEAN]
      /\ strategyHistory.seen <= strategyHistory.served
      /\ c.n <= strategyHistory.served /\ c.n \in 0 .. MaxStrategyCalls
  BY DEF StrategiesInv, StrategiesTypeOK, RequestsKept, RequestKept, StrategyCallSet
<1> DEFINE seen == IF c.mine /\ c.n > strategyHistory.seen THEN c.n ELSE strategyHistory.seen
           wrong == \/ strategyHistory.astray
                    \/ /\ c.answer = "ok" /\ c.kind \in StrategyChanges
                       /\ ~c.mine \/ c.n < strategyHistory.seen
                    \/ c.answer = "error" /\ c.kind = "lists"
<1>2. strategyHistory' = [strategyHistory EXCEPT !.astray = wrong, !.seen = seen]
  BY DEF Heard
<1>3. seen \in 0 .. MaxStrategyCalls /\ strategyHistory.seen <= seen
        /\ seen <= strategyHistory.served /\ (c.mine => c.n <= seen)
  BY <1>1, StrategiesAssumption
<1>4. wrong \in BOOLEAN
  BY <1>1
<1>5. ~wrong => /\ ~strategyHistory.astray
                /\ c.answer = "ok" /\ c.kind \in StrategyChanges =>
                     c.mine /\ strategyHistory.seen <= c.n
                /\ c.kind = "lists" => c.answer # "error"
  BY <1>1, StrategiesAssumption
<1> HIDE DEF seen, wrong
<1>6. /\ strategyHistory'.served = strategyHistory.served /\ strategyHistory'.seen = seen
      /\ strategyHistory'.astray = wrong
      /\ strategyHistory' \in [served : 0 .. MaxStrategyCalls, seen : 0 .. MaxStrategyCalls,
                               astray : BOOLEAN]
  BY <1>1, <1>2, <1>3, <1>4
<1> QED
  BY <1>1, <1>3, <1>5, <1>6

\* The page stays when c is answered; only what it asked for at first ends its loading.
Stays(page, after, c) ==
  /\ after \in StrategyPagesSet /\ after.view = page.view /\ after.id = page.id
  /\ after.loading => page.loading
  /\ page.loading /\ ~after.loading => c.mine /\ c.kind \in Opening
  /\ after.editing => page.editing
  /\ page.view # "list" \/ after.loading =>
       after.adminPendingStrategies \subseteq page.adminPendingStrategies

\* An answer to the page that stays, apart from what it shows.
\* The answer to c is taken, and followed by the request for the lists if it was the user's.
Followed(calls, later, c, added, page) ==
  /\ later = (calls \ {c}) \cup added
  /\ \A d \in added : d.kind = "lists" /\ d.id = "none" /\ c.mine /\ c.kind = "user" /\ page.loading

LEMMA AnsweredKept ==
  ASSUME StrategiesInv, NEW c \in strategyCalls, c.answer # "none", Heard(c),
         UNCHANGED <<strategies, isAdmin, strategyDialog, strategyMoves>>,
         strategiesSent' \in 0 .. MaxStrategyCalls, Stays(strategyPage, strategyPage', c),
         NEW added, Followed(strategyCalls, strategyCalls', c, added, strategyPage'),
         Latest(added, strategiesSent, strategiesSent'),
         ~strategyHistory'.astray =>
           PageCurrent(strategyPage', strategyCalls', strategies', strategyHistory'.seen)
  PROVE  StrategiesInv'
<1>0. /\ strategyCalls \in SUBSET StrategyCallSet /\ strategiesSent \in Nat
      /\ strategiesSent' \in Nat
      /\ \A d \in strategyCalls : d.sent \in Nat
      /\ RequestsKept(strategyCalls, strategyPage, strategiesSent, strategyHistory.served)
      /\ DeletionKept(strategyCalls, strategies) /\ PageKept(strategyPage, strategyDialog)
  BY StrategiesAre DEF StrategiesInv
<1>a. /\ strategyPage' \in StrategyPagesSet
      /\ strategyPage'.view = strategyPage.view /\ strategyPage'.id = strategyPage.id
      /\ strategyPage'.loading => strategyPage.loading
      /\ strategyPage.loading /\ ~strategyPage'.loading => c.mine /\ c.kind \in Opening
      /\ strategyPage'.editing => strategyPage.editing
      /\ strategyPage.view # "list" \/ strategyPage'.loading =>
           strategyPage'.adminPendingStrategies \subseteq strategyPage.adminPendingStrategies
  BY DEF Stays
<1>b. /\ strategyCalls' = (strategyCalls \ {c}) \cup added
      /\ \A d \in added : d.kind = "lists" /\ d.id = "none" /\ c.mine /\ c.kind = "user"
                         /\ strategyPage'.loading
  BY DEF Followed
<1>1. strategyCalls' \in SUBSET StrategyCallSet
  BY <1>0, <1>b DEF Latest
<1>2. StrategiesTypeOK'
  BY <1>1, <1>a, HeardIs, Zenon DEF StrategiesInv, StrategiesTypeOK
<1>3. strategyHistory'.served = strategyHistory.served
  BY HeardIs
<1>4. strategyPage.loading /\ ~strategyPage'.loading =>
        \A d \in strategyCalls \ {c} : ~(d.mine /\ d.kind \in Opening)
  BY <1>0, <1>a DEF RequestsKept
<1>5. RequestsKept(strategyCalls', strategyPage', strategiesSent', strategyHistory'.served)
  <2>1. ASSUME NEW d \in strategyCalls \ {c}
        PROVE  /\ d.sent <= strategiesSent
               /\ RequestKept(d, strategyPage', strategiesSent', strategyHistory.served)
    <3>1. RequestKept(d, strategyPage, strategiesSent, strategyHistory.served)
      BY <1>0 DEF RequestsKept
    <3>2. strategiesSent <= strategiesSent'
      BY DEF Latest
    <3>3. d.mine /\ d.kind \in Opening /\ strategyPage.loading => strategyPage'.loading
      BY <1>4
    <3> QED
      BY <1>0, <1>a, <3>1, <3>2, <3>3 DEF RequestKept, Opening
  <2>2. ASSUME NEW d \in added
        PROVE  RequestKept(d, strategyPage', strategiesSent', strategyHistory.served)
    <3>1. strategyPage.view = "list" /\ strategyHistory.served \in Nat
      BY <1>0, <1>a, <1>b, StrategiesAre DEF RequestsKept, RequestKept, StrategiesInv
    <3>2. d.sent <= strategiesSent' /\ d.n = 0
      BY DEF Latest
    <3> QED
      BY <1>a, <1>b, <3>1, <3>2 DEF RequestKept, StrategyChanges
  <2>3. \A d \in strategyCalls \ {c}, e \in added : d.sent # e.sent
    BY <1>0, <2>1 DEF Latest, StrategyCallSet
  <2>4. \A d, e \in strategyCalls' : d.sent = e.sent => d = e
    BY <1>0, <1>b, <2>3 DEF RequestsKept, Latest
  <2>5. \A d, e \in strategyCalls' :
          d.mine /\ e.mine /\ d.kind \in Opening /\ e.kind \in Opening => d = e
    <3>1. \A d \in strategyCalls \ {c}, e \in added : ~(d.mine /\ d.kind \in Opening)
      BY <1>0, <1>b DEF RequestsKept, Opening
    <3> QED
      BY <1>0, <1>b, <3>1 DEF RequestsKept, Latest
  <2> QED
    BY <1>3, <1>b, <2>1, <2>2, <2>4, <2>5 DEF RequestsKept
<1>6. PageKept(strategyPage', strategyDialog')
  BY <1>0, <1>a DEF PageKept
<1>7. /\ \A d \in strategyCalls' : d.answer = "ok" => d \in strategyCalls
      /\ \A d \in strategyCalls : d = c \/ d \in strategyCalls'
      /\ \A d : SameAnswer(d, d)
  BY <1>b DEF SameAnswer, Latest
<1>8. DeletionKept(strategyCalls', strategies')
  BY <1>0, <1>7, DeletionRemains
<1>9. ASSUME ~strategyHistory'.astray
      PROVE  /\ AnswersCurrent(strategyCalls', strategies', strategyHistory'.seen)
             /\ LeftoversAreGone(strategyPage', strategyCalls', strategyDialog', strategies')
  <2>0. /\ AnswersCurrent(strategyCalls, strategies, strategyHistory.seen)
        /\ LeftoversAreGone(strategyPage, strategyCalls, strategyDialog, strategies)
    BY <1>9, HeardIs DEF StrategiesInv
  <2>1. /\ strategyHistory.seen \in Nat /\ strategyHistory'.seen \in Nat
        /\ strategyHistory.seen <= strategyHistory'.seen
        /\ c.answer = "ok" /\ c.kind \in Moving => c.mine /\ c.n <= strategyHistory'.seen
    BY <1>9, HeardIs DEF Moving
  <2>2. /\ \A d \in strategyCalls' : d.answer = "ok" =>
             \E e \in strategyCalls : SameAnswer(d, e) /\ (d.mine => e.mine)
        /\ \A d \in strategyCalls : d.answer = "ok" /\ d.kind \in Moving =>
             d.n <= strategyHistory'.seen \/ \E e \in strategyCalls' : SameAnswer(e, d)
    BY <1>7, <2>1
  <2>3. \/ \A d \in strategyCalls : d.answer = "ok" /\ d.kind \in Moving =>
             \E e \in strategyCalls' : SameAnswer(e, d)
        \/ \A d \in strategyCalls' : d.mine /\ d.kind \in Opening => d.answer # "ok"
    <3>1. CASE c.answer = "ok" /\ c.kind \in Moving
      <4>1. ~strategyPage.loading
        BY <2>0, <2>1, <3>1 DEF LeftoversAreGone
      <4>2. \A d \in strategyCalls : ~(d.mine /\ d.kind \in Opening)
        BY <1>0, <4>1 DEF RequestsKept, RequestKept, Opening
      <4> QED
        BY <1>7, <4>2
    <3>2. CASE ~(c.answer = "ok" /\ c.kind \in Moving)
      BY <1>7, <3>2
    <3> QED
      BY <3>1, <3>2
  <2>4. AnswersCurrent(strategyCalls', strategies, strategyHistory'.seen)
    <3>1. AnswersCurrent(strategyCalls, strategies, strategyHistory.seen)
      BY <2>0
    <3>2. strategyCalls \in SUBSET StrategyCallSet /\ strategyCalls' \in SUBSET StrategyCallSet
      BY <1>0, <1>1
    <3>3. /\ \A d \in strategyCalls' : d.answer = "ok" =>
               \E e \in strategyCalls : SameAnswer(d, e) /\ (d.mine => e.mine)
      BY <2>2
    <3>4. \A d \in strategyCalls : d.answer = "ok" /\ d.kind \in Moving =>
             d.n <= strategyHistory'.seen \/ \E e \in strategyCalls' : SameAnswer(e, d)
      BY <2>2
    <3>5. /\ strategyHistory.seen \in Nat /\ strategyHistory'.seen \in Nat
          /\ strategyHistory.seen <= strategyHistory'.seen
      BY <2>1
    <3>6. CASE \A d \in strategyCalls : d.answer = "ok" /\ d.kind \in Moving =>
                 \E e \in strategyCalls' : SameAnswer(e, d)
      BY <3>1, <3>2, <3>3, <3>4, <3>5, <3>6, AnswersRemain
    <3>7. CASE \A d \in strategyCalls' : d.mine /\ d.kind \in Opening => d.answer # "ok"
      BY <3>1, <3>2, <3>3, <3>4, <3>5, <3>7, AnswersRemain, ZenonT(30)
    <3> QED
      BY <2>3, <3>6, <3>7
  <2>5. LeftoversAreGone(strategyPage', strategyCalls', strategyDialog, strategies)
    BY <1>a, <1>b, <2>0 DEF LeftoversAreGone, Latest, Moving, StrategyChanges
  <2> QED
    BY <2>4, <2>5
<1>10. strategyHistory'.seen <= strategyHistory'.served
  BY HeardIs
<1> QED
  BY <1>2, <1>5, <1>6, <1>8, <1>9, <1>10 DEF StrategiesInv

\* An answer that is heard and shows nothing: it says nothing new, or the page was left.
LEMMA UnshownKept ==
  ASSUME StrategiesInv, NEW c \in strategyCalls, c.answer # "none", Heard(c), Done(c),
         UNCHANGED <<strategies, isAdmin, strategyDialog, strategyMoves>>,
         strategyPage' \in StrategyPagesSet,
         strategyPage'.view = strategyPage.view, strategyPage'.id = strategyPage.id,
         strategyPage'.loading = strategyPage.loading,
         strategyPage'.editing = strategyPage.editing,
         strategyPage'.strategies = strategyPage.strategies,
         strategyPage'.adminPendingStrategies = strategyPage.adminPendingStrategies,
         c.answer = "ok" /\ c.kind \in Moving => ~c.mine
  PROVE  StrategiesInv'
<1>1. /\ strategyCalls' = (strategyCalls \ {c}) \cup {}
      /\ Latest({}, strategiesSent, strategiesSent') /\ strategiesSent' \in 0 .. MaxStrategyCalls
  BY NothingAdded DEF Done
<1>2. ASSUME ~strategyHistory'.astray
      PROVE  PageCurrent(strategyPage', strategyCalls', strategies', strategyHistory'.seen)
  <2>1. /\ strategyCalls \in SUBSET StrategyCallSet
        /\ strategyHistory.seen \in Nat /\ strategyHistory'.seen \in Nat
        /\ strategyHistory.seen <= strategyHistory'.seen
        /\ PageCurrent(strategyPage, strategyCalls, strategies, strategyHistory.seen)
    BY <1>2, HeardIs, StrategiesAre DEF StrategiesInv
  <2>2. ~(c.answer = "ok" /\ c.kind \in Moving)
    BY <1>2, HeardIs DEF Moving
  <2>3. /\ \A d \in strategyCalls' : d.answer = "ok" =>
             \E e \in strategyCalls : SameAnswer(d, e)
        /\ \A d \in strategyCalls : d.answer = "ok" /\ d.kind \in Moving =>
             \E e \in strategyCalls' : SameAnswer(e, d)
    BY <1>1, <2>2 DEF SameAnswer
  <2>4. PageCurrent(strategyPage', strategyCalls', strategies, strategyHistory'.seen)
    BY <2>1, <2>3, PageRemains
  <2> QED
    BY <2>4
<1>3. /\ Stays(strategyPage, strategyPage', c)
      /\ Followed(strategyCalls, strategyCalls', c, {}, strategyPage')
  BY <1>1 DEF Stays, Followed
<1> QED
  BY <1>1, <1>2, <1>3, AnsweredKept

LEMMA UserAnsweredKept ==
  ASSUME StrategiesInv, NEW c \in strategyCalls, c.answer # "none", Heard(c),
         UNCHANGED <<strategies, isAdmin, strategyDialog, strategyMoves>>,
         UserAnswered(c)
  PROVE  StrategiesInv'
<1>0. /\ StrategiesTypeOK /\ strategyPage \in StrategyPagesSet /\ NoTitle \in Titles
      /\ RequestKept(c, strategyPage, strategiesSent, strategyHistory.served)
      /\ PageKept(strategyPage, strategyDialog) /\ c.kind = "user"
  BY StrategiesAre, StrategiesAssumption
     DEF StrategiesInv, RequestsKept, NoTitle, UserAnswered
<1>1. CASE ~c.mine
  <2>1. Done(c) /\ UNCHANGED strategyPage
    BY <1>1 DEF UserAnswered
  <2> QED
    BY <1>0, <1>1, <2>1, UnshownKept
<1>2. CASE c.mine
  <2>1. /\ strategyPage' = [strategyPage EXCEPT !.known = c.answer = "ok"]
        /\ SendStrategy("lists", "none", NoTitle, strategyCalls \ {c})
    BY <1>2 DEF UserAnswered
  <2>2. strategyPage.loading /\ strategyPage.view = "list"
    BY <1>0, <1>2 DEF RequestKept
  <2>3. "lists" \in StrategyKinds /\ "none" \in Strategies \cup {"none"}
    BY DEF StrategyKinds
  <2>4. PICK new \in StrategyCallSet :
          /\ strategyCalls' = (strategyCalls \ {c}) \cup {new}
          /\ strategiesSent' = strategiesSent + 1 /\ strategiesSent' \in 0 .. MaxStrategyCalls
          /\ new.sent = strategiesSent' /\ new.answer = "none" /\ new.mine /\ new.n = 0
          /\ new.kind = "lists" /\ new.id = "none"
    BY <1>0, <2>1, <2>3, SendStrategyIs
  <2>5. Latest({new}, strategiesSent, strategiesSent')
    BY <2>4, OneAdded
  <2>6. /\ strategyPage' \in StrategyPagesSet
        /\ strategyPage'.view = strategyPage.view /\ strategyPage'.id = strategyPage.id
        /\ strategyPage'.loading = strategyPage.loading
        /\ strategyPage'.editing = strategyPage.editing
        /\ strategyPage'.adminPendingStrategies = strategyPage.adminPendingStrategies
    BY <1>0, <2>1 DEF StrategyPagesSet
  <2>7. PageCurrent(strategyPage', strategyCalls', strategies', strategyHistory'.seen)
    BY <1>0, <2>2, <2>6 DEF PageCurrent, PageKept
  <2>8. \A d \in {new} : d.kind = "lists" /\ d.id = "none" /\ c.mine /\ c.kind = "user"
                           /\ strategyPage'.loading
    BY <1>0, <1>2, <2>2, <2>4, <2>6
  <2>9. /\ Stays(strategyPage, strategyPage', c)
        /\ Followed(strategyCalls, strategyCalls', c, {new}, strategyPage')
    BY <2>4, <2>6, <2>8 DEF Stays, Followed
  <2> QED
    BY <2>4, <2>5, <2>7, <2>9, AnsweredKept
<1> QED
  BY <1>1, <1>2

\* What a page loads is what is stored, as far as nothing is changed at the same time.
LEMMA LoadedIsCurrent ==
  ASSUME StrategiesInv, NEW c \in strategyCalls, c.answer = "ok", c.mine,
         c.kind \in {"lists", "get"},
         Heard(c), ~strategyHistory'.astray, NEW calls, calls = strategyCalls \ {c},
         NEW s \in Strategies
  PROVE  /\ ~Underway(calls, s) => Alike(c.rows[s], strategies[s])
         /\ Gone(c.rows[s]) => Gone(strategies[s])
         /\ \A d \in calls :
              Gone(c.rows[s]) /\ Moved(d, s) /\ d.kind # "delete" => d.n < strategyHistory'.seen
<1>1. /\ AnswersCurrent(strategyCalls, strategies, strategyHistory.seen)
      /\ DeletionKept(strategyCalls, strategies)
      /\ c.n <= strategyHistory'.seen /\ strategyHistory'.seen \in Nat
      /\ \A d \in strategyCalls : d.n \in Nat
  BY HeardIs, StrategiesAre DEF StrategiesInv
<1>2. ~Underway(calls, s) => ~Underway(strategyCalls, s)
  BY DEF Underway, Moved, Moving, StrategyChanges
<1>3. ~Underway(calls, s) => Alike(c.rows[s], strategies[s])
  BY <1>1, <1>2 DEF AnswersCurrent, Opening
<1>4. Gone(c.rows[s]) => Gone(strategies[s])
  BY <1>1 DEF DeletionKept
<1>5. ASSUME NEW d \in calls, Gone(c.rows[s]), Moved(d, s), d.kind # "delete"
      PROVE  d.n < strategyHistory'.seen
  <2>1. d.n < c.n
    BY <1>1, <1>5 DEF DeletionKept
  <2> QED
    BY <1>1, <2>1
<1> QED
  BY <1>3, <1>4, <1>5

LEMMA ListsLoadedKept ==
  ASSUME StrategiesInv, NEW c \in strategyCalls, c.answer # "none", Heard(c),
         UNCHANGED <<strategies, isAdmin, strategyDialog, strategyMoves>>,
         ListsLoaded(c)
  PROVE  StrategiesInv'
<1>0. /\ strategyPage \in StrategyPagesSet /\ c \in StrategyCallSet /\ NoTitle \in Titles
      /\ RequestKept(c, strategyPage, strategiesSent, strategyHistory.served)
      /\ c.kind = "lists" /\ Done(c)
  BY StrategiesAre, StrategiesAssumption
     DEF StrategiesInv, RequestsKept, NoTitle, ListsLoaded
<1>1. CASE ~c.mine
  <2>1. UNCHANGED strategyPage
    BY <1>1 DEF ListsLoaded
  <2> QED
    BY <1>0, <1>1, <2>1, UnshownKept
<1>2. CASE c.mine
  <2> DEFINE shown == [s \in Strategies |-> IF s \in MyStrategies THEN c.rows[s] ELSE NoStrategy]
  <2>1. PICK queue \in {{}, {s \in Strategies : c.rows[s].publication_status = "pending_review"}} :
          strategyPage' = [strategyPage EXCEPT !.loading = FALSE, !.strategies = shown,
                                               !.adminPendingStrategies = queue]
    BY <1>2 DEF ListsLoaded
  <2>2. strategyPage.loading /\ strategyPage.view = "list"
    BY <1>0, <1>2 DEF RequestKept
  <2>3. shown \in StrategyRows
    <3>1. NoStrategy \in Strategy /\ c.rows \in [Strategies -> Strategy]
      BY <1>0 DEF NoStrategy, Strategy, Statuses, StrategyCallSet, StrategyRows
    <3> QED
      BY <3>1 DEF StrategyRows
  <2>4. \A s \in MyStrategies : shown[s] = c.rows[s] /\ s \in Strategies
    BY StrategiesAssumption
  <2> HIDE DEF shown
  <2>5. queue \in SUBSET Strategies
    OBVIOUS
  <2>6. /\ strategyPage' \in StrategyPagesSet
        /\ strategyPage'.view = strategyPage.view /\ strategyPage'.id = strategyPage.id
        /\ ~strategyPage'.loading /\ strategyPage'.editing = strategyPage.editing
        /\ strategyPage'.strategies = shown /\ strategyPage'.adminPendingStrategies = queue
    BY <1>0, <2>1, <2>3, <2>5 DEF StrategyPagesSet
  <2>7. /\ strategyCalls' = (strategyCalls \ {c}) \cup {}
        /\ Latest({}, strategiesSent, strategiesSent') /\ strategiesSent' \in 0 .. MaxStrategyCalls
    BY <1>0, NothingAdded DEF Done
  <2>8. ASSUME ~strategyHistory'.astray
        PROVE  PageCurrent(strategyPage', strategyCalls', strategies', strategyHistory'.seen)
    <3>1. c.answer = "ok" /\ strategyCalls' = strategyCalls \ {c}
      <4>1. c.answer # "error"
        BY <1>0, <2>8, HeardIs
      <4> QED
        BY <1>0, <2>7, <4>1 DEF StrategyCallSet
    <3>2. ASSUME NEW s \in Strategies
          PROVE  /\ ~Underway(strategyCalls', s) => Alike(c.rows[s], strategies[s])
                 /\ Gone(c.rows[s]) => Gone(strategies[s])
                 /\ \A d \in strategyCalls' : Gone(c.rows[s]) /\ Moved(d, s) /\ d.kind # "delete"
                      => d.n < strategyHistory'.seen
      BY <1>0, <1>2, <2>8, <3>1, LoadedIsCurrent
    <3>3. ASSUME NEW s \in queue, ~Underway(strategyCalls', s)
          PROVE  strategies[s].publication_status = "pending_review"
      <4>1. s \in Strategies /\ c.rows[s].publication_status = "pending_review"
        OBVIOUS
      <4> QED
        BY <3>2, <3>3, <4>1 DEF Alike
    <3>4. Relevant(strategyPage') = MyStrategies
      BY <2>2, <2>6 DEF Relevant
    <3>5. \A s \in MyStrategies : strategyPage'.strategies[s] = c.rows[s] /\ s \in Strategies
      BY <2>4, <2>6
    <3>6. \A s \in strategyPage'.adminPendingStrategies :
            ~Underway(strategyCalls', s) => strategies'[s].publication_status = "pending_review"
      BY <2>6, <3>3
    <3>7. \A s \in Relevant(strategyPage') :
            /\ ~Underway(strategyCalls', s) => Alike(strategyPage'.strategies[s], strategies'[s])
            /\ Gone(strategyPage'.strategies[s]) => Gone(strategies'[s])
            /\ \A d \in strategyCalls' :
                 Gone(strategyPage'.strategies[s]) /\ Moved(d, s) /\ d.kind # "delete"
                   => d.n < strategyHistory'.seen
      BY <3>2, <3>4, <3>5
    <3> QED
      BY <3>6, <3>7 DEF PageCurrent
  <2>9. /\ Stays(strategyPage, strategyPage', c)
        /\ Followed(strategyCalls, strategyCalls', c, {}, strategyPage')
    BY <1>0, <1>2, <2>2, <2>6, <2>7 DEF Stays, Opening, Followed
  <2> QED
    BY <2>7, <2>8, <2>9, AnsweredKept
<1> QED
  BY <1>1, <1>2

\* Elsewhere.
LEMMA ElsewhereKept ==
  ASSUME StrategiesInv, NEW c \in strategyCalls, Heard(c), c.kind \notin Moving,
         UNCHANGED <<strategies, isAdmin, strategyDialog, strategyMoves>>,
         ToElsewhere(strategyCalls \ {c})
  PROVE  StrategiesInv'
<1>1. PICK known \in BOOLEAN : strategyPage' = NewPage("other", "none", known)
  BY Zenon DEF ToElsewhere
<1>2. /\ strategyCalls' = Abandoned(strategyCalls \ {c}) \cup {}
      /\ Latest({}, strategiesSent, strategiesSent') /\ strategiesSent' \in 0 .. MaxStrategyCalls
  BY NothingAdded DEF ToElsewhere
<1>3. /\ "other" \in Views /\ "none" \in Strategies \cup {"none"} /\ "other" # "detail"
      /\ strategyDialog' \in Questions /\ strategyMoves' \in 0 .. MaxStrategyMoves
      /\ strategyCalls \ {c} \in SUBSET strategyCalls
  BY DEF Views, StrategiesInv, StrategiesTypeOK
<1>4. \A d \in strategyCalls \ (strategyCalls \ {c}) :
        d.answer = "ok" /\ d.kind \in Moving => d.n <= strategyHistory'.seen
  OBVIOUS
<1> QED
  BY <1>1, <1>2, <1>3, <1>4, HeardIs, OpenedKept

LEMMA StrategyLoadedKept ==
  ASSUME StrategiesInv, NEW c \in strategyCalls, c.answer # "none", Heard(c),
         UNCHANGED <<strategies, isAdmin, strategyDialog, strategyMoves>>,
         StrategyLoaded(c)
  PROVE  StrategiesInv'
<1>0. /\ strategyPage \in StrategyPagesSet /\ c \in StrategyCallSet
      /\ RequestKept(c, strategyPage, strategiesSent, strategyHistory.served)
      /\ PageKept(strategyPage, strategyDialog) /\ c.kind = "get" /\ c.kind \notin Moving
  BY StrategiesAre DEF StrategiesInv, RequestsKept, StrategyLoaded, Moving, StrategyChanges
<1>1. CASE c.answer = "error" /\ ToElsewhere(strategyCalls \ {c})
  BY <1>0, <1>1, ElsewhereKept
<1>2. CASE c.answer = "ok" /\ Done(c) /\ ~c.mine
  <2>1. UNCHANGED strategyPage
    BY <1>2 DEF StrategyLoaded
  <2> QED
    BY <1>0, <1>2, <2>1, UnshownKept
<1>3. CASE c.answer = "ok" /\ Done(c) /\ c.mine
  <2> DEFINE page == [strategyPage EXCEPT !.strategies[c.id] = c.rows[c.id], !.loading = FALSE]
  <2>1. strategyPage' = ResetMetadataDrafts(page)
    BY <1>3 DEF StrategyLoaded
  <2>2. /\ strategyPage.loading /\ strategyPage.view = "detail" /\ c.id = strategyPage.id
        /\ c.id \in Strategies /\ c.rows \in StrategyRows
        /\ strategyPage.strategies \in StrategyRows
        /\ strategyPage.adminPendingStrategies = {}
    BY <1>0, <1>3, StrategiesAssumption
       DEF RequestKept, StrategyCallSet, StrategyPagesSet, PageKept
  <2>3. /\ page \in StrategyPagesSet /\ page.view = strategyPage.view /\ page.id = strategyPage.id
        /\ ~page.loading /\ page.editing = strategyPage.editing
        /\ page.strategies[c.id] = c.rows[c.id]
        /\ page.adminPendingStrategies = strategyPage.adminPendingStrategies
    BY <1>0, <2>2 DEF StrategyPagesSet, StrategyRows
  <2> HIDE DEF page
  <2>4. /\ strategyPage' \in StrategyPagesSet
        /\ strategyPage'.view = strategyPage.view /\ strategyPage'.id = strategyPage.id
        /\ ~strategyPage'.loading /\ strategyPage'.editing = strategyPage.editing
        /\ strategyPage'.strategies[c.id] = c.rows[c.id]
        /\ strategyPage'.adminPendingStrategies = strategyPage.adminPendingStrategies
    BY <2>1, <2>3, DraftsReset
  <2>5. /\ strategyCalls' = (strategyCalls \ {c}) \cup {}
        /\ Latest({}, strategiesSent, strategiesSent') /\ strategiesSent' \in 0 .. MaxStrategyCalls
    BY <1>3, NothingAdded DEF Done
  <2>6. ASSUME ~strategyHistory'.astray
        PROVE  PageCurrent(strategyPage', strategyCalls', strategies', strategyHistory'.seen)
    <3>1. /\ ~Underway(strategyCalls', c.id) => Alike(c.rows[c.id], strategies[c.id])
          /\ Gone(c.rows[c.id]) => Gone(strategies[c.id])
          /\ \A d \in strategyCalls' : Gone(c.rows[c.id]) /\ Moved(d, c.id) /\ d.kind # "delete"
               => d.n < strategyHistory'.seen
      <4>1. strategyCalls' = strategyCalls \ {c}
        BY <2>5
      <4> QED
        BY <1>0, <1>3, <2>2, <2>6, <4>1, LoadedIsCurrent
    <3>2. Relevant(strategyPage') = {c.id}
      BY <2>2, <2>4 DEF Relevant
    <3>3. \A s \in Relevant(strategyPage') :
            /\ ~Underway(strategyCalls', s) => Alike(strategyPage'.strategies[s], strategies'[s])
            /\ Gone(strategyPage'.strategies[s]) => Gone(strategies'[s])
            /\ \A d \in strategyCalls' :
                 Gone(strategyPage'.strategies[s]) /\ Moved(d, s) /\ d.kind # "delete"
                   => d.n < strategyHistory'.seen
      BY <2>4, <3>1, <3>2
    <3> QED
      BY <2>2, <2>4, <3>3 DEF PageCurrent
  <2>7. /\ Stays(strategyPage, strategyPage', c)
        /\ Followed(strategyCalls, strategyCalls', c, {}, strategyPage')
    BY <1>0, <1>3, <2>2, <2>4, <2>5 DEF Stays, Opening, Followed
  <2> QED
    BY <2>5, <2>6, <2>7, AnsweredKept
<1> QED
  BY <1>1, <1>2, <1>3 DEF StrategyLoaded

LEMMA UsedKept ==
  ASSUME StrategiesInv, NEW c \in strategyCalls, c.answer # "none", Heard(c),
         UNCHANGED <<strategies, isAdmin, strategyDialog, strategyMoves>>, Used(c)
  PROVE  StrategiesInv'
<1>0. /\ strategyPage \in StrategyPagesSet /\ c.kind \notin Moving
  BY StrategiesAre DEF StrategiesInv, Used, Moving, StrategyChanges
<1>1. CASE ToElsewhere(strategyCalls \ {c})
  BY <1>0, <1>1, ElsewhereKept
<1>2. CASE Done(c) /\ UNCHANGED strategyPage
  BY <1>0, <1>2, UnshownKept
<1> QED
  BY <1>1, <1>2 DEF Used

\* What a page makes of the answer to a change of its own.
LEMMA AnswerShownIs ==
  ASSUME NEW c \in StrategyCallSet, c.id \in Strategies, strategyPage \in StrategyPagesSet,
         NEW page, page = AnswerShown(c)
  PROVE  /\ page \in StrategyPagesSet
         /\ page.view = strategyPage.view /\ page.id = strategyPage.id
         /\ page.loading = strategyPage.loading /\ (page.editing => strategyPage.editing)
         /\ \A s \in Strategies : s # c.id => page.strategies[s] = strategyPage.strategies[s]
         /\ \/ page.strategies[c.id] = c.rows[c.id] /\ c.kind # "vote"
            \/ Alike(page.strategies[c.id], strategyPage.strategies[c.id]) /\ c.kind = "vote"
            \/ /\ page.strategies[c.id] = strategyPage.strategies[c.id]
               /\ Gone(strategyPage.strategies[c.id])
               /\ strategyPage.view = "list" /\ c.kind \in {"approve", "reject"}
         /\ page.adminPendingStrategies \subseteq strategyPage.adminPendingStrategies
         /\ strategyPage.view = "list" /\ c.kind \in {"approve", "reject", "delete"} =>
              c.id \notin page.adminPendingStrategies
<1> DEFINE row == c.rows[c.id]
           replaced == [strategyPage EXCEPT !.strategies[c.id] = row]
           before == strategyPage.strategies[c.id]
<1>0. /\ row \in Strategy /\ before \in Strategy /\ row.has_voted \in BOOLEAN
      /\ strategyPage.strategies \in StrategyRows
      /\ strategyPage.adminPendingStrategies \in SUBSET Strategies
  BY DEF StrategyCallSet, StrategyRows, StrategyPagesSet, Strategy
<1>1. /\ replaced \in StrategyPagesSet
      /\ replaced.view = strategyPage.view /\ replaced.id = strategyPage.id
      /\ replaced.loading = strategyPage.loading /\ replaced.editing = strategyPage.editing
      /\ replaced.strategies[c.id] = row
      /\ \A s \in Strategies : s # c.id => replaced.strategies[s] = strategyPage.strategies[s]
      /\ replaced.adminPendingStrategies = strategyPage.adminPendingStrategies
  BY <1>0 DEF StrategyPagesSet, StrategyRows
<1>2. CASE strategyPage.view = "list" /\ c.kind = "delete"
  <2>1. page = [replaced EXCEPT !.adminPendingStrategies = @ \ {c.id}]
    BY <1>2 DEF AnswerShown
  <2> HIDE DEF replaced, row
  <2>2. strategyPage.adminPendingStrategies \ {c.id} \in SUBSET Strategies
    BY <1>0
  <2>3. /\ page \in StrategyPagesSet /\ page.view = replaced.view /\ page.id = replaced.id
        /\ page.loading = replaced.loading /\ page.editing = replaced.editing
        /\ page.strategies = replaced.strategies
        /\ page.adminPendingStrategies = strategyPage.adminPendingStrategies \ {c.id}
    BY <1>1, <2>1, <2>2 DEF StrategyPagesSet
  <2> QED
    BY <1>1, <1>2, <2>3 DEF row
<1>3. CASE strategyPage.view = "list" /\ c.kind \in {"approve", "reject"}
  <2> DEFINE shown == IF ShownStatus(c.id) = "deleted" THEN before ELSE row
             queue == strategyPage.adminPendingStrategies \ {c.id}
  <2>0. page = [strategyPage EXCEPT !.adminPendingStrategies = queue, !.strategies[c.id] = shown]
    <3>1. AnswerShown(c) =
            [strategyPage EXCEPT !.adminPendingStrategies = @ \ {c.id},
               !.strategies[c.id] = IF ShownStatus(c.id) = "deleted" THEN @ ELSE row]
      BY <1>3 DEF AnswerShown
    <3> QED
      BY <3>1 DEF StrategyPagesSet
  <2>1. /\ shown = row \/ (Gone(before) /\ shown = before)
        /\ queue \in SUBSET Strategies /\ queue \subseteq strategyPage.adminPendingStrategies
        /\ c.id \notin queue
    BY <1>0 DEF ShownStatus, Gone
  <2> HIDE DEF shown, queue
  <2> HIDE DEF replaced, row, before
  <2>2. shown \in Strategy
    BY <1>0, <2>1
  <2>3. /\ page \in StrategyPagesSet
        /\ page.view = strategyPage.view /\ page.id = strategyPage.id
        /\ page.loading = strategyPage.loading /\ page.editing = strategyPage.editing
        /\ page.strategies[c.id] = shown
        /\ \A s \in Strategies : s # c.id => page.strategies[s] = strategyPage.strategies[s]
        /\ page.adminPendingStrategies = queue
    <3> DEFINE rows == [strategyPage.strategies EXCEPT ![c.id] = shown]
    <3>1. /\ rows \in StrategyRows /\ rows[c.id] = shown
          /\ \A s \in Strategies : s # c.id => rows[s] = strategyPage.strategies[s]
      BY <1>0, <2>2 DEF StrategyRows
    <3>2. page = [strategyPage EXCEPT !.adminPendingStrategies = queue, !.strategies = rows]
      BY <2>0 DEF StrategyPagesSet
    <3> HIDE DEF rows
    <3> QED
      BY ZenonT(30), <2>1, <3>1, <3>2 DEF StrategyPagesSet
  <2> QED
    BY <1>3, <2>1, <2>3 DEF row, before
<1>4. CASE c.kind = "vote"
  <2>1. page = [strategyPage EXCEPT !.strategies[c.id].has_voted = row.has_voted]
    BY <1>4 DEF AnswerShown
  <2>2. /\ [before EXCEPT !.has_voted = row.has_voted] \in Strategy
        /\ Alike([before EXCEPT !.has_voted = row.has_voted], before)
    BY <1>0 DEF Strategy, Alike
  <2>3. page = [strategyPage EXCEPT
                               !.strategies[c.id] = [before EXCEPT !.has_voted = row.has_voted]]
    BY <2>1
  <2> DEFINE voted == [before EXCEPT !.has_voted = row.has_voted]
  <2> HIDE DEF voted
  <2>4. voted \in Strategy /\ Alike(voted, before)
        /\ page = [strategyPage EXCEPT !.strategies[c.id] = voted]
    BY <2>2, <2>3 DEF voted
  <2> HIDE DEF replaced, row
  <2> QED
    BY <1>0, <1>4, <2>4 DEF StrategyPagesSet, StrategyRows
<1>5. CASE c.kind = "update"
  <2> DEFINE saved == [replaced EXCEPT !.saving = FALSE, !.editing = FALSE]
  <2>1. page = ResetMetadataDrafts(saved)
    BY <1>5 DEF AnswerShown
  <2> HIDE DEF replaced, row
  <2>2. /\ saved \in StrategyPagesSet /\ saved.view = replaced.view /\ saved.id = replaced.id
        /\ saved.loading = replaced.loading /\ ~saved.editing
        /\ saved.strategies = replaced.strategies
        /\ saved.adminPendingStrategies = replaced.adminPendingStrategies
    BY <1>1 DEF StrategyPagesSet
  <2> HIDE DEF saved
  <2> QED
    BY <1>1, <1>5, <2>1, <2>2, DraftsReset DEF row
<1>6. CASE strategyPage.view # "list" /\ c.kind \in {"approve", "reject"}
  <2>1. page = [replaced EXCEPT !.reviewing = FALSE]
    BY <1>6 DEF AnswerShown
  <2> HIDE DEF replaced, row
  <2>2. /\ page \in StrategyPagesSet /\ page.view = replaced.view /\ page.id = replaced.id
        /\ page.loading = replaced.loading /\ page.editing = replaced.editing
        /\ page.strategies = replaced.strategies
        /\ page.adminPendingStrategies = replaced.adminPendingStrategies
    BY <1>1, <2>1 DEF StrategyPagesSet
  <2> QED
    BY <1>1, <1>6, <2>2 DEF row
<1>7. CASE /\ c.kind \notin {"vote", "update", "approve", "reject"}
           /\ ~(strategyPage.view = "list" /\ c.kind = "delete")
  <2>1. page = replaced
    BY <1>7 DEF AnswerShown
  <2> HIDE DEF replaced, row
  <2> QED
    BY <1>1, <1>7, <2>1 DEF row
<1> QED
  BY <1>2, <1>3, <1>4, <1>5, <1>6, <1>7

\* An answer the page makes a change from.
LEMMA AnswerShownKept ==
  ASSUME StrategiesInv, NEW c \in strategyCalls, Heard(c), Done(c),
         UNCHANGED <<strategies, isAdmin, strategyDialog, strategyMoves>>,
         c.kind \in StrategyChanges, c.mine, c.answer = "ok", strategyPage' = AnswerShown(c)
  PROVE  StrategiesInv'
<1>0. /\ strategyPage \in StrategyPagesSet /\ c \in StrategyCallSet /\ c.id \in Strategies
      /\ RequestKept(c, strategyPage, strategiesSent, strategyHistory.served)
      /\ PageKept(strategyPage, strategyDialog) /\ c.n \in Nat
  <2>1. /\ strategyPage \in StrategyPagesSet /\ c \in StrategyCallSet /\ c.n \in Nat
        /\ RequestKept(c, strategyPage, strategiesSent, strategyHistory.served)
        /\ PageKept(strategyPage, strategyDialog)
    BY StrategiesAre DEF StrategiesInv, RequestsKept
  <2>2. c.id # "none"
    BY <2>1 DEF RequestKept, StrategyChanges
  <2> QED
    BY <2>1, <2>2 DEF StrategyCallSet
<1>1. /\ strategyPage' \in StrategyPagesSet
      /\ strategyPage'.view = strategyPage.view /\ strategyPage'.id = strategyPage.id
      /\ strategyPage'.loading = strategyPage.loading
      /\ (strategyPage'.editing => strategyPage.editing)
      /\ \A s \in Strategies : s # c.id => strategyPage'.strategies[s] = strategyPage.strategies[s]
      /\ \/ strategyPage'.strategies[c.id] = c.rows[c.id] /\ c.kind # "vote"
         \/ Alike(strategyPage'.strategies[c.id], strategyPage.strategies[c.id]) /\ c.kind = "vote"
         \/ /\ strategyPage'.strategies[c.id] = strategyPage.strategies[c.id]
            /\ Gone(strategyPage.strategies[c.id])
            /\ strategyPage.view = "list" /\ c.kind \in {"approve", "reject"}
      /\ strategyPage'.adminPendingStrategies \subseteq strategyPage.adminPendingStrategies
      /\ strategyPage.view = "list" /\ c.kind \in {"approve", "reject", "delete"} =>
           c.id \notin strategyPage'.adminPendingStrategies
  BY <1>0, AnswerShownIs
<1>2. /\ strategyCalls' = (strategyCalls \ {c}) \cup {}
      /\ Latest({}, strategiesSent, strategiesSent') /\ strategiesSent' \in 0 .. MaxStrategyCalls
  BY NothingAdded DEF Done
<1>3. strategyPage'.adminPendingStrategies \subseteq strategyPage.adminPendingStrategies
  BY <1>1
<1>4. ASSUME ~strategyHistory'.astray
      PROVE  PageCurrent(strategyPage', strategyCalls', strategies', strategyHistory'.seen)
  <2>0. /\ AnswersCurrent(strategyCalls, strategies, strategyHistory.seen)
        /\ PageCurrent(strategyPage, strategyCalls, strategies, strategyHistory.seen)
        /\ LeftoversAreGone(strategyPage, strategyCalls, strategyDialog, strategies)
        /\ DeletionKept(strategyCalls, strategies)
        /\ strategyHistory.seen <= c.n /\ c.n <= strategyHistory'.seen
        /\ strategyHistory.seen \in Nat /\ strategyHistory'.seen \in Nat
        /\ \A d \in strategyCalls : d.n \in Nat
    BY <1>4, HeardIs, StrategiesAre DEF StrategiesInv
  <2>1. strategyCalls' = strategyCalls \ {c}
    BY <1>2
  <2>2. \A s : s # c.id \/ c.kind = "vote" =>
          (Underway(strategyCalls, s) => Underway(strategyCalls', s))
    BY <2>1 DEF Underway, Moved, Moving
  <2>3. ASSUME ~Underway(strategyCalls', c.id) PROVE ~Later(strategyCalls, c.id, c.n)
    <3> SUFFICES ASSUME NEW x \in strategyCalls, Moved(x, c.id), c.n < x.n PROVE FALSE
      BY DEF Later
    <3>1. x # c
      BY <1>0
    <3> QED
      BY <2>1, <2>3, <3>1 DEF Underway
  <2>4. ASSUME ~strategyPage'.loading, strategyPage'.view # "other",
               NEW s \in Relevant(strategyPage')
        PROVE  /\ ~Underway(strategyCalls', s) => Alike(strategyPage'.strategies[s], strategies'[s])
               /\ Gone(strategyPage'.strategies[s]) => Gone(strategies'[s])
               /\ \A d \in strategyCalls' :
                    Gone(strategyPage'.strategies[s]) /\ Moved(d, s) /\ d.kind # "delete"
                      => d.n < strategyHistory'.seen
    <3>1. /\ ~Underway(strategyCalls, s) => Alike(strategyPage.strategies[s], strategies[s])
          /\ Gone(strategyPage.strategies[s]) => Gone(strategies[s])
          /\ \A d \in strategyCalls :
               Gone(strategyPage.strategies[s]) /\ Moved(d, s) /\ d.kind # "delete"
                 => d.n < strategyHistory.seen
          /\ s \in Strategies
      <4>1. s \in Relevant(strategyPage) /\ ~strategyPage.loading /\ strategyPage.view # "other"
        BY <1>1, <2>4 DEF Relevant
      <4>2. s \in Strategies
        BY <1>0, <4>1, StrategiesAssumption
           DEF Relevant, PageKept, StrategyPagesSet, Views
      <4> QED
        BY <2>0, <4>1, <4>2 DEF PageCurrent
    <3>2. CASE s # c.id
      <4>1. strategyPage'.strategies[s] = strategyPage.strategies[s]
        BY <1>1, <3>1, <3>2
      <4>2. strategies'[s] = strategies[s] /\ strategyCalls' \subseteq strategyCalls
        BY <2>1
      <4>3. ~Underway(strategyCalls', s) => ~Underway(strategyCalls, s)
        BY <2>2, <3>2
      <4>4. ASSUME NEW d \in strategyCalls', Gone(strategyPage'.strategies[s]), Moved(d, s),
                   d.kind # "delete"
            PROVE  d.n < strategyHistory'.seen
        <5>1. d \in strategyCalls /\ d.n < strategyHistory.seen
          BY <3>1, <4>1, <4>2, <4>4
        <5> QED
          BY <2>0, <5>1
      <4> QED
        BY <3>1, <4>1, <4>2, <4>3, <4>4
    <3>3. CASE s = c.id /\ c.kind = "vote"
      <4>1. Alike(strategyPage'.strategies[s], strategyPage.strategies[s])
        BY <1>1, <3>3
      <4>2. Gone(strategyPage'.strategies[s]) => Gone(strategyPage.strategies[s])
        BY <4>1 DEF Alike, Gone
      <4> QED
        BY SMTT(30), <2>0, <2>1, <2>2, <3>1, <3>3, <4>1, <4>2 DEF Alike
    <3>4. CASE s = c.id /\ c.kind # "vote"
      <4>1. Moved(c, s) /\ c.kind \in Moving
        BY <3>4 DEF Moved, Moving
      <4>2. strategyPage'.strategies[s] = c.rows[s]
        <5> SUFFICES ASSUME Gone(strategyPage.strategies[s]), c.kind \in {"approve", "reject"}
                     PROVE  FALSE
          BY <1>1, <3>4
        <5>1. c.n < strategyHistory.seen
          BY <3>1, <4>1
        <5> QED
          BY <2>0, <5>1
      <4>3. ~Underway(strategyCalls', s) => Alike(c.rows[s], strategies[s])
        BY <2>0, <2>3, <3>1, <3>4, <4>1 DEF AnswersCurrent
      <4>4. Gone(c.rows[s]) => Gone(strategies[s])
        BY <2>0, <3>1 DEF DeletionKept
      <4>5. ASSUME NEW d \in strategyCalls', Gone(c.rows[s]), Moved(d, s), d.kind # "delete"
            PROVE  d.n < strategyHistory'.seen
        <5>1. d.n < c.n
          BY <2>0, <2>1, <3>1, <4>5 DEF DeletionKept
        <5> QED
          BY <2>0, <2>1, <5>1
      <4> QED
        BY <4>2, <4>3, <4>4, <4>5
    <3> QED
      BY <3>2, <3>3, <3>4
  <2>5. ASSUME NEW s \in strategyPage'.adminPendingStrategies, ~Underway(strategyCalls', s)
        PROVE  strategies'[s].publication_status = "pending_review"
    <3>1. s \in strategyPage.adminPendingStrategies /\ strategyPage.view = "list"
          /\ ~strategyPage.loading
      BY <1>0, <1>3 DEF PageKept
    <3>2. c.kind \in {"approve", "reject", "delete"}
      BY <1>0, <3>1 DEF RequestKept
    <3>3. s # c.id
      BY <1>1, <3>1, <3>2
    <3> QED
      BY <2>0, <2>2, <2>5, <3>1, <3>3 DEF PageCurrent
  <2> QED
    BY <2>4, <2>5 DEF PageCurrent
<1>5. c.answer # "none"
  OBVIOUS
<1>6. /\ Stays(strategyPage, strategyPage', c)
      /\ Followed(strategyCalls, strategyCalls', c, {}, strategyPage')
  BY <1>1, <1>2, <1>3 DEF Stays, Followed
<1> QED
  BY <1>2, <1>4, <1>5, <1>6, AnsweredKept

LEMMA ChangeAnsweredKept ==
  ASSUME StrategiesInv, NEW c \in strategyCalls, c.answer # "none", Heard(c),
         UNCHANGED <<strategies, isAdmin, strategyDialog, strategyMoves>>,
         ChangeAnswered(c)
  PROVE  StrategiesInv'
<1>0. /\ StrategiesTypeOK /\ strategyPage \in StrategyPagesSet /\ c \in StrategyCallSet
      /\ RequestKept(c, strategyPage, strategiesSent, strategyHistory.served)
      /\ PageKept(strategyPage, strategyDialog) /\ c.kind \in StrategyChanges
      /\ NoTitle \in Titles
  BY StrategiesAre, StrategiesAssumption
     DEF StrategiesInv, RequestsKept, ChangeAnswered, NoTitle
<1>1. CASE c.answer = "ok" /\ c.kind = "delete" /\ c.from = "detail"
  <2>1. ToStrategies(TRUE, strategyCalls \ {c})
    BY <1>1 DEF ChangeAnswered
  <2>2. PICK known \in BOOLEAN : strategyPage' = NewPage("list", "none", known)
    BY <2>1, Zenon DEF ToStrategies
  <2>3. PICK kind \in {"lists", "user"} :
          SendStrategy(kind, "none", NoTitle, Abandoned(strategyCalls \ {c}))
    BY <2>1 DEF ToStrategies
  <2>4. kind \in StrategyKinds /\ "none" \in Strategies \cup {"none"} /\ "list" \in Views
    BY DEF StrategyKinds, Views
  <2>5. PICK new \in StrategyCallSet :
          /\ strategyCalls' = Abandoned(strategyCalls \ {c}) \cup {new}
          /\ strategiesSent' = strategiesSent + 1 /\ strategiesSent' \in 0 .. MaxStrategyCalls
          /\ new.sent = strategiesSent' /\ new.answer = "none" /\ new.mine /\ new.n = 0
          /\ new.kind = kind /\ new.id = "none"
    BY <1>0, <2>3, <2>4, SendStrategyIs
  <2>6. Latest({new}, strategiesSent, strategiesSent')
    BY <2>5, OneAdded
  <2>7. ASSUME ~strategyHistory'.astray
        PROVE  /\ c.n <= strategyHistory'.seen
               /\ strategyDialog.kind # "none" => Gone(strategies[strategyDialog.id])
    <3>1. c.mine /\ c.n <= strategyHistory'.seen
      BY <1>0, <1>1, <2>7, HeardIs
    <3>2. strategyPage.view = "detail" /\ c.id = strategyPage.id /\ c.id # "none"
      BY <1>0, <1>1, <3>1 DEF RequestKept
    <3>3. c.id \in Strategies /\ Moved(c, c.id)
      BY <1>0, <1>1, <3>2 DEF StrategyCallSet, Moved, Moving
    <3>4. Gone(strategies[c.id])
      BY <1>1, <3>3 DEF StrategiesInv, DeletionKept
    <3> QED
      BY <1>0, <3>1, <3>2, <3>4 DEF PageKept
  <2>8. \A d \in strategyCalls \ (strategyCalls \ {c}) : d = c
    OBVIOUS
  <2>9. /\ strategyDialog' \in Questions /\ strategyMoves' \in 0 .. MaxStrategyMoves
        /\ strategyCalls \ {c} \in SUBSET strategyCalls
    BY <1>0 DEF StrategiesTypeOK
  <2> QED
    BY <2>2, <2>4, <2>5, <2>6, <2>7, <2>8, <2>9, HeardIs, OpenedKept
<1>2. CASE ~(c.answer = "ok" /\ c.kind = "delete" /\ c.from = "detail")
  <2>1. /\ Done(c)
        /\ strategyPage' = IF ~c.mine THEN strategyPage
             ELSE IF c.answer = "ok" THEN AnswerShown(c)
             ELSE [strategyPage EXCEPT !.saving = @ /\ c.kind # "update",
                     !.reviewing = @ /\ c.kind \notin {"approve", "reject"}]
    BY <1>2 DEF ChangeAnswered
  <2>2. CASE ~c.mine
    <3>1. UNCHANGED strategyPage
      BY <2>1, <2>2
    <3> QED
      BY <1>0, <2>1, <2>2, <3>1, UnshownKept
  <2>3. CASE c.mine /\ c.answer = "ok"
    <3>1. strategyPage' = AnswerShown(c)
      BY <2>1, <2>3
    <3> QED
      BY <1>0, <2>1, <2>3, <3>1, AnswerShownKept
  <2>4. CASE c.mine /\ c.answer # "ok"
    <3>1. PICK b \in BOOLEAN, d \in BOOLEAN :
            strategyPage' = [strategyPage EXCEPT !.saving = b, !.reviewing = d]
      BY <1>0, <2>1, <2>4 DEF StrategyPagesSet
    <3>2. /\ strategyPage' \in StrategyPagesSet
          /\ strategyPage'.view = strategyPage.view /\ strategyPage'.id = strategyPage.id
          /\ strategyPage'.loading = strategyPage.loading
          /\ strategyPage'.editing = strategyPage.editing
          /\ strategyPage'.strategies = strategyPage.strategies
          /\ strategyPage'.adminPendingStrategies = strategyPage.adminPendingStrategies
      BY <1>0, <3>1 DEF StrategyPagesSet
    <3> QED
      BY <2>1, <2>4, <3>2, UnshownKept
  <2> QED
    BY <2>2, <2>3, <2>4
<1> QED
  BY <1>1, <1>2

\* How many requests are not served yet.
LEMMA UnservedAre ==
  ASSUME NEW calls \in SUBSET StrategyCallSet
  PROVE  IsFiniteSet(Unserved(calls)) /\ Cardinality(Unserved(calls)) \in Nat
<1>1. Unserved(calls) \in SUBSET (1 .. MaxStrategyCalls)
  BY DEF Unserved, StrategyCallSet
<1>2. IsFiniteSet(1 .. MaxStrategyCalls)
  BY FS_Interval, StrategiesAssumption
<1>3. IsFiniteSet(Unserved(calls))
  BY <1>1, <1>2, FS_Subset
<1> QED
  BY <1>3, FS_CardinalityType

LEMMA UnservedAbandoned ==
  ASSUME NEW S \in SUBSET strategyCalls, strategyCalls \in SUBSET StrategyCallSet
  PROVE  /\ Unserved(S) \subseteq Unserved(strategyCalls)
         /\ Unserved(Abandoned(S)) \subseteq Unserved(strategyCalls)
<1>1. ASSUME NEW c \in Abandoned(S), c.answer = "none"
      PROVE  \E d \in strategyCalls : d.answer = "none" /\ d.sent = c.sent
  BY <1>1, AbandonedAre DEF SameAnswer
<1> QED
  BY <1>1 DEF Unserved

\* What a step may do to the requests that are not served.
Pending ==
  \/ strategiesSent' = strategiesSent /\ Unserved(strategyCalls') \subseteq Unserved(strategyCalls)
  \/ /\ strategiesSent' = strategiesSent + 1
     /\ Unserved(strategyCalls') \subseteq Unserved(strategyCalls) \cup {strategiesSent'}

LEMMA PendingKept ==
  ASSUME StrategiesInv, StrategiesInv', ServedOnce, Pending,
         strategyHistory'.served = strategyHistory.served
  PROVE  ServedOnce'
<1> DEFINE before == Unserved(strategyCalls)
           after == Unserved(strategyCalls')
<1>0. /\ strategyHistory.served \in Nat /\ strategiesSent \in Nat
      /\ strategyCalls \in SUBSET StrategyCallSet /\ strategyCalls' \in SUBSET StrategyCallSet
  BY StrategiesAre DEF StrategiesInv, StrategiesTypeOK
<1>1. /\ IsFiniteSet(before) /\ Cardinality(before) \in Nat
      /\ IsFiniteSet(after) /\ Cardinality(after) \in Nat
  BY <1>0, UnservedAre
<1>2. strategyHistory.served + Cardinality(before) <= strategiesSent
  BY DEF ServedOnce
<1>3. \/ strategiesSent' = strategiesSent /\ after \subseteq before
      \/ strategiesSent' = strategiesSent + 1 /\ after \subseteq before \cup {strategiesSent'}
  BY DEF Pending
<1> HIDE DEF before, after
<1>4. CASE strategiesSent' = strategiesSent /\ after \subseteq before
  <2>1. Cardinality(after) <= Cardinality(before)
    BY <1>1, <1>4, FS_Subset
  <2> QED
    BY <1>0, <1>1, <1>2, <1>4, <2>1 DEF ServedOnce, after
<1>5. CASE strategiesSent' = strategiesSent + 1 /\ after \subseteq before \cup {strategiesSent'}
  <2>1. /\ IsFiniteSet(before \cup {strategiesSent'})
        /\ Cardinality(before \cup {strategiesSent'}) \in
             {Cardinality(before), Cardinality(before) + 1}
    BY <1>1, FS_AddElement
  <2>2. Cardinality(after) <= Cardinality(before \cup {strategiesSent'})
    BY <1>1, <1>5, <2>1, FS_Subset
  <2> QED
    BY <1>0, <1>1, <1>2, <1>5, <2>1, <2>2 DEF ServedOnce, after
<1> QED
  BY <1>3, <1>4, <1>5

LEMMA SendPending ==
  ASSUME NEW kind, NEW id, NEW title, NEW rest, SendStrategy(kind, id, title, rest),
         Unserved(rest) \subseteq Unserved(strategyCalls)
  PROVE  Pending
BY DEF SendStrategy, Pending, Unserved

\* The server counts each request once.
LEMMA ServingCounted ==
  ASSUME StrategiesInv, ServedOnce, NEW c \in strategyCalls, ServeStrategy(c)
  PROVE  strategyHistory.served < MaxStrategyCalls /\ (StrategiesInv' => ServedOnce')
<1> DEFINE before == Unserved(strategyCalls)
           after == Unserved(strategyCalls')
<1>0. /\ strategyHistory.served \in Nat /\ strategiesSent \in 0 .. MaxStrategyCalls
      /\ strategyCalls \in SUBSET StrategyCallSet /\ c.sent \in Nat /\ c.answer = "none"
      /\ c \in StrategyCallSet
      /\ \A d, e \in strategyCalls : d.sent = e.sent => d = e
      /\ strategyHistory \in [served : 0 .. MaxStrategyCalls, seen : 0 .. MaxStrategyCalls,
                              astray : BOOLEAN]
  BY StrategiesAre DEF StrategiesInv, StrategiesTypeOK, RequestsKept, ServeStrategy
<1>1. /\ IsFiniteSet(before) /\ Cardinality(before) \in Nat /\ c.sent \in before
  BY <1>0, UnservedAre DEF Unserved
<1>2. strategyHistory.served + Cardinality(before) <= strategiesSent
  BY DEF ServedOnce
<1> DEFINE answer == IF Grants(c) THEN "ok" ELSE "error"
           n == strategyHistory.served + 1
           rows == Answering(c, strategies')
<1>3. /\ answer \in {"ok", "error"}
      /\ strategyCalls' = (strategyCalls \ {c}) \cup
           {[c EXCEPT !.answer = answer, !.n = n, !.rows = rows]}
      /\ strategyHistory' = [strategyHistory EXCEPT !.served = @ + 1]
      /\ UNCHANGED strategiesSent
  <2>1. answer \in {"ok", "error"}
    OBVIOUS
  <2> QED
    BY <2>1 DEF ServeStrategy
<1> HIDE DEF answer, n, rows
<1>4. after \subseteq before \ {c.sent}
  <2>1. ASSUME NEW d \in strategyCalls', d.answer = "none"
        PROVE  d.sent \in before /\ d.sent # c.sent
    <3>1. d \in strategyCalls /\ d # c
      BY <1>0, <1>3, <2>1 DEF StrategyCallSet
    <3> QED
      BY <1>0, <2>1, <3>1 DEF Unserved
  <2> QED
    BY <2>1 DEF Unserved
<1>5. strategyHistory'.served = strategyHistory.served + 1
  BY <1>0, <1>3
<1> HIDE DEF before
<1>6. /\ IsFiniteSet(before \ {c.sent}) /\ Cardinality(before \ {c.sent}) = Cardinality(before) - 1
  BY <1>1, FS_RemoveElement
<1>7. Cardinality(before \ {c.sent}) \in Nat
  BY <1>6, FS_CardinalityType
<1>8. strategyHistory.served < MaxStrategyCalls
  BY <1>0, <1>1, <1>2, <1>6, <1>7, StrategiesAssumption
<1>9. Cardinality(after) \in Nat /\ Cardinality(after) <= Cardinality(before \ {c.sent})
  <2> HIDE DEF after
  <2>1. /\ IsFiniteSet(after) /\ Cardinality(after) <= Cardinality(before \ {c.sent})
    BY <1>4, <1>6, FS_Subset
  <2> QED
    BY <2>1, FS_CardinalityType
<1>10. ServedOnce'
  BY <1>0, <1>1, <1>2, <1>3, <1>5, <1>6, <1>9 DEF ServedOnce
<1> QED
  BY <1>8, <1>10

LEMMA AnswersPending ==
  ASSUME StrategiesInv, NEW c \in strategyCalls, StrategyFails(c) \/ StrategyAnswered(c)
  PROVE  Pending /\ strategyHistory'.served = strategyHistory.served
<1>0. /\ strategyCalls \in SUBSET StrategyCallSet /\ strategyCalls \ {c} \in SUBSET strategyCalls
      /\ c \in StrategyCallSet
      /\ strategyHistory \in [served : 0 .. MaxStrategyCalls, seen : 0 .. MaxStrategyCalls,
                              astray : BOOLEAN]
  BY StrategiesAre DEF StrategiesInv, StrategiesTypeOK
<1>1. /\ Unserved(strategyCalls \ {c}) \subseteq Unserved(strategyCalls)
      /\ Unserved(Abandoned(strategyCalls \ {c})) \subseteq Unserved(strategyCalls)
  BY <1>0, UnservedAbandoned
<1>2. CASE StrategyFails(c)
  <2> DEFINE failed == [c EXCEPT !.answer = "error", !.rows = NoStrategies]
  <2>1. /\ strategyCalls' = (strategyCalls \ {c}) \cup {failed} /\ UNCHANGED strategiesSent
        /\ strategyHistory' = [strategyHistory EXCEPT
             !.astray = @ \/ (c.answer = "ok" /\ c.kind \in StrategyChanges)]
    BY <1>2 DEF StrategyFails
  <2>2. failed.answer = "error"
    BY <1>0 DEF StrategyCallSet
  <2> HIDE DEF failed
  <2>3. \A d \in strategyCalls' : d.answer = "none" => d \in strategyCalls
    BY <2>1, <2>2
  <2>4. Unserved(strategyCalls') \subseteq Unserved(strategyCalls)
    BY <2>3 DEF Unserved
  <2> QED
    BY <1>0, <2>1, <2>4 DEF Pending
<1>3. CASE StrategyAnswered(c)
  <2>1. strategyHistory'.served = strategyHistory.served
    BY <1>3, HeardIs DEF StrategyAnswered
  <2>2. ASSUME Done(c) PROVE Pending
    <3>1. UNCHANGED strategiesSent /\ strategyCalls' = strategyCalls \ {c}
      BY <2>2 DEF Done
    <3>2. Unserved(strategyCalls') = Unserved(strategyCalls \ {c})
      BY <3>1, Zenon
    <3> QED
      BY <1>1, <3>1, <3>2 DEF Pending
  <2>3. ASSUME ToElsewhere(strategyCalls \ {c}) PROVE Pending
    <3>1. UNCHANGED strategiesSent /\ strategyCalls' = Abandoned(strategyCalls \ {c})
      BY <2>3 DEF ToElsewhere
    <3>2. Unserved(strategyCalls') = Unserved(Abandoned(strategyCalls \ {c}))
      BY <3>1, Zenon
    <3> QED
      BY <1>1, <3>1, <3>2 DEF Pending
  <2>4. ASSUME NEW kind, NEW id, NEW title, NEW rest, SendStrategy(kind, id, title, rest),
               rest \in {strategyCalls \ {c}, Abandoned(strategyCalls \ {c})}
        PROVE  Pending
    BY <1>1, <2>4, SendPending
  <2>5. ASSUME UserAnswered(c) PROVE Pending
    BY <2>2, <2>4, <2>5 DEF UserAnswered
  <2>6. ASSUME ListsLoaded(c) \/ StrategyLoaded(c) \/ Used(c) PROVE Pending
    BY <2>2, <2>3, <2>6 DEF ListsLoaded, StrategyLoaded, Used
  <2>7. ASSUME ChangeAnswered(c) PROVE Pending
    BY <2>2, <2>4, <2>7 DEF ChangeAnswered, ToStrategies
  <2> QED
    BY <1>3, <2>1, <2>5, <2>6, <2>7 DEF StrategyAnswered
<1> QED
  BY <1>2, <1>3

LEMMA UserPending ==
  ASSUME StrategiesInv, StrategyUser
  PROVE  Pending /\ strategyHistory'.served = strategyHistory.served
<1>0. /\ strategyCalls \in SUBSET StrategyCallSet /\ strategyCalls \in SUBSET strategyCalls
  BY StrategiesAre DEF StrategiesInv
<1>1. Unserved(Abandoned(strategyCalls)) \subseteq Unserved(strategyCalls)
  BY <1>0, UnservedAbandoned
<1>2. ASSUME NEW kind, NEW id, NEW title, NEW rest, SendStrategy(kind, id, title, rest),
             rest \in {strategyCalls, Abandoned(strategyCalls)}
      PROVE  Pending
  BY <1>1, <1>2, SendPending
<1>3. ASSUME UNCHANGED <<strategyCalls, strategiesSent>> PROVE Pending
  BY <1>3 DEF Pending
<1>4. strategyHistory' = strategyHistory
  BY DEF StrategyUser, VisitStrategies, CloseQuestion, VisitStrategy, StartMetadataEdit,
         CancelMetadataEdit, SaveMetadata, TypeTitle, Press, AskStrategy, StrategyMove
<1>5. ASSUME VisitStrategies PROVE Pending
  BY <1>2, <1>5 DEF VisitStrategies, ToStrategies
<1>6. ASSUME CloseQuestion PROVE Pending
  BY <1>2, <1>3, <1>6 DEF CloseQuestion
<1>7. ASSUME NEW s \in Strategies, VisitStrategy(s) \/ SaveMetadata(s)
               \/ \E kind \in {"vote", "submit", "use"} : Press(s, kind)
      PROVE  Pending
  BY <1>2, <1>7 DEF VisitStrategy, SaveMetadata, Press
<1>8. ASSUME NEW s \in Strategies, StartMetadataEdit(s) \/ CancelMetadataEdit(s)
               \/ \E title \in Titles \cup {Blank} : TypeTitle(s, title)
               \/ \E kind \in {"approve", "reject", "delete"} : AskStrategy(s, kind)
      PROVE  Pending
  BY <1>3, <1>8 DEF StartMetadataEdit, CancelMetadataEdit, TypeTitle, AskStrategy
<1> QED
  BY <1>4, <1>5, <1>6, <1>7, <1>8 DEF StrategyUser

\* The steps together.
StrategiesCounted == StrategiesInv /\ ServedOnce

LEMMA StrategiesStep ==
  ASSUME StrategiesCounted, [StrategiesNext]_strategyVars
  PROVE  StrategiesCounted'
<1>0. StrategiesInv /\ ServedOnce
  BY DEF StrategiesCounted
<1>1. CASE StrategyUser
  <2>1. ASSUME VisitStrategies \/ \E s \in Strategies : VisitStrategy(s)
        PROVE  StrategiesInv'
    BY <1>0, <2>1, VisitsKept, Zenon
  <2>2. ASSUME \/ CloseQuestion
               \/ \E s \in Strategies, kind \in {"approve", "reject", "delete"} :
                    AskStrategy(s, kind)
        PROVE  StrategiesInv'
    BY <1>0, <2>2, QuestionsKept, Zenon
  <2>a. ASSUME NEW s \in Strategies,
               \/ StartMetadataEdit(s) \/ CancelMetadataEdit(s)
               \/ \E title \in Titles \cup {Blank} : TypeTitle(s, title)
        PROVE  StrategiesInv'
    BY <1>0, <2>a, EditsKept, Zenon
  <2>b. ASSUME NEW s \in Strategies,
               SaveMetadata(s) \/ \E kind \in {"vote", "submit", "use"} : Press(s, kind)
        PROVE  StrategiesInv'
    BY <1>0, <2>b, PressesKept, Zenon
  <2>3. StrategiesInv'
    BY <1>1, <2>1, <2>2, <2>a, <2>b, Zenon DEF StrategyUser
  <2> QED
    BY <1>0, <1>1, <2>3, UserPending, PendingKept DEF StrategiesCounted
<1>2. ASSUME NEW c \in strategyCalls, ServeStrategy(c) PROVE StrategiesCounted'
  <2>1. strategyHistory.served < MaxStrategyCalls /\ (StrategiesInv' => ServedOnce')
    BY <1>0, <1>2, ServingCounted
  <2>2. StrategiesInv'
    BY <1>0, <1>2, <2>1, ServingKept
  <2> QED
    BY <2>1, <2>2 DEF StrategiesCounted
<1>3. ASSUME NEW c \in strategyCalls, StrategyFails(c) \/ StrategyAnswered(c)
      PROVE  StrategiesCounted'
  <2>1. ASSUME StrategyFails(c) PROVE StrategiesInv'
    BY <1>0, <2>1, FailingKept, Zenon
  <2>2. ASSUME StrategyAnswered(c) PROVE StrategiesInv'
    <3>1. /\ c.answer # "none" /\ Heard(c)
          /\ UNCHANGED <<strategies, isAdmin, strategyDialog, strategyMoves>>
          /\ \/ UserAnswered(c) \/ ListsLoaded(c) \/ StrategyLoaded(c) \/ ChangeAnswered(c)
             \/ Used(c)
      BY <2>2 DEF StrategyAnswered
    <3> QED
      BY <1>0, <3>1, UserAnsweredKept, ListsLoadedKept, StrategyLoadedKept, ChangeAnsweredKept,
         UsedKept, Zenon
  <2>3. StrategiesInv'
    BY <1>3, <2>1, <2>2, Zenon
  <2>4. Pending /\ strategyHistory'.served = strategyHistory.served
    BY <1>0, <1>3, AnswersPending
  <2> QED
    BY <1>0, <2>3, <2>4, PendingKept DEF StrategiesCounted
<1>4. CASE UNCHANGED strategyVars
  BY <1>0, <1>4 DEF strategyVars, StrategiesCounted, StrategiesInv, StrategiesTypeOK, ServedOnce,
     PageCurrent
<1> QED
  BY <1>1, <1>2, <1>3, <1>4 DEF StrategiesNext

LEMMA StrategiesInitially ==
  ASSUME StrategiesInit
  PROVE  StrategiesCounted
<1>0. NoTitle \in Titles /\ NoStrategies \in StrategyRows /\ "none" \notin Strategies
  <2>1. NoTitle \in Titles
    BY StrategiesAssumption DEF NoTitle
  <2> QED
    BY <2>1, StrategiesAssumption
       DEF NoStrategies, NoStrategy, StrategyRows, Strategy, Statuses
<1>1. PICK s \in Strategies \cup {"none"}, kind \in {"lists", "get"}, view \in {"list", "detail"} :
        /\ strategyPage = NewPage(view, s, TRUE)
        /\ strategyCalls = {[kind |-> kind, id |-> s, title |-> NoTitle, sent |-> 1,
                             from |-> strategyPage.view, mine |-> TRUE, answer |-> "none", n |-> 0,
                             rows |-> NoStrategies]}
        /\ (s = "none" <=> kind = "lists") /\ (s = "none" <=> view = "list")
  BY Zenon DEF StrategiesInit
<1>2. PICK known \in BOOLEAN : strategyPage = NewPage(view, s, known)
  BY <1>1, Zenon
<1>3. /\ strategyPage \in StrategyPagesSet /\ strategyPage.view = view /\ strategyPage.id = s
      /\ strategyPage.loading /\ ~strategyPage.editing
      /\ strategyPage.adminPendingStrategies = {}
  <2>1. view \in Views
    BY DEF Views
  <2> QED
    BY <1>2, <2>1, NewPageIs
<1>4. PICK c \in StrategyCallSet :
        /\ strategyCalls = {c} /\ c.kind = kind /\ c.id = s /\ c.sent = 1 /\ c.mine
        /\ c.answer = "none" /\ c.n = 0
  <2> DEFINE c == [kind |-> kind, id |-> s, title |-> NoTitle, sent |-> 1,
                   from |-> strategyPage.view, mine |-> TRUE, answer |-> "none", n |-> 0,
                   rows |-> NoStrategies]
  <2>1. c \in StrategyCallSet
    BY <1>0, <1>3, StrategiesAssumption DEF StrategyCallSet, StrategyKinds, Views
  <2>2. /\ strategyCalls = {c} /\ c.kind = kind /\ c.id = s /\ c.sent = 1 /\ c.mine
        /\ c.answer = "none" /\ c.n = 0
    BY <1>1
  <2> HIDE DEF c
  <2> QED
    BY <2>1, <2>2
<1>5. /\ strategyDialog = NoQuestion /\ strategiesSent = 1 /\ strategyMoves = 0
      /\ strategyHistory = [served |-> 0, seen |-> 0, astray |-> FALSE]
      /\ isAdmin \in BOOLEAN
  BY DEF StrategiesInit
<1>6. strategies \in StrategyRows
  BY <1>0 DEF StrategiesInit, StrategyRows, Strategy, Statuses
<1>7. StrategiesTypeOK
  <2>1. /\ strategyDialog \in Questions /\ strategiesSent \in 0 .. MaxStrategyCalls
        /\ strategyMoves \in 0 .. MaxStrategyMoves /\ strategyCalls \subseteq StrategyCallSet
        /\ strategyHistory \in [served : 0 .. MaxStrategyCalls, seen : 0 .. MaxStrategyCalls,
                                astray : BOOLEAN]
    BY <1>4, <1>5, StrategiesAssumption DEF Questions
  <2> QED
    BY <1>3, <1>5, <1>6, <2>1, Zenon DEF StrategiesTypeOK
<1>8. /\ strategyHistory.served = 0 /\ strategyHistory.seen = 0
      /\ strategyDialog.kind = "none" /\ strategyDialog.id = "none"
  BY <1>5 DEF NoQuestion
<1>9. RequestsKept(strategyCalls, strategyPage, strategiesSent, strategyHistory.served)
  <2>1. RequestKept(c, strategyPage, 1, 0)
    <3>1. /\ c.kind \notin StrategyChanges /\ (c.id = "none" <=> c.kind \in {"user", "lists"})
          /\ c.kind = "get" => strategyPage.view = "detail"
          /\ c.kind \in {"user", "lists"} => strategyPage.view = "list"
      BY <1>0, <1>1, <1>3, <1>4 DEF StrategyChanges
    <3> QED
      BY <1>3, <1>4, <3>1 DEF RequestKept, StrategyChanges
  <2> QED
    BY <1>4, <1>5, <1>8, <2>1 DEF RequestsKept
<1>10. PageKept(strategyPage, strategyDialog)
  BY <1>1, <1>3, <1>8 DEF PageKept
<1>11. /\ DeletionKept(strategyCalls, strategies)
       /\ AnswersCurrent(strategyCalls, strategies, strategyHistory.seen)
       /\ PageCurrent(strategyPage, strategyCalls, strategies, strategyHistory.seen)
       /\ LeftoversAreGone(strategyPage, strategyCalls, strategyDialog, strategies)
  BY <1>1, <1>3, <1>4, <1>8
     DEF DeletionKept, AnswersCurrent, PageCurrent, LeftoversAreGone, Moved, Moving,
         StrategyChanges
<1>12. ServedOnce
  <2>1. Unserved(strategyCalls) = {1}
    BY <1>4 DEF Unserved
  <2>2. Cardinality({1}) = 1
    BY FS_Singleton
  <2> QED
    BY <1>5, <1>8, <2>1, <2>2 DEF ServedOnce
<1> QED
  BY <1>7, <1>8, <1>9, <1>10, <1>11, <1>12 DEF StrategiesCounted, StrategiesInv

\* The types of the strategies' pages.
THEOREM StrategyTypes == StrategiesSpec => []StrategiesTypeOK
<1>1. StrategiesCounted => StrategiesTypeOK
  BY DEF StrategiesCounted, StrategiesInv
<1> QED
  BY <1>1, StrategiesInitially, StrategiesStep, PTL DEF StrategiesSpec

LEMMA PagesShown ==
  ASSUME StrategiesCounted
  PROVE  PagesAreCurrent
<1> SUFFICES ASSUME strategyCalls = {}, ~strategyHistory.astray, strategyPage.view # "other",
                    ~strategyPage.loading
             PROVE  /\ \A s \in Relevant(strategyPage) :
                         Alike(strategyPage.strategies[s], strategies[s])
                    /\ \A s \in strategyPage.adminPendingStrategies :
                         strategies[s].publication_status = "pending_review"
  BY DEF PagesAreCurrent, Relevant, Alike, ShownStatus
<1>1. PageCurrent(strategyPage, strategyCalls, strategies, strategyHistory.seen)
  BY DEF StrategiesCounted, StrategiesInv
<1>2. \A s : ~Underway(strategyCalls, s)
  BY DEF Underway
<1> QED
  BY <1>1, <1>2 DEF PageCurrent

\* A page that is not loading shows what is stored when nothing is in flight and no answer went
\* astray: what ties it to the server is that the answer that was made last decides.
THEOREM PagesCurrent == StrategiesSpec => []PagesAreCurrent
BY PagesShown, StrategiesInitially, StrategiesStep, PTL DEF StrategiesSpec

\* Only the answer that ends the loading, and a saved title, replace the draft.
LEMMA DraftsStay ==
  ASSUME StrategiesInv, [StrategiesNext]_strategyVars,
         strategyPage.view = "detail", strategyPage.editing,
         strategyPage'.editing, strategyPage'.id = strategyPage.id
  PROVE  strategyPage'.edited = strategyPage.edited \/ strategyCalls' = strategyCalls
<1>0. /\ strategyPage \in StrategyPagesSet /\ strategyCalls \in SUBSET StrategyCallSet
      /\ ~strategyPage.loading
      /\ \A c \in strategyCalls :
           RequestKept(c, strategyPage, strategiesSent, strategyHistory.served)
  BY StrategiesAre DEF StrategiesInv, PageKept, RequestsKept
<1>1. ASSUME NEW view \in Views, NEW id \in Strategies \cup {"none"}, NEW known \in BOOLEAN
      PROVE  strategyPage' # NewPage(view, id, known)
  BY <1>1, NewPageIs
<1>2. ASSUME NEW rest, NEW known \in BOOLEAN, ToStrategies(known, rest) PROVE FALSE
  BY <1>1, <1>2 DEF ToStrategies, Views
<1>3. ASSUME NEW rest, ToElsewhere(rest) PROVE FALSE
  BY <1>1, <1>3 DEF ToElsewhere, Views
<1>4. CASE StrategyUser
  <2>1. ~VisitStrategies
    BY <1>2 DEF VisitStrategies
  <2>2. ASSUME NEW s \in Strategies PROVE ~VisitStrategy(s)
    BY <1>1 DEF VisitStrategy, Views
  <2>3. CASE CloseQuestion
    BY <1>0, <2>3 DEF CloseQuestion, StrategyPagesSet
  <2>4. ASSUME NEW s \in Strategies,
               \/ StartMetadataEdit(s) \/ CancelMetadataEdit(s)
               \/ \E title \in Titles \cup {Blank} : TypeTitle(s, title)
               \/ \E kind \in {"approve", "reject", "delete"} : AskStrategy(s, kind)
        PROVE  strategyCalls' = strategyCalls
    BY <2>4 DEF StartMetadataEdit, CancelMetadataEdit, TypeTitle, AskStrategy
  <2>5. ASSUME NEW s \in Strategies,
               SaveMetadata(s) \/ \E kind \in {"vote", "submit", "use"} : Press(s, kind)
        PROVE  strategyPage'.edited = strategyPage.edited
    BY <1>0, <2>5 DEF SaveMetadata, Press, StrategyPagesSet
  <2> QED
    BY <1>4, <2>1, <2>2, <2>3, <2>4, <2>5 DEF StrategyUser
<1>5. ASSUME NEW c \in strategyCalls, ServeStrategy(c) \/ StrategyFails(c)
      PROVE  strategyPage'.edited = strategyPage.edited
  BY <1>5 DEF ServeStrategy, StrategyFails
<1>6. ASSUME NEW c \in strategyCalls, StrategyAnswered(c)
      PROVE  strategyPage'.edited = strategyPage.edited
  <2>0. RequestKept(c, strategyPage, strategiesSent, strategyHistory.served)
          /\ c \in StrategyCallSet
    BY <1>0
  <2>1. CASE UserAnswered(c)
    BY <1>0, <2>0, <2>1 DEF UserAnswered, RequestKept
  <2>2. CASE ListsLoaded(c)
    BY <1>0, <2>0, <2>2 DEF ListsLoaded, RequestKept
  <2>3. CASE StrategyLoaded(c)
    BY <1>0, <1>3, <2>0, <2>3 DEF StrategyLoaded, RequestKept
  <2>4. CASE Used(c)
    BY <1>3, <2>4 DEF Used
  <2>5. CASE ChangeAnswered(c)
    <3>1. ~(c.answer = "ok" /\ c.kind = "delete" /\ c.from = "detail")
      BY <1>2, <2>5 DEF ChangeAnswered
    <3>2. strategyPage' = IF ~c.mine THEN strategyPage
             ELSE IF c.answer = "ok" THEN AnswerShown(c)
             ELSE [strategyPage EXCEPT !.saving = @ /\ c.kind # "update",
                     !.reviewing = @ /\ c.kind \notin {"approve", "reject"}]
      BY <2>5, <3>1 DEF ChangeAnswered
    <3>3. CASE ~c.mine
      BY <3>2, <3>3
    <3>4. CASE c.mine /\ c.answer # "ok"
      BY <1>0, <3>2, <3>4 DEF StrategyPagesSet
    <3>5. CASE c.mine /\ c.answer = "ok"
      <4>1. strategyPage' = AnswerShown(c)
        BY <3>2, <3>5
      <4> DEFINE replaced == [strategyPage EXCEPT !.strategies[c.id] = c.rows[c.id]]
      <4>2. replaced \in [view : Views, known : BOOLEAN, loading : BOOLEAN,
                    strategies : {replaced.strategies},
              adminPendingStrategies : SUBSET Strategies, id : Strategies \cup {"none"},
              editing : BOOLEAN, edited : {strategyPage.edited}, saving : BOOLEAN,
              reviewing : BOOLEAN]
        BY <1>0 DEF StrategyPagesSet
      <4>3. CASE c.kind = "update"
        <5>1. strategyPage' =
                ResetMetadataDrafts([replaced EXCEPT !.saving = FALSE, !.editing = FALSE])
          BY <4>1, <4>3 DEF AnswerShown
        <5> HIDE DEF replaced
        <5>2. ~strategyPage'.editing
          BY <4>2, <5>1 DEF ResetMetadataDrafts
        <5> QED
          BY <5>2
      <4>4. CASE c.kind = "vote"
        BY <1>0, <4>1, <4>4 DEF AnswerShown, StrategyPagesSet
      <4>5. CASE c.kind \in {"approve", "reject"}
        <5>1. strategyPage' = [replaced EXCEPT !.reviewing = FALSE]
          BY <4>1, <4>5 DEF AnswerShown
        <5> HIDE DEF replaced
        <5> QED
          BY <4>2, <5>1
      <4>6. CASE c.kind \in {"submit", "delete"}
        <5>1. strategyPage' = replaced
          BY <4>1, <4>6 DEF AnswerShown
        <5> HIDE DEF replaced
        <5> QED
          BY <4>2, <5>1
      <4> QED
        BY <2>5, <4>3, <4>4, <4>5, <4>6 DEF ChangeAnswered, StrategyChanges
    <3> QED
      BY <3>3, <3>4, <3>5
  <2> QED
    BY <1>6, <2>1, <2>2, <2>3, <2>4, <2>5 DEF StrategyAnswered
<1>7. CASE UNCHANGED strategyVars
  BY <1>7 DEF strategyVars
<1> QED
  BY <1>4, <1>5, <1>6, <1>7 DEF StrategiesNext

\* A title that is typed is not replaced by the answer to something else.
THEOREM DraftsTyped == StrategiesSpec => DraftsAreTyped
<1>1. ASSUME StrategiesCounted, [StrategiesNext]_strategyVars
      PROVE  [/\ strategyPage.view = "detail" /\ strategyPage.editing
              /\ strategyPage'.editing /\ strategyPage'.id = strategyPage.id
              => strategyPage'.edited = strategyPage.edited
                   \/ strategyCalls' = strategyCalls]_strategyVars
  BY <1>1, DraftsStay DEF StrategiesCounted
<1> QED
  BY <1>1, StrategiesInitially, StrategiesStep, PTL DEF StrategiesSpec, DraftsAreTyped

-------------------------------------------------------------------------------
(* The settings                                                              *)

\* The requests about the consent; those that change it, and one that did.
SmsKinds == {"sms", "consent", "revoke"}
ConsentMade(c) == c.kind \in {"consent", "revoke"} /\ c.answer = "ok"

\* A request carries what its kind says.
SettingSound(c) ==
  /\ c.kind = "name" => c.value \in Names
  /\ c.kind = "timezone" => c.value \in Timezones
  /\ c.kind = "saveTelegram" => c.value \in Chats
  /\ c.kind = "consent" => c.value \in Phones

\* The load and the changes of the consent never overlap on a page.
ConsentAsked(page, calls) ==
  /\ \A c \in calls : c.mine /\ c.kind = "sms" => page.isLoadingSms
  /\ \A c \in calls :
       c.mine /\ c.kind \in {"consent", "revoke"} => page.isSavingSms /\ ~page.isLoadingSms
  /\ \A c, d \in calls : c.mine /\ d.mine /\ c.kind \in SmsKinds /\ d.kind \in SmsKinds => c = d

\* What the page shows, and what is told to it, is stored as far as no other change was made
\* whose answer is still on its way.
ConsentHeard(page, calls, stored) ==
  /\ ~page.isLoadingSms /\ (\A c \in calls : ~ConsentMade(c)) => page.smsConsent = stored.phone
  /\ \A c \in calls :
       c.mine /\ c.kind \in SmsKinds /\ c.answer = "ok"
         /\ (\A d \in calls : ConsentMade(d) => d = c)
         => c.seen.phone = stored.phone
  /\ \A c \in calls : ~(c.kind = "sms" /\ c.answer = "error")

SettingsInv ==
  /\ SettingsTypeOK
  /\ \A c \in settingsCalls : SettingSound(c)
  /\ ConsentAsked(settingsPage, settingsCalls)
  /\ ~settingUnheard => ConsentHeard(settingsPage, settingsCalls, account)

LEMMA SettingsAre ==
  ASSUME SettingsTypeOK
  PROVE  /\ account \in Accounts /\ settingsPage \in SettingsPageSet
         /\ user \in [known : BOOLEAN, name : NameOrNone, timezone : Timezones]
         /\ settingsCalls \in SUBSET SettingCallSet /\ settingsMoves \in 0 .. MaxSettingsMoves
         /\ settingsMoves \in Nat /\ zonePicked \in BOOLEAN /\ settingUnheard \in BOOLEAN
<1>1. /\ account \in Accounts /\ settingsPage \in SettingsPageSet
      /\ user \in [known : BOOLEAN, name : NameOrNone, timezone : Timezones]
      /\ settingsCalls \in SUBSET SettingCallSet /\ settingsMoves \in 0 .. MaxSettingsMoves
      /\ zonePicked \in BOOLEAN /\ settingUnheard \in BOOLEAN
  BY Zenon DEF SettingsTypeOK
<1>2. settingsMoves \in Nat
  BY <1>1
<1> QED
  BY <1>1, <1>2

SettingValues == {"none"} \cup Names \cup Timezones \cup Chats \cup Phones

LEMMA SettingIs ==
  ASSUME account \in Accounts, NEW kind \in SettingKinds, NEW value \in SettingValues,
         NEW mine \in BOOLEAN
  PROVE  LET c == [Setting(kind, value) EXCEPT !.mine = mine]
         IN  /\ c \in SettingCallSet /\ c.kind = kind /\ c.value = value /\ c.answer = "none"
             /\ c.mine = mine
<1> DEFINE before == [kind |-> kind, value |-> value, mine |-> TRUE, answer |-> "none",
                      seen |-> account]
<1>1. [before EXCEPT !.mine = mine] = [kind |-> kind, value |-> value, mine |-> mine,
                                       answer |-> "none", seen |-> account]
  OBVIOUS
<1> QED
  BY <1>1 DEF Setting, SettingCallSet, SettingValues

LEMMA SettingAsked ==
  ASSUME account \in Accounts, NEW kind \in SettingKinds, NEW value \in SettingValues
  PROVE  /\ Setting(kind, value) \in SettingCallSet /\ Setting(kind, value).kind = kind
         /\ Setting(kind, value).value = value /\ Setting(kind, value).answer = "none"
         /\ Setting(kind, value).mine
BY DEF Setting, SettingCallSet, SettingValues

LEMMA FreshIs ==
  ASSUME NEW u \in [known : BOOLEAN, name : NameOrNone, timezone : Timezones]
  PROVE  /\ FreshSettings(u) \in SettingsPageSet /\ FreshSettings(u).isLoadingSms
         /\ ~FreshSettings(u).editingName
BY DEF FreshSettings, SettingsPageSet, Sections, NameOrNone, ChatOrNone, PhoneOrNone

\* What a page shows of the consent, and waits for, is left alone.
SameConsent(page, after) ==
  /\ after.isLoadingSms = page.isLoadingSms /\ after.smsConsent = page.smsConsent
  /\ after.isSavingSms = page.isSavingSms

\* What an answer makes of the page.
LEMMA AfterAnswerIs ==
  ASSUME settingsPage \in SettingsPageSet, NEW c \in SettingCallSet, c.kind # "user",
         NEW ok \in BOOLEAN
  PROVE  /\ AfterAnswer(c, ok) \in SettingsPageSet
         /\ AfterAnswer(c, ok).editNameValue = settingsPage.editNameValue
         /\ c.kind \notin SmsKinds => SameConsent(settingsPage, AfterAnswer(c, ok))
         /\ c.kind \in SmsKinds /\ ok => AfterAnswer(c, ok).smsConsent = c.seen.phone
         /\ c.kind \in SmsKinds /\ ~ok =>
              AfterAnswer(c, ok).smsConsent = settingsPage.smsConsent
         /\ c.kind \in {"consent", "revoke"} =>
              AfterAnswer(c, ok).isLoadingSms = settingsPage.isLoadingSms
<1> DEFINE page == AfterAnswer(c, ok)
           Goal == /\ page \in SettingsPageSet
                   /\ page.editNameValue = settingsPage.editNameValue
                   /\ SameConsent(settingsPage, page)
<1>0. /\ c.seen.chat \in ChatOrNone /\ c.seen.phone \in PhoneOrNone
      /\ User(c.seen) \in [known : BOOLEAN, name : NameOrNone, timezone : Timezones]
  BY DEF SettingCallSet, Accounts, User
<1>1. CASE c.kind = "name"
  <2>1. PICK b \in BOOLEAN : page = [settingsPage EXCEPT !.isSavingName = FALSE, !.editingName = b]
    <3>1. page = [settingsPage EXCEPT !.isSavingName = FALSE, !.editingName = @ /\ ~ok]
      BY <1>1 DEF AfterAnswer
    <3>2. page = [settingsPage EXCEPT !.isSavingName = FALSE,
                                      !.editingName = settingsPage.editingName /\ ~ok]
      BY <3>1 DEF SettingsPageSet
    <3>3. (settingsPage.editingName /\ ~ok) \in BOOLEAN
      BY DEF SettingsPageSet
    <3> QED
      BY <3>2, <3>3
  <2> HIDE DEF page
  <2>2. Goal
    BY <2>1 DEF SettingsPageSet, SameConsent
  <2> QED
    BY <1>1, <2>2 DEF SmsKinds, page
<1>2. CASE c.kind = "me"
  <2>1. page \in {settingsPage, [settingsPage EXCEPT !.user = User(c.seen)]}
    BY <1>2 DEF AfterAnswer
  <2> HIDE DEF page
  <2>2. Goal
    BY <1>0, <2>1 DEF SettingsPageSet, SameConsent
  <2> QED
    BY <1>2, <2>2 DEF SmsKinds, page
<1>3. CASE c.kind = "password"
  <2>1. page \in {[settingsPage EXCEPT !.isSavingPassword = FALSE, !.showPasswordChange = FALSE,
                                       !.newPassword = "none"],
                  [settingsPage EXCEPT !.isSavingPassword = FALSE]}
    BY <1>3 DEF AfterAnswer
  <2> HIDE DEF page
  <2>2. Goal
    <3>1. CASE page = [settingsPage EXCEPT !.isSavingPassword = FALSE, !.showPasswordChange = FALSE,
                                       !.newPassword = "none"]
      BY ZenonT(30), <3>1 DEF SettingsPageSet, SameConsent
    <3>2. CASE page = [settingsPage EXCEPT !.isSavingPassword = FALSE]
      BY <3>2 DEF SettingsPageSet, SameConsent
    <3> QED
      BY <2>1, <3>1, <3>2
  <2> QED
    BY <1>3, <2>2 DEF SmsKinds, page
<1>4. CASE c.kind = "timezone"
  <2>1. page = [settingsPage EXCEPT !.isSavingTimezone = FALSE]
    BY <1>4 DEF AfterAnswer
  <2> HIDE DEF page
  <2>2. Goal
    BY <2>1 DEF SettingsPageSet, SameConsent
  <2> QED
    BY <1>4, <2>2 DEF SmsKinds, page
<1>5. CASE c.kind = "subscription"
  <2>1. PICK b \in BOOLEAN :
          page = [settingsPage EXCEPT !.isLoadingSubscription = FALSE, !.subscription = b]
    <3>1. page = [settingsPage EXCEPT !.isLoadingSubscription = FALSE, !.subscription = @ \/ ok]
      BY <1>5 DEF AfterAnswer
    <3>2. page = [settingsPage EXCEPT !.isLoadingSubscription = FALSE,
                                      !.subscription = settingsPage.subscription \/ ok]
      BY <3>1 DEF SettingsPageSet
    <3>3. (settingsPage.subscription \/ ok) \in BOOLEAN
      BY DEF SettingsPageSet
    <3> QED
      BY <3>2, <3>3
  <2> HIDE DEF page
  <2>2. Goal
    BY ZenonT(30), <2>1 DEF SettingsPageSet, SameConsent
  <2> QED
    BY <1>5, <2>2 DEF SmsKinds, page
<1>6. CASE c.kind = "timezones"
  <2>1. PICK zones \in {"all", "fallback"} : page = [settingsPage EXCEPT !.timezones = zones]
    BY <1>6 DEF AfterAnswer
  <2> HIDE DEF page
  <2>2. Goal
    BY <2>1 DEF SettingsPageSet, SameConsent
  <2> QED
    BY <1>6, <2>2 DEF SmsKinds, page
<1>7. CASE c.kind = "telegram"
  <2>1. page \in {[settingsPage EXCEPT !.isLoading = FALSE, !.telegramConfig = c.seen.chat,
                                       !.chatId = c.seen.chat],
                  [settingsPage EXCEPT !.isLoading = FALSE]}
    BY <1>7 DEF AfterAnswer
  <2> HIDE DEF page
  <2>2. Goal
    <3>1. CASE page = [settingsPage EXCEPT !.isLoading = FALSE, !.telegramConfig = c.seen.chat,
                                       !.chatId = c.seen.chat]
      BY ZenonT(30), <1>0, <3>1 DEF SettingsPageSet, SameConsent
    <3>2. CASE page = [settingsPage EXCEPT !.isLoading = FALSE]
      BY ZenonT(30), <1>0, <3>2 DEF SettingsPageSet, SameConsent
    <3> QED
      BY <2>1, <3>1, <3>2
  <2> QED
    BY <1>7, <2>2 DEF SmsKinds, page
<1>8. CASE c.kind = "test"
  <2>1. page = [settingsPage EXCEPT !.isTesting = FALSE]
    BY <1>8 DEF AfterAnswer
  <2> HIDE DEF page
  <2>2. Goal
    BY ZenonT(30), <2>1 DEF SettingsPageSet, SameConsent
  <2> QED
    BY <1>8, <2>2 DEF SmsKinds, page
<1>9. CASE c.kind = "saveTelegram"
  <2>1. page \in {[settingsPage EXCEPT !.isSaving = FALSE, !.telegramConfig = c.seen.chat,
                                       !.showTokenInput = FALSE, !.botToken = FALSE],
                  [settingsPage EXCEPT !.isSaving = FALSE]}
    BY <1>9 DEF AfterAnswer
  <2> HIDE DEF page
  <2>2. Goal
    <3>1. CASE page = [settingsPage EXCEPT !.isSaving = FALSE, !.telegramConfig = c.seen.chat,
                                       !.showTokenInput = FALSE, !.botToken = FALSE]
      BY ZenonT(30), <1>0, <3>1 DEF SettingsPageSet, SameConsent
    <3>2. CASE page = [settingsPage EXCEPT !.isSaving = FALSE]
      BY ZenonT(30), <1>0, <3>2 DEF SettingsPageSet, SameConsent
    <3> QED
      BY <2>1, <3>1, <3>2
  <2> QED
    BY <1>9, <2>2 DEF SmsKinds, page
<1>10. CASE c.kind = "deleteTelegram"
  <2>1. page \in {[settingsPage EXCEPT !.isDeleting = FALSE, !.telegramConfig = "none",
                                       !.botToken = FALSE, !.chatId = "none",
                                       !.showTokenInput = FALSE],
                  [settingsPage EXCEPT !.isDeleting = FALSE]}
    BY <1>10 DEF AfterAnswer
  <2> HIDE DEF page
  <2>2. "none" \in ChatOrNone
    BY DEF ChatOrNone
  <2>3. Goal
    <3>1. CASE page = [settingsPage EXCEPT !.isDeleting = FALSE, !.telegramConfig = "none",
                                       !.botToken = FALSE, !.chatId = "none",
                                       !.showTokenInput = FALSE]
      BY ZenonT(30), <2>2, <3>1 DEF SettingsPageSet, SameConsent
    <3>2. CASE page = [settingsPage EXCEPT !.isDeleting = FALSE]
      BY ZenonT(30), <2>2, <3>2 DEF SettingsPageSet, SameConsent
    <3> QED
      BY <2>1, <3>1, <3>2
  <2> QED
    BY <1>10, <2>3 DEF SmsKinds, page
<1>11. CASE c.kind \in {"sms", "revoke"}
  <2>1. PICK phone \in {c.seen.phone, settingsPage.smsConsent} :
          /\ page = IF c.kind = "sms"
                    THEN [settingsPage EXCEPT !.isLoadingSms = FALSE, !.smsConsent = phone]
                    ELSE [settingsPage EXCEPT !.isSavingSms = FALSE, !.smsConsent = phone]
          /\ phone = IF ok THEN c.seen.phone ELSE settingsPage.smsConsent
    <3>1. CASE c.kind = "sms"
      <4>1. page = [settingsPage EXCEPT !.isLoadingSms = FALSE,
                                        !.smsConsent = IF ok THEN c.seen.phone ELSE @]
        BY <3>1 DEF AfterAnswer
      <4>2. page = [settingsPage EXCEPT !.isLoadingSms = FALSE,
                      !.smsConsent = IF ok THEN c.seen.phone ELSE settingsPage.smsConsent]
        BY <4>1 DEF SettingsPageSet
      <4> HIDE DEF page
      <4> QED
        BY <3>1, <4>2
    <3>2. CASE c.kind = "revoke"
      <4>1. page = [settingsPage EXCEPT !.isSavingSms = FALSE,
                                        !.smsConsent = IF ok THEN c.seen.phone ELSE @]
        BY <3>2 DEF AfterAnswer
      <4>2. page = [settingsPage EXCEPT !.isSavingSms = FALSE,
                      !.smsConsent = IF ok THEN c.seen.phone ELSE settingsPage.smsConsent]
        BY <4>1 DEF SettingsPageSet
      <4> HIDE DEF page
      <4> QED
        BY <3>2, <4>2
    <3> QED
      BY <1>11, <3>1, <3>2
  <2> HIDE DEF page
  <2>2. phone \in PhoneOrNone
    BY <1>0, <2>1 DEF SettingsPageSet
  <2>3. /\ page \in SettingsPageSet /\ page.editNameValue = settingsPage.editNameValue
        /\ page.smsConsent = phone
        /\ c.kind = "revoke" => page.isLoadingSms = settingsPage.isLoadingSms
    <3>1. CASE c.kind = "sms"
      <4>1. page = [settingsPage EXCEPT !.isLoadingSms = FALSE, !.smsConsent = phone]
        BY <2>1, <3>1
      <4> QED
        BY ZenonT(30), <2>2, <3>1, <4>1 DEF SettingsPageSet
    <3>2. CASE c.kind = "revoke"
      <4>1. page = [settingsPage EXCEPT !.isSavingSms = FALSE, !.smsConsent = phone]
        BY <2>1, <3>2
      <4> QED
        BY ZenonT(30), <2>2, <3>2, <4>1 DEF SettingsPageSet
    <3> QED
      BY <1>11, <3>1, <3>2
  <2> QED
    BY <1>11, <2>1, <2>3 DEF SmsKinds, page
<1>12. CASE c.kind = "consent"
  <2>1. page = IF ok THEN [settingsPage EXCEPT !.isSavingSms = FALSE, !.smsConsent = c.seen.phone,
                                 !.smsPhone = "none", !.smsConsentChecked = FALSE]
               ELSE [settingsPage EXCEPT !.isSavingSms = FALSE]
    BY <1>12 DEF AfterAnswer
  <2> HIDE DEF page
  <2>2. "none" \in PhoneOrNone
    BY DEF PhoneOrNone
  <2>3. /\ page \in SettingsPageSet /\ page.editNameValue = settingsPage.editNameValue
        /\ page.smsConsent = IF ok THEN c.seen.phone ELSE settingsPage.smsConsent
        /\ page.isLoadingSms = settingsPage.isLoadingSms
    <3>1. CASE ok
      <4>1. PICK phone \in PhoneOrNone, none \in PhoneOrNone \cup {"bad"} :
              /\ page = [settingsPage EXCEPT !.isSavingSms = FALSE, !.smsConsent = phone,
                           !.smsPhone = none, !.smsConsentChecked = FALSE]
              /\ phone = c.seen.phone
        BY <1>0, <2>1, <2>2, <3>1
      <4> DEFINE told == [settingsPage EXCEPT !.isSavingSms = FALSE, !.smsConsent = phone]
      <4>2. /\ told \in SettingsPageSet /\ told.editNameValue = settingsPage.editNameValue
            /\ told.smsConsent = phone /\ told.isLoadingSms = settingsPage.isLoadingSms
        BY ZenonT(30) DEF SettingsPageSet
      <4>3. page = [told EXCEPT !.smsPhone = none, !.smsConsentChecked = FALSE]
        BY <4>1
      <4> HIDE DEF told
      <4>4. /\ page \in SettingsPageSet /\ page.editNameValue = told.editNameValue
            /\ page.smsConsent = told.smsConsent /\ page.isLoadingSms = told.isLoadingSms
        BY ZenonT(30), <4>2, <4>3 DEF SettingsPageSet
      <4> QED
        BY <3>1, <4>1, <4>2, <4>4
    <3>2. CASE ~ok
      BY ZenonT(30), <2>1, <3>2 DEF SettingsPageSet
    <3> QED
      BY <3>1, <3>2
  <2> QED
    BY <1>12, <2>3 DEF SmsKinds, page
<1>13. c.kind \in {"name", "me", "password", "timezone", "subscription", "timezones", "telegram",
                   "test", "saveTelegram", "deleteTelegram", "sms", "revoke", "consent"}
  BY DEF SettingCallSet, SettingKinds, Loads, SettingChanges
<1> QED
  BY <1>1, <1>2, <1>3, <1>4, <1>5, <1>6, <1>7, <1>8, <1>9, <1>10, <1>11, <1>12, <1>13

\* The user's moves: what is shown of the consent stays, and at most one request is sent, about
\* the consent only when none is under way.
LEMMA MovesKept ==
  ASSUME SettingsInv, UNCHANGED <<account, user, settingUnheard>>,
         settingsMoves' \in 0 .. MaxSettingsMoves, zonePicked' \in BOOLEAN,
         settingsPage' \in SettingsPageSet,
         settingsPage'.isLoadingSms = settingsPage.isLoadingSms,
         settingsPage'.smsConsent = settingsPage.smsConsent,
         settingsPage.isSavingSms => settingsPage'.isSavingSms,
         NEW added \in SUBSET SettingCallSet, settingsCalls' = settingsCalls \cup added,
         \A d \in added :
           /\ SettingSound(d) /\ d.answer = "none" /\ d.kind # "sms"
           /\ d.kind \in {"consent", "revoke"} =>
                settingsPage'.isSavingSms /\ ~settingsPage.isLoadingSms
                  /\ ~settingsPage.isSavingSms,
         \A c, d \in added : c = d
  PROVE  SettingsInv'
<1>0. /\ settingsCalls \in SUBSET SettingCallSet
      /\ ConsentAsked(settingsPage, settingsCalls)
  BY SettingsAre DEF SettingsInv
<1>1. settingsCalls' \subseteq SettingCallSet
  BY <1>0
<1>2. SettingsTypeOK'
  BY <1>1, Zenon DEF SettingsInv, SettingsTypeOK
<1>3. \A c \in settingsCalls' : SettingSound(c)
  BY DEF SettingsInv
<1>4. ConsentAsked(settingsPage', settingsCalls')
  BY <1>0 DEF ConsentAsked, SmsKinds
<1>5. ConsentHeard(settingsPage, settingsCalls, account) =>
        ConsentHeard(settingsPage', settingsCalls', account)
  BY DEF ConsentHeard, ConsentMade
<1> QED
  BY <1>2, <1>3, <1>4, <1>5 DEF SettingsInv

LEMMA MoveInIs ==
  ASSUME SettingsInv, NEW section, NEW page, NEW sent, MoveIn(section, page, sent)
  PROVE  /\ UNCHANGED <<account, user, settingUnheard>>
         /\ settingsMoves' \in 0 .. MaxSettingsMoves /\ settingsMoves' # settingsMoves
         /\ zonePicked' \in BOOLEAN /\ settingsPage' = page
         /\ settingsCalls' = settingsCalls \cup sent
BY SettingsAre, SettingsAssumption DEF SettingsInv, MoveIn, SettingsMove

\* A click that sends nothing.
LEMMA ClickKept ==
  ASSUME SettingsInv, NEW section, NEW page \in SettingsPageSet, MoveIn(section, page, {}),
         SameConsent(settingsPage, page)
  PROVE  SettingsInv'
<1>1. /\ UNCHANGED <<account, user, settingUnheard>>
      /\ settingsMoves' \in 0 .. MaxSettingsMoves /\ zonePicked' \in BOOLEAN
      /\ settingsPage' = page /\ settingsCalls' = settingsCalls \cup {}
  BY MoveInIs
<1>2. /\ page.isLoadingSms = settingsPage.isLoadingSms /\ page.smsConsent = settingsPage.smsConsent
      /\ page.isSavingSms = settingsPage.isSavingSms
  BY DEF SameConsent
<1> QED
  BY <1>1, <1>2, MovesKept

\* A click that sends one request.
LEMMA AskedKept ==
  ASSUME SettingsInv, NEW section, NEW page \in SettingsPageSet, NEW kind \in SettingKinds,
         NEW value \in SettingValues, MoveIn(section, page, {Setting(kind, value)}),
         page.isLoadingSms = settingsPage.isLoadingSms,
         page.smsConsent = settingsPage.smsConsent,
         settingsPage.isSavingSms => page.isSavingSms,
         kind # "sms", kind = "name" => value \in Names, kind = "timezone" => value \in Timezones,
         kind = "saveTelegram" => value \in Chats, kind = "consent" => value \in Phones,
         kind \in {"consent", "revoke"} =>
           page.isSavingSms /\ ~settingsPage.isLoadingSms /\ ~settingsPage.isSavingSms
  PROVE  SettingsInv'
<1> DEFINE c == Setting(kind, value)
<1>1. /\ UNCHANGED <<account, user, settingUnheard>>
      /\ settingsMoves' \in 0 .. MaxSettingsMoves /\ zonePicked' \in BOOLEAN
      /\ settingsPage' = page /\ settingsCalls' = settingsCalls \cup {c}
  BY MoveInIs
<1>2. account \in Accounts
  BY SettingsAre DEF SettingsInv
<1>3. c \in SettingCallSet /\ c.kind = kind /\ c.value = value /\ c.answer = "none"
  BY <1>2, SettingAsked
<1> HIDE DEF c
<1>4. SettingSound(c)
  BY <1>3 DEF SettingSound
<1>5. /\ settingsPage' \in SettingsPageSet
      /\ settingsPage'.isLoadingSms = settingsPage.isLoadingSms
      /\ settingsPage'.smsConsent = settingsPage.smsConsent
      /\ settingsPage.isSavingSms => settingsPage'.isSavingSms
  BY <1>1
<1>6. \A d \in {c} :
        /\ SettingSound(d) /\ d.answer = "none" /\ d.kind # "sms"
        /\ d.kind \in {"consent", "revoke"} =>
             settingsPage'.isSavingSms /\ ~settingsPage.isLoadingSms /\ ~settingsPage.isSavingSms
  BY <1>1, <1>3, <1>4
<1>7. {c} \in SUBSET SettingCallSet /\ (\A d, e \in {c} : d = e)
  BY <1>3
<1> QED
  BY <1>1, <1>5, <1>6, <1>7, MovesKept

LEMMA ClicksKept ==
  ASSUME SettingsInv,
         \/ StartEditName \/ CancelEditName \/ TogglePasswordChange \/ ToggleTokenInput
         \/ \E n \in NameOrNone : TypeName(n)
         \/ \E p \in {"none", "short", "valid"} : TypePassword(p)
         \/ \E z \in Timezones : PickTimezone(z)
         \/ \E token \in BOOLEAN, chat \in ChatOrNone : TypeTelegram(token, chat)
         \/ \E phone \in PhoneOrNone \cup {"bad"}, checked \in BOOLEAN : TypeSms(phone, checked)
         \/ \E section \in Sections : SetSection(section)
  PROVE  SettingsInv'
<1>0. settingsPage \in SettingsPageSet
  BY SettingsAre DEF SettingsInv
<1>1. ASSUME StartEditName \/ CancelEditName \/ \E n \in NameOrNone : TypeName(n) PROVE SettingsInv'
  <2>1. PICK b \in BOOLEAN, n \in NameOrNone :
          MoveIn("profile", [settingsPage EXCEPT !.editingName = b, !.editNameValue = n], {})
    <3>1. ASSUME NEW n \in NameOrNone, TypeName(n)
          PROVE  \E b \in BOOLEAN :
                   MoveIn("profile",
                          [settingsPage EXCEPT !.editingName = b, !.editNameValue = n], {})
      <4>1. [settingsPage EXCEPT !.editNameValue = n] =
              [settingsPage EXCEPT !.editingName = TRUE, !.editNameValue = n]
        BY <1>0, <3>1 DEF TypeName, SettingsPageSet
      <4> QED
        BY <3>1, <4>1 DEF TypeName
    <3>2. settingsPage.user.name \in NameOrNone
      BY <1>0 DEF SettingsPageSet
    <3> QED
      BY <1>1, <3>1, <3>2 DEF StartEditName, CancelEditName
  <2> DEFINE page == [settingsPage EXCEPT !.editingName = b, !.editNameValue = n]
  <2>2. page \in SettingsPageSet /\ SameConsent(settingsPage, page)
    BY <1>0 DEF SettingsPageSet, SameConsent
  <2> HIDE DEF page
  <2>3. MoveIn("profile", page, {})
    BY <2>1 DEF page
  <2> QED
    BY <2>2, <2>3, ClickKept
<1>2. ASSUME TogglePasswordChange \/ \E p \in {"none", "short", "valid"} : TypePassword(p)
      PROVE  SettingsInv'
  <2>1. PICK b \in BOOLEAN, p \in {"none", "short", "valid"} :
          MoveIn("profile", [settingsPage EXCEPT !.showPasswordChange = b, !.newPassword = p], {})
    <3>1. ASSUME NEW p \in {"none", "short", "valid"}, TypePassword(p)
          PROVE  \E b \in BOOLEAN :
                   MoveIn("profile",
                          [settingsPage EXCEPT !.showPasswordChange = b, !.newPassword = p], {})
      <4>1. [settingsPage EXCEPT !.newPassword = p] =
              [settingsPage EXCEPT !.showPasswordChange = TRUE, !.newPassword = p]
        BY <1>0, <3>1 DEF TypePassword, SettingsPageSet
      <4> QED
        BY <3>1, <4>1 DEF TypePassword
    <3>2. ASSUME TogglePasswordChange
          PROVE  \E b \in BOOLEAN, p \in {"none", "short", "valid"} :
                   MoveIn("profile",
                          [settingsPage EXCEPT !.showPasswordChange = b, !.newPassword = p], {})
      <4> DEFINE b == ~settingsPage.showPasswordChange
                 p == IF settingsPage.showPasswordChange THEN "none" ELSE settingsPage.newPassword
                 page == [settingsPage EXCEPT !.showPasswordChange = ~@,
                            !.newPassword = IF settingsPage.showPasswordChange THEN "none" ELSE @]
      <4>1. page = [settingsPage EXCEPT !.showPasswordChange = b, !.newPassword = p]
        BY <1>0 DEF SettingsPageSet
      <4>2. b \in BOOLEAN /\ p \in {"none", "short", "valid"}
        BY <1>0 DEF SettingsPageSet
      <4>3. MoveIn("profile", page, {})
        BY <3>2 DEF TogglePasswordChange
      <4> HIDE DEF page, b, p
      <4> QED
        BY <4>1, <4>2, <4>3
    <3> QED
      BY <1>2, <3>1, <3>2
  <2> DEFINE page == [settingsPage EXCEPT !.showPasswordChange = b, !.newPassword = p]
  <2>2. page \in SettingsPageSet /\ SameConsent(settingsPage, page)
    BY ZenonT(30), <1>0 DEF SettingsPageSet, SameConsent
  <2> HIDE DEF page
  <2>3. MoveIn("profile", page, {})
    BY <2>1 DEF page
  <2> QED
    BY <2>2, <2>3, ClickKept
<1>3. ASSUME ToggleTokenInput PROVE SettingsInv'
  <2> DEFINE page == [settingsPage EXCEPT !.showTokenInput = ~@,
                                          !.botToken = @ /\ ~settingsPage.showTokenInput]
  <2>1. PICK b \in BOOLEAN, d \in BOOLEAN :
          page = [settingsPage EXCEPT !.showTokenInput = b, !.botToken = d]
    <3>1. page = [settingsPage EXCEPT !.showTokenInput = ~settingsPage.showTokenInput,
                    !.botToken = settingsPage.botToken /\ ~settingsPage.showTokenInput]
      BY <1>0 DEF SettingsPageSet
    <3>2. /\ (~settingsPage.showTokenInput) \in BOOLEAN
          /\ (settingsPage.botToken /\ ~settingsPage.showTokenInput) \in BOOLEAN
      OBVIOUS
    <3> HIDE DEF page
    <3> QED
      BY <3>1, <3>2
  <2>2. MoveIn("notifications", page, {})
    BY <1>3 DEF ToggleTokenInput
  <2> HIDE DEF page
  <2>3. page \in SettingsPageSet /\ SameConsent(settingsPage, page)
    BY ZenonT(30), <1>0, <2>1 DEF SettingsPageSet, SameConsent
  <2> QED
    BY <2>2, <2>3, ClickKept
<1>4. ASSUME NEW z \in Timezones, PickTimezone(z) PROVE SettingsInv'
  <2>1. /\ UNCHANGED <<account, user, settingUnheard>> /\ zonePicked' \in BOOLEAN
        /\ settingsMoves' \in 0 .. MaxSettingsMoves
        /\ settingsPage' = [settingsPage EXCEPT !.selectedTimezone = z]
        /\ settingsCalls' = settingsCalls \cup {}
    BY <1>4, SettingsAre, SettingsAssumption DEF SettingsInv, PickTimezone, SettingsMove
  <2>2. settingsPage' \in SettingsPageSet /\ SameConsent(settingsPage, settingsPage')
    BY <1>0, <2>1 DEF SettingsPageSet, SameConsent
  <2>3. /\ settingsPage'.isLoadingSms = settingsPage.isLoadingSms
        /\ settingsPage'.smsConsent = settingsPage.smsConsent
        /\ settingsPage.isSavingSms => settingsPage'.isSavingSms
    BY <2>2 DEF SameConsent
  <2>4. /\ UNCHANGED <<account, user, settingUnheard>> /\ zonePicked' \in BOOLEAN
        /\ settingsMoves' \in 0 .. MaxSettingsMoves /\ settingsCalls' = settingsCalls \cup {}
        /\ settingsPage' \in SettingsPageSet
    BY <2>1, <2>2
  <2>5. \A d \in {} :
          /\ SettingSound(d) /\ d.answer = "none" /\ d.kind # "sms"
          /\ d.kind \in {"consent", "revoke"} =>
               settingsPage'.isSavingSms /\ ~settingsPage.isLoadingSms /\ ~settingsPage.isSavingSms
    OBVIOUS
  <2>6. {} \in SUBSET SettingCallSet /\ (\A c, d \in {} : c = d)
    OBVIOUS
  <2> QED
    BY <2>3, <2>4, <2>5, <2>6, MovesKept, ZenonT(30)
<1>5. ASSUME NEW token \in BOOLEAN, NEW chat \in ChatOrNone, TypeTelegram(token, chat)
      PROVE  SettingsInv'
  <2> DEFINE page == [settingsPage EXCEPT !.botToken = token, !.chatId = chat]
  <2>1. page \in SettingsPageSet /\ SameConsent(settingsPage, page)
    BY <1>0 DEF SettingsPageSet, SameConsent
  <2>2. MoveIn("notifications", page, {})
    BY <1>5 DEF TypeTelegram
  <2> HIDE DEF page
  <2> QED
    BY <2>1, <2>2, ClickKept
<1>6. ASSUME NEW phone \in PhoneOrNone \cup {"bad"}, NEW checked \in BOOLEAN,
             TypeSms(phone, checked)
      PROVE  SettingsInv'
  <2> DEFINE page == [settingsPage EXCEPT !.smsPhone = phone, !.smsConsentChecked = checked]
  <2>1. page \in SettingsPageSet /\ SameConsent(settingsPage, page)
    BY <1>0 DEF SettingsPageSet, SameConsent
  <2>2. MoveIn("notifications", page, {})
    BY <1>6 DEF TypeSms
  <2> HIDE DEF page
  <2> QED
    BY <2>1, <2>2, ClickKept
<1>7. ASSUME NEW section \in Sections, SetSection(section) PROVE SettingsInv'
  <2> DEFINE page == [settingsPage EXCEPT !.section = section]
  <2>1. page \in SettingsPageSet /\ SameConsent(settingsPage, page)
    BY <1>0 DEF SettingsPageSet, SameConsent
  <2>2. MoveIn(settingsPage.section, page, {})
    BY <1>7 DEF SetSection
  <2> HIDE DEF page
  <2> QED
    BY <2>1, <2>2, ClickKept
<1> QED
  BY <1>1, <1>2, <1>3, <1>4, <1>5, <1>6, <1>7

LEMMA SavesKept ==
  ASSUME SettingsInv,
         \/ SaveName \/ SavePassword \/ SaveTimezone \/ TestConnection \/ SaveTelegramConfig
         \/ DeleteTelegramConfig \/ SaveSmsConsent \/ RevokeSmsConsent
  PROVE  SettingsInv'
<1>0. /\ settingsPage \in SettingsPageSet
      /\ settingsPage.editNameValue \in Names \cup {"none"}
      /\ settingsPage.selectedTimezone \in Timezones /\ settingsPage.chatId \in Chats \cup {"none"}
      /\ settingsPage.smsConsent \in Phones \cup {"none"}
      /\ "none" \in SettingValues
      /\ \A v \in Names \cup Timezones \cup Chats \cup Phones : v \in SettingValues
  BY SettingsAre
     DEF SettingsInv, SettingsPageSet, NameOrNone, ChatOrNone, PhoneOrNone, SettingValues
<1>1. CASE SaveName
  <2> DEFINE page == [settingsPage EXCEPT !.isSavingName = TRUE]
  <2>1. page \in SettingsPageSet /\ SameConsent(settingsPage, page)
    BY <1>0 DEF SettingsPageSet, SameConsent
  <2>2. /\ MoveIn("profile", page, {Setting("name", settingsPage.editNameValue)})
        /\ settingsPage.editNameValue \in Names
    BY <1>0, <1>1 DEF SaveName
  <2> HIDE DEF page
  <2>3. "name" \in SettingKinds
    BY DEF SettingKinds, SettingChanges
  <2> QED
    BY <1>0, <2>1, <2>2, <2>3, AskedKept DEF SameConsent
<1>2. CASE SavePassword
  <2> DEFINE page == [settingsPage EXCEPT !.isSavingPassword = TRUE]
  <2>1. page \in SettingsPageSet /\ SameConsent(settingsPage, page)
    BY <1>0 DEF SettingsPageSet, SameConsent
  <2>2. MoveIn("profile", page, {Setting("password", "none")})
    BY <1>2 DEF SavePassword
  <2> HIDE DEF page
  <2>3. "password" \in SettingKinds
    BY DEF SettingKinds, SettingChanges
  <2> QED
    BY <1>0, <2>1, <2>2, <2>3, AskedKept DEF SameConsent
<1>3. CASE SaveTimezone
  <2> DEFINE page == [settingsPage EXCEPT !.isSavingTimezone = TRUE]
  <2>1. page \in SettingsPageSet /\ SameConsent(settingsPage, page)
    BY <1>0 DEF SettingsPageSet, SameConsent
  <2>2. MoveIn("profile", page, {Setting("timezone", settingsPage.selectedTimezone)})
    BY <1>3 DEF SaveTimezone
  <2> HIDE DEF page
  <2>3. "timezone" \in SettingKinds
    BY DEF SettingKinds, SettingChanges
  <2> QED
    BY <1>0, <2>1, <2>2, <2>3, AskedKept DEF SameConsent
<1>4. CASE TestConnection
  <2> DEFINE page == [settingsPage EXCEPT !.isTesting = TRUE]
  <2>1. page \in SettingsPageSet /\ SameConsent(settingsPage, page)
    BY <1>0 DEF SettingsPageSet, SameConsent
  <2>2. MoveIn("notifications", page, {Setting("test", settingsPage.chatId)})
    BY <1>4 DEF TestConnection
  <2> HIDE DEF page
  <2>3. "test" \in SettingKinds
    BY DEF SettingKinds
  <2> QED
    BY <1>0, <2>1, <2>2, <2>3, AskedKept DEF SameConsent
<1>5. CASE SaveTelegramConfig
  <2> DEFINE page == [settingsPage EXCEPT !.isSaving = TRUE]
  <2>1. page \in SettingsPageSet /\ SameConsent(settingsPage, page)
    BY <1>0 DEF SettingsPageSet, SameConsent
  <2>2. /\ MoveIn("notifications", page, {Setting("saveTelegram", settingsPage.chatId)})
        /\ settingsPage.chatId \in Chats
    BY <1>0, <1>5 DEF SaveTelegramConfig
  <2> HIDE DEF page
  <2>3. "saveTelegram" \in SettingKinds
    BY DEF SettingKinds, SettingChanges
  <2> QED
    BY <1>0, <2>1, <2>2, <2>3, AskedKept DEF SameConsent
<1>6. CASE DeleteTelegramConfig
  <2> DEFINE page == [settingsPage EXCEPT !.isDeleting = TRUE]
  <2>1. page \in SettingsPageSet /\ SameConsent(settingsPage, page)
    BY <1>0 DEF SettingsPageSet, SameConsent
  <2>2. MoveIn("notifications", page, {Setting("deleteTelegram", "none")})
    BY <1>6 DEF DeleteTelegramConfig
  <2> HIDE DEF page
  <2>3. "deleteTelegram" \in SettingKinds
    BY DEF SettingKinds, SettingChanges
  <2> QED
    BY <1>0, <2>1, <2>2, <2>3, AskedKept DEF SameConsent
<1>7. CASE SaveSmsConsent \/ RevokeSmsConsent
  <2> DEFINE page == [settingsPage EXCEPT !.isSavingSms = TRUE]
  <2>1. /\ page \in SettingsPageSet /\ page.isLoadingSms = settingsPage.isLoadingSms
        /\ page.smsConsent = settingsPage.smsConsent /\ page.isSavingSms
    BY <1>0 DEF SettingsPageSet
  <2>2. ~settingsPage.isLoadingSms /\ ~settingsPage.isSavingSms
    BY <1>7 DEF SaveSmsConsent, RevokeSmsConsent, SmsForm
  <2>3. CASE SaveSmsConsent
    <3>1. /\ MoveIn("notifications", page, {Setting("consent", settingsPage.smsPhone)})
          /\ settingsPage.smsPhone \in Phones
      BY <2>3 DEF SaveSmsConsent
    <3> HIDE DEF page
    <3>2. "consent" \in SettingKinds
      BY DEF SettingKinds, SettingChanges
    <3> QED
      BY <1>0, <2>1, <2>2, <3>1, <3>2, AskedKept
  <2>4. CASE RevokeSmsConsent
    <3>1. MoveIn("notifications", page, {Setting("revoke", settingsPage.smsConsent)})
      BY <2>4 DEF RevokeSmsConsent
    <3> HIDE DEF page
    <3>2. "revoke" \in SettingKinds
      BY DEF SettingKinds, SettingChanges
    <3> QED
      BY <1>0, <2>1, <2>2, <3>1, <3>2, AskedKept
  <2> QED
    BY <1>7, <2>3, <2>4
<1> QED
  BY <1>1, <1>2, <1>3, <1>4, <1>5, <1>6, <1>7

LEMMA ReopenKept ==
  ASSUME SettingsInv, ReopenSettings
  PROVE  SettingsInv'
<1>0. /\ settingsCalls \in SUBSET SettingCallSet /\ account \in Accounts
      /\ user \in [known : BOOLEAN, name : NameOrNone, timezone : Timezones]
  BY SettingsAre DEF SettingsInv
<1>1. /\ UNCHANGED <<account, user, settingUnheard>>
      /\ settingsMoves' \in 0 .. MaxSettingsMoves /\ zonePicked' \in BOOLEAN
      /\ settingsPage' = FreshSettings(user)
  <2>1. /\ settingsMoves \in 0 .. MaxSettingsMoves
        /\ settingsMoves < MaxSettingsMoves /\ settingsMoves' = settingsMoves + 1
    BY SettingsAre, Zenon DEF SettingsInv, ReopenSettings, SettingsMove
  <2>2. settingsMoves' \in 0 .. MaxSettingsMoves
    BY <2>1, SettingsAssumption
  <2>3. /\ UNCHANGED <<account, user, settingUnheard>> /\ zonePicked' = FALSE
        /\ settingsPage' = FreshSettings(user)
    BY Zenon DEF ReopenSettings, SettingsMove
  <2> QED
    BY <2>2, <2>3
<1>2. settingsPage' \in SettingsPageSet /\ settingsPage'.isLoadingSms
  BY <1>0, <1>1, FreshIs
<1>3. ASSUME NEW c \in settingsCalls'
      PROVE  /\ c \in SettingCallSet /\ SettingSound(c)
             /\ c.mine /\ c.kind \in SmsKinds =>
                  c = Setting("sms", "none") /\ c.kind = "sms" /\ c.answer = "none"
             /\ c.kind = "sms" /\ c.answer = "error" =>
                  \E d \in settingsCalls : d.kind = "sms" /\ d.answer = "error"
  <2>1. CASE \E d \in settingsCalls : d.kind # "user" /\ c = [d EXCEPT !.mine = FALSE]
    <3>1. PICK d \in settingsCalls : d.kind # "user" /\ c = [d EXCEPT !.mine = FALSE]
      BY <2>1
    <3>2. /\ c \in SettingCallSet /\ ~c.mine /\ c.kind = d.kind /\ c.value = d.value
          /\ c.answer = d.answer
      BY <1>0, <3>1 DEF SettingCallSet
    <3>3. SettingSound(d)
      BY DEF SettingsInv
    <3> QED
      BY <3>2, <3>3 DEF SettingSound
  <2>2. CASE c \in settingsCalls /\ c.kind = "user"
    BY <1>0, <2>2 DEF SettingsInv, SmsKinds
  <2>3. CASE c \in OpeningCalls
    <3>1. PICK kind \in Loads : c = Setting(kind, "none")
      BY <2>3 DEF OpeningCalls
    <3>2. kind \in SettingKinds /\ "none" \in SettingValues
      BY DEF SettingKinds, SettingValues
    <3>3. c \in SettingCallSet /\ c.kind = kind /\ c.answer = "none"
      BY <1>0, <3>1, <3>2, SettingAsked
    <3>4. kind \notin {"name", "timezone", "saveTelegram", "consent", "revoke"}
      BY DEF Loads
    <3> QED
      BY <3>1, <3>3, <3>4 DEF SettingSound, SmsKinds
  <2>4. c \in {[d EXCEPT !.mine = FALSE] : d \in {x \in settingsCalls : x.kind # "user"}}
          \cup {d \in settingsCalls : d.kind = "user"} \cup OpeningCalls
    BY DEF ReopenSettings
  <2> QED
    BY <2>1, <2>2, <2>3, <2>4
<1>4. SettingsTypeOK'
  <2>1. settingsCalls' \subseteq SettingCallSet
    BY <1>3
  <2> QED
    BY <1>1, <1>2, <2>1, Zenon DEF SettingsInv, SettingsTypeOK
<1>5. ConsentAsked(settingsPage', settingsCalls')
  BY <1>2, <1>3 DEF ConsentAsked, SmsKinds
<1>6. ConsentHeard(settingsPage, settingsCalls, account) =>
        ConsentHeard(settingsPage', settingsCalls', account)
  BY <1>2, <1>3 DEF ConsentHeard
<1> QED
  BY <1>1, <1>3, <1>4, <1>5, <1>6 DEF SettingsInv

\* What the server does with a request.
LEMMA SettingEffectIs ==
  ASSUME account \in Accounts, NEW c \in SettingCallSet, SettingSound(c)
  PROVE  /\ SettingEffect(c) \in Accounts
         /\ c.kind \notin {"consent", "revoke"} => SettingEffect(c).phone = account.phone
<1>1. CASE c.kind = "name"
  <2>1. SettingEffect(c) = [account EXCEPT !.name = c.value] /\ c.value \in NameOrNone
    BY <1>1 DEF SettingEffect, SettingSound, NameOrNone
  <2> QED
    BY <2>1 DEF Accounts
<1>2. CASE c.kind = "timezone"
  <2>1. SettingEffect(c) = [account EXCEPT !.timezone = c.value] /\ c.value \in Timezones
    BY <1>2 DEF SettingEffect, SettingSound
  <2> QED
    BY <2>1 DEF Accounts
<1>3. CASE c.kind \in {"saveTelegram", "deleteTelegram"}
  <2>1. PICK chat \in ChatOrNone : SettingEffect(c) = [account EXCEPT !.chat = chat]
    BY <1>3 DEF SettingEffect, SettingSound, ChatOrNone
  <2> QED
    BY <2>1 DEF Accounts
<1>4. CASE c.kind \in {"consent", "revoke"}
  <2>1. PICK phone \in PhoneOrNone : SettingEffect(c) = [account EXCEPT !.phone = phone]
    BY <1>4 DEF SettingEffect, SettingSound, PhoneOrNone
  <2> QED
    BY <1>4, <2>1 DEF Accounts
<1>5. CASE c.kind \notin {"name", "timezone", "saveTelegram", "deleteTelegram", "consent", "revoke"}
  BY <1>5 DEF SettingEffect
<1> QED
  BY <1>1, <1>2, <1>3, <1>4, <1>5

\* A request is replaced by its answer.
LEMMA ReplacedKept ==
  ASSUME SettingsInv, UNCHANGED <<user, settingsPage, zonePicked>>,
         settingsMoves' \in 0 .. MaxSettingsMoves, account' \in Accounts,
         settingUnheard' \in BOOLEAN, NEW c \in settingsCalls, NEW new \in SettingCallSet,
         settingsCalls' = (settingsCalls \ {c}) \cup {new},
         new.kind = c.kind, new.value = c.value, new.mine = c.mine, new.seen = account',
         ~settingUnheard' =>
           /\ ~settingUnheard /\ ~(new.kind = "sms" /\ new.answer = "error")
           /\ ConsentMade(new) \/ (account'.phone = account.phone /\ ~ConsentMade(c))
  PROVE  SettingsInv'
<1>0. /\ settingsCalls \in SUBSET SettingCallSet /\ ConsentAsked(settingsPage, settingsCalls)
      /\ \A d \in settingsCalls : SettingSound(d)
  BY SettingsAre DEF SettingsInv
<1>1. SettingsTypeOK'
  <2>1. settingsCalls' \subseteq SettingCallSet
    BY <1>0
  <2> QED
    BY <2>1, Zenon DEF SettingsInv, SettingsTypeOK
<1>2. \A d \in settingsCalls' : SettingSound(d)
  BY <1>0 DEF SettingSound
<1>3. ConsentAsked(settingsPage, settingsCalls')
  BY <1>0 DEF ConsentAsked
<1>4. ASSUME ~settingUnheard' PROVE ConsentHeard(settingsPage, settingsCalls', account')
  <2>1. ConsentHeard(settingsPage, settingsCalls, account)
    BY <1>4 DEF SettingsInv
  <2>2. \A d \in settingsCalls' : ~(d.kind = "sms" /\ d.answer = "error")
    BY <1>4, <2>1 DEF ConsentHeard
  <2>3. CASE ConsentMade(new)
    <3>1. ~(\A d \in settingsCalls' : ~ConsentMade(d))
      BY <2>3
    <3>2. ASSUME NEW d \in settingsCalls', \A e \in settingsCalls' : ConsentMade(e) => e = d
          PROVE  d.seen.phone = account'.phone
      BY <2>3, <3>2
    <3> QED
      BY <2>2, <3>1, <3>2 DEF ConsentHeard
  <2>4. CASE ~ConsentMade(new)
    <3>1. account'.phone = account.phone /\ ~ConsentMade(c)
      BY <1>4, <2>4
    <3>2. \A d \in settingsCalls : ConsentMade(d) => d \in settingsCalls'
      BY <3>1
    <3>3. ASSUME NEW d \in settingsCalls', d.mine, d.kind \in SmsKinds, d.answer = "ok",
                 \A e \in settingsCalls' : ConsentMade(e) => e = d
          PROVE  d.seen.phone = account'.phone
      <4>1. CASE d = new
        BY <4>1
      <4>2. CASE d # new
        BY <2>1, <3>1, <3>2, <3>3, <4>2 DEF ConsentHeard
      <4> QED
        BY <4>1, <4>2
    <3> QED
      BY <2>1, <2>2, <3>1, <3>2, <3>3 DEF ConsentHeard
  <2> QED
    BY <2>3, <2>4
<1> QED
  BY <1>1, <1>2, <1>3, <1>4 DEF SettingsInv

LEMMA ServerKept ==
  ASSUME SettingsInv, NEW c \in settingsCalls, ServeSetting(c)
  PROVE  SettingsInv'
<1>0. /\ c \in SettingCallSet /\ account \in Accounts /\ SettingSound(c) /\ c.answer = "none"
      /\ settingUnheard \in BOOLEAN /\ settingsMoves \in 0 .. MaxSettingsMoves
  BY SettingsAre DEF SettingsInv, ServeSetting
<1>1. PICK answer \in {"ok", "error"} :
        /\ answer = "error" => c.kind = "saveTelegram"
        /\ account' = IF answer = "ok" THEN SettingEffect(c) ELSE account
        /\ settingsCalls' =
             (settingsCalls \ {c}) \cup {[c EXCEPT !.answer = answer, !.seen = account']}
  BY DEF ServeSetting
<1>2. UNCHANGED <<user, settingsPage, settingsMoves, zonePicked, settingUnheard>>
  BY DEF ServeSetting, settingsHistory
<1>3. /\ account' \in Accounts
      /\ c.kind \notin {"consent", "revoke"} => account'.phone = account.phone
  BY <1>0, <1>1, SettingEffectIs
<1> DEFINE new == [c EXCEPT !.answer = answer, !.seen = account']
<1>4. /\ new \in SettingCallSet /\ new.kind = c.kind /\ new.value = c.value /\ new.mine = c.mine
      /\ new.seen = account' /\ new.answer = answer
  BY <1>0, <1>3 DEF SettingCallSet
<1>5. settingsCalls' = (settingsCalls \ {c}) \cup {new}
  BY <1>1
<1> HIDE DEF new
<1>6. /\ ~(new.kind = "sms" /\ new.answer = "error")
      /\ ConsentMade(new) \/ (account'.phone = account.phone /\ ~ConsentMade(c))
  BY <1>0, <1>1, <1>3, <1>4 DEF ConsentMade
<1>7. settingsMoves' \in 0 .. MaxSettingsMoves /\ settingUnheard' \in BOOLEAN
  BY <1>0, <1>2
<1> QED
  BY <1>2, <1>3, <1>4, <1>5, <1>6, <1>7, ReplacedKept

LEMMA ConnectionKept ==
  ASSUME SettingsInv, NEW c \in settingsCalls, SettingFails(c)
  PROVE  SettingsInv'
<1>0. /\ c \in SettingCallSet /\ account \in Accounts /\ settingUnheard \in BOOLEAN
  BY SettingsAre DEF SettingsInv
<1> DEFINE new == [c EXCEPT !.answer = "error", !.seen = account]
<1>1. /\ settingsMoves' \in 0 .. MaxSettingsMoves
      /\ settingsCalls' = (settingsCalls \ {c}) \cup {new}
      /\ UNCHANGED <<account, user, settingsPage, zonePicked>>
  BY SettingsAre, SettingsAssumption DEF SettingFails, SettingsInv
<1>2. /\ new \in SettingCallSet /\ new.kind = c.kind /\ new.value = c.value /\ new.mine = c.mine
      /\ new.seen = account /\ new.answer = "error"
  BY <1>0 DEF SettingCallSet
<1> HIDE DEF new
<1>3. PICK b \in BOOLEAN :
        /\ settingUnheard' = b
        /\ b = (settingUnheard \/ c.kind = "sms" \/ (c.answer = "ok" /\ c.kind \in SettingChanges))
  BY DEF SettingFails
<1>4. ~settingUnheard' =>
        /\ ~settingUnheard /\ ~(new.kind = "sms" /\ new.answer = "error") /\ ~ConsentMade(c)
  BY <1>2, <1>3 DEF ConsentMade, SettingChanges
<1>5. new.seen = account' /\ account'.phone = account.phone /\ account' \in Accounts
  BY <1>0, <1>1, <1>2
<1>6. settingUnheard' \in BOOLEAN
  BY <1>3
<1> QED
  BY <1>1, <1>2, <1>4, <1>5, <1>6, ReplacedKept

\* An answer is taken, and may be followed by the request for the user.
LEMMA TakenKept ==
  ASSUME SettingsInv, NEW c \in settingsCalls, UNCHANGED account,
         user' \in [known : BOOLEAN, name : NameOrNone, timezone : Timezones],
         settingsMoves' \in 0 .. MaxSettingsMoves, zonePicked' \in BOOLEAN,
         settingUnheard' \in BOOLEAN, settingsPage' \in SettingsPageSet,
         NEW added \in SUBSET SettingCallSet, settingsCalls' = (settingsCalls \ {c}) \cup added,
         \A d \in added : d.kind = "me" /\ d.answer = "none",
         \/ SameConsent(settingsPage, settingsPage')
         \/ /\ c.mine /\ c.kind \in SmsKinds
            /\ c.answer = "ok" => settingsPage'.smsConsent = c.seen.phone
            /\ c.answer # "ok" => settingsPage'.smsConsent = settingsPage.smsConsent
            /\ c.kind # "sms" => settingsPage'.isLoadingSms = settingsPage.isLoadingSms,
         c.answer # "none" \/ c.kind \notin SmsKinds,
         ~settingUnheard' => ~settingUnheard /\ (ConsentMade(c) => c.mine),
         ConsentMade(c) /\ c.mine => ~SameConsent(settingsPage, settingsPage')
           \/ settingsPage'.smsConsent = c.seen.phone
  PROVE  SettingsInv'
<1>0. /\ settingsCalls \in SUBSET SettingCallSet /\ ConsentAsked(settingsPage, settingsCalls)
      /\ \A d \in settingsCalls : SettingSound(d)
  BY SettingsAre DEF SettingsInv
<1>1. SettingsTypeOK'
  <2>1. settingsCalls' \subseteq SettingCallSet
    BY <1>0
  <2> QED
    BY <2>1, Zenon DEF SettingsInv, SettingsTypeOK
<1>2. \A d \in settingsCalls' : SettingSound(d)
  BY <1>0 DEF SettingSound
<1>3. /\ \A d \in settingsCalls' : d.kind \in SmsKinds => d \in settingsCalls \ {c}
      /\ \A d \in settingsCalls' : ConsentMade(d) => d \in settingsCalls \ {c}
      /\ \A d \in settingsCalls \ {c} : d \in settingsCalls'
  BY DEF SmsKinds, ConsentMade
<1>4. ConsentAsked(settingsPage', settingsCalls')
  <2>1. CASE SameConsent(settingsPage, settingsPage')
    BY <1>0, <1>3, <2>1 DEF ConsentAsked, SameConsent, SmsKinds
  <2>2. CASE c.mine /\ c.kind \in SmsKinds
    <3>1. \A d \in settingsCalls' : ~(d.mine /\ d.kind \in SmsKinds)
      BY <1>0, <1>3, <2>2 DEF ConsentAsked
    <3> QED
      BY <3>1 DEF ConsentAsked, SmsKinds
  <2> QED
    BY <2>1, <2>2
<1>5. ASSUME ~settingUnheard' PROVE ConsentHeard(settingsPage', settingsCalls', account)
  <2>1. ConsentHeard(settingsPage, settingsCalls, account)
    BY <1>5 DEF SettingsInv
  <2>2. \A d \in settingsCalls' : ~(d.kind = "sms" /\ d.answer = "error")
    BY <1>3, <2>1 DEF ConsentHeard, SmsKinds
  <2>3. ASSUME NEW d \in settingsCalls', d.mine, d.kind \in SmsKinds, d.answer = "ok",
               \A e \in settingsCalls' : ConsentMade(e) => e = d
        PROVE  d.seen.phone = account.phone
    <3>1. d \in settingsCalls /\ d # c
      BY <1>3, <2>3
    <3>2. ~ConsentMade(c)
      <4>1. ~(c.mine /\ c.kind \in SmsKinds)
        BY <1>0, <2>3, <3>1 DEF ConsentAsked
      <4> QED
        BY <1>5, <4>1 DEF ConsentMade, SmsKinds
    <3>3. \A e \in settingsCalls : ConsentMade(e) => e = d
      BY <1>3, <2>3, <3>2
    <3> QED
      BY <2>1, <2>3, <3>1, <3>3 DEF ConsentHeard
  <2>4. ASSUME ~settingsPage'.isLoadingSms, \A d \in settingsCalls' : ~ConsentMade(d)
        PROVE  settingsPage'.smsConsent = account.phone
    <3>1. \A d \in settingsCalls : ConsentMade(d) => d = c
      BY <1>3, <2>4
    <3>2. CASE c.mine /\ c.kind \in SmsKinds /\ c.answer = "ok"
      <4>1. c.seen.phone = account.phone
        BY <2>1, <3>1, <3>2 DEF ConsentHeard
      <4>2. CASE settingsPage'.smsConsent = c.seen.phone
        BY <4>1, <4>2
      <4>3. CASE settingsPage'.smsConsent # c.seen.phone
        <5>1. c.kind = "sms" /\ SameConsent(settingsPage, settingsPage')
          BY <3>2, <4>3 DEF ConsentMade, SmsKinds
        <5>2. settingsPage'.isLoadingSms
          BY <1>0, <3>2, <5>1 DEF ConsentAsked, SameConsent
        <5> QED
          BY <2>4, <5>2
      <4> QED
        BY <4>2, <4>3
    <3>3. CASE ~(c.mine /\ c.kind \in SmsKinds /\ c.answer = "ok")
      <4>1. ~ConsentMade(c)
        BY <1>5, <3>3 DEF ConsentMade, SmsKinds
      <4>2. \A d \in settingsCalls : ~ConsentMade(d)
        BY <3>1, <4>1
      <4>3. settingsPage'.smsConsent = settingsPage.smsConsent
        BY <3>3 DEF SameConsent
      <4>4. ~settingsPage.isLoadingSms
        <5>1. CASE SameConsent(settingsPage, settingsPage')
          BY <2>4, <5>1 DEF SameConsent
        <5>2. CASE ~SameConsent(settingsPage, settingsPage')
          <6>1. c.mine /\ c.kind \in SmsKinds /\ c.answer # "ok" /\ c.answer # "none"
            BY <3>3, <5>2
          <6>2. c.answer = "error"
            BY <1>0, <6>1 DEF SettingCallSet
          <6>3. c.kind # "sms"
            BY <2>1, <6>2 DEF ConsentHeard
          <6> QED
            BY <2>4, <5>2, <6>3
        <5> QED
          BY <5>1, <5>2
      <4> QED
        BY <2>1, <4>2, <4>3, <4>4 DEF ConsentHeard
    <3> QED
      BY <3>2, <3>3
  <2> QED
    BY <2>2, <2>3, <2>4 DEF ConsentHeard
<1> QED
  BY <1>1, <1>2, <1>4, <1>5 DEF SettingsInv

LEMMA SettingAnsweredKept ==
  ASSUME SettingsInv, NEW c \in settingsCalls, SettingAnswered(c)
  PROVE  SettingsInv'
<1>0. /\ c \in SettingCallSet /\ account \in Accounts /\ settingUnheard \in BOOLEAN
      /\ user \in [known : BOOLEAN, name : NameOrNone, timezone : Timezones]
      /\ settingsPage \in SettingsPageSet /\ settingsMoves \in 0 .. MaxSettingsMoves
      /\ zonePicked \in BOOLEAN
  BY SettingsAre DEF SettingsInv
<1>1. /\ c.kind # "user" /\ c.answer # "none"
      /\ UNCHANGED <<account, user, settingsMoves, zonePicked>>
      /\ settingsCalls' = (settingsCalls \ {c}) \cup
           IF c.kind = "name" /\ c.answer = "ok"
           THEN {[Setting("me", "none") EXCEPT !.mine = c.mine]} ELSE {}
  BY Zenon DEF SettingAnswered
<1>2. PICK ok \in BOOLEAN :
        /\ ok = (c.answer = "ok")
        /\ settingsPage' = IF c.mine THEN AfterAnswer(c, ok) ELSE settingsPage
  BY Zenon DEF SettingAnswered
<1>3. PICK b \in BOOLEAN :
        /\ settingUnheard' = b
        /\ b = (settingUnheard \/ (c.answer = "ok" /\ c.kind \in SettingChanges /\ ~c.mine))
  BY DEF SettingAnswered
<1> DEFINE me == [Setting("me", "none") EXCEPT !.mine = c.mine]
<1>4. me \in SettingCallSet /\ me.kind = "me" /\ me.answer = "none"
  <2>1. "me" \in SettingKinds /\ "none" \in SettingValues /\ c.mine \in BOOLEAN
    BY <1>0 DEF SettingKinds, SettingValues, SettingCallSet
  <2> QED
    BY <1>0, <2>1, SettingIs
<1>5. PICK added \in SUBSET SettingCallSet :
        /\ settingsCalls' = (settingsCalls \ {c}) \cup added
        /\ \A d \in added : d.kind = "me" /\ d.answer = "none"
  <2>1. settingsCalls' = (settingsCalls \ {c}) \cup
          IF c.kind = "name" /\ c.answer = "ok" THEN {me} ELSE {}
    BY <1>1
  <2> HIDE DEF me
  <2>2. CASE c.kind = "name" /\ c.answer = "ok"
    <3>1. settingsCalls' = (settingsCalls \ {c}) \cup {me}
      BY <2>1, <2>2
    <3>2. {me} \in SUBSET SettingCallSet
      BY <1>4
    <3> QED
      BY <1>4, <3>1, <3>2
  <2>3. CASE ~(c.kind = "name" /\ c.answer = "ok")
    <3>1. settingsCalls' = (settingsCalls \ {c}) \cup {}
      BY <2>1, <2>3
    <3>2. {} \in SUBSET SettingCallSet /\ (\A d \in {} : d.kind = "me" /\ d.answer = "none")
      OBVIOUS
    <3> QED
      BY <3>1, <3>2
  <2> QED
    BY <2>2, <2>3
<1>6. /\ settingsPage' \in SettingsPageSet
      /\ \/ SameConsent(settingsPage, settingsPage')
         \/ /\ c.mine /\ c.kind \in SmsKinds
            /\ c.answer = "ok" => settingsPage'.smsConsent = c.seen.phone
            /\ c.answer # "ok" => settingsPage'.smsConsent = settingsPage.smsConsent
            /\ c.kind # "sms" => settingsPage'.isLoadingSms = settingsPage.isLoadingSms
      /\ ConsentMade(c) /\ c.mine => ~SameConsent(settingsPage, settingsPage')
           \/ settingsPage'.smsConsent = c.seen.phone
  <2>1. CASE c.mine
    <3>1. settingsPage' = AfterAnswer(c, ok)
      BY <1>2, <2>1
    <3> QED
      BY <1>0, <1>1, <1>2, <2>1, <3>1, AfterAnswerIs DEF ConsentMade, SmsKinds
  <2>2. CASE ~c.mine
    <3>1. settingsPage' = settingsPage
      BY <1>2, <2>2
    <3> QED
      BY <1>0, <2>2, <3>1 DEF SameConsent
  <2> QED
    BY <2>1, <2>2
<1>7. ~settingUnheard' => ~settingUnheard /\ (ConsentMade(c) => c.mine)
  BY <1>3 DEF ConsentMade, SettingChanges
<1>8. /\ UNCHANGED account
      /\ user' \in [known : BOOLEAN, name : NameOrNone, timezone : Timezones]
      /\ settingsMoves' \in 0 .. MaxSettingsMoves /\ zonePicked' \in BOOLEAN
      /\ settingUnheard' \in BOOLEAN
  BY <1>0, <1>1, <1>3
<1>9. c.answer # "none" \/ c.kind \notin SmsKinds
  BY <1>1
<1> QED
  BY <1>5, <1>6, <1>7, <1>8, <1>9, TakenKept

LEMMA PlainAnsweredKept ==
  ASSUME SettingsInv, NEW c \in settingsCalls, PlainAnswered(c)
  PROVE  SettingsInv'
<1>0. /\ c \in SettingCallSet /\ account \in Accounts /\ settingUnheard \in BOOLEAN
      /\ user \in [known : BOOLEAN, name : NameOrNone, timezone : Timezones]
      /\ settingsPage \in SettingsPageSet /\ settingsMoves \in 0 .. MaxSettingsMoves
      /\ settingsMoves \in Nat /\ zonePicked \in BOOLEAN
  BY SettingsAre DEF SettingsInv
<1>1. /\ c.kind \in Plain /\ settingsCalls' = (settingsCalls \ {c}) \cup {}
      /\ UNCHANGED <<account, user, zonePicked, settingUnheard>>
  BY DEF PlainAnswered, settingsHistory
<1>2. PICK ok \in BOOLEAN :
        /\ IF ok \/ c.kind = "test"
             THEN UNCHANGED settingsMoves
             ELSE settingsMoves < MaxSettingsMoves /\ settingsMoves' = settingsMoves + 1
        /\ settingsPage' = IF c.mine THEN AfterAnswer(c, ok) ELSE settingsPage
  BY Zenon DEF PlainAnswered
<1>3. settingsMoves' \in 0 .. MaxSettingsMoves
  BY <1>0, <1>2, SettingsAssumption
<1>4. c.kind \notin SmsKinds /\ c.kind # "user" /\ ~ConsentMade(c)
  BY <1>1 DEF Plain, SmsKinds, ConsentMade
<1>5. settingsPage' \in SettingsPageSet /\ SameConsent(settingsPage, settingsPage')
  <2>1. CASE c.mine
    BY <1>0, <1>2, <1>4, <2>1, AfterAnswerIs
  <2>2. CASE ~c.mine
    BY <1>0, <1>2, <2>2 DEF SameConsent
  <2> QED
    BY <2>1, <2>2
<1>6. {} \in SUBSET SettingCallSet /\ (\A d \in {} : d.kind = "me" /\ d.answer = "none")
  OBVIOUS
<1>7. /\ UNCHANGED account
      /\ user' \in [known : BOOLEAN, name : NameOrNone, timezone : Timezones]
      /\ zonePicked' \in BOOLEAN /\ settingUnheard' \in BOOLEAN
      /\ ~settingUnheard' => ~settingUnheard /\ (ConsentMade(c) => c.mine)
      /\ ConsentMade(c) /\ c.mine => ~SameConsent(settingsPage, settingsPage')
           \/ settingsPage'.smsConsent = c.seen.phone
  BY <1>0, <1>1, <1>4
<1> QED
  BY <1>1, <1>3, <1>4, <1>5, <1>6, <1>7, TakenKept

\* The session's user arrives.
LEMMA UserToldIs ==
  ASSUME NEW page \in SettingsPageSet,
         NEW u \in [known : BOOLEAN, name : NameOrNone, timezone : Timezones]
  PROVE  /\ UserTold(page, u) \in SettingsPageSet /\ SameConsent(page, UserTold(page, u))
         /\ page.editingName => UserTold(page, u).editNameValue = page.editNameValue
<1> DEFINE after == UserTold(page, u)
           name == IF page.editingName THEN page.editNameValue ELSE u.name
<1>1. after = [page EXCEPT !.user = u, !.editNameValue = name, !.selectedTimezone = u.timezone]
  BY DEF UserTold, SettingsPageSet
<1>2. name \in NameOrNone /\ u.timezone \in Timezones
  BY DEF SettingsPageSet
<1>3. page.editingName => name = page.editNameValue
  OBVIOUS
<1> HIDE DEF after, name
<1>4. /\ after \in SettingsPageSet /\ SameConsent(page, after) /\ after.editNameValue = name
  BY <1>1, <1>2 DEF SettingsPageSet, SameConsent
<1> QED
  BY <1>3, <1>4 DEF after

LEMMA UserLoadedKept ==
  ASSUME SettingsInv, NEW c \in settingsCalls, UserLoaded(c)
  PROVE  SettingsInv'
<1>0. /\ c \in SettingCallSet /\ account \in Accounts /\ settingUnheard \in BOOLEAN
      /\ user \in [known : BOOLEAN, name : NameOrNone, timezone : Timezones]
      /\ settingsPage \in SettingsPageSet /\ settingsMoves \in 0 .. MaxSettingsMoves
      /\ zonePicked \in BOOLEAN
  BY SettingsAre DEF SettingsInv
<1>1. /\ c.kind = "user" /\ c.answer # "none" /\ settingsCalls' = (settingsCalls \ {c}) \cup {}
      /\ UNCHANGED <<account, settingsMoves, settingUnheard>>
  BY DEF UserLoaded
<1>2. /\ user' \in [known : BOOLEAN, name : NameOrNone, timezone : Timezones]
      /\ settingsPage' \in SettingsPageSet /\ SameConsent(settingsPage, settingsPage')
      /\ zonePicked' \in BOOLEAN
  <2>1. CASE /\ user' = User(c.seen) /\ settingsPage' = UserTold(settingsPage, user')
             /\ zonePicked' = FALSE
    <3>1. user' \in [known : BOOLEAN, name : NameOrNone, timezone : Timezones]
      BY <1>0, <2>1 DEF User, SettingCallSet, Accounts
    <3> QED
      BY <1>0, <2>1, <3>1, UserToldIs
  <2>2. CASE UNCHANGED <<user, settingsPage, zonePicked>>
    BY <1>0, <2>2 DEF SameConsent
  <2> QED
    BY <2>1, <2>2, Zenon DEF UserLoaded
<1>3. ~ConsentMade(c) /\ c.kind \notin SmsKinds
  BY <1>1 DEF ConsentMade, SmsKinds
<1>4. {} \in SUBSET SettingCallSet /\ (\A d \in {} : d.kind = "me" /\ d.answer = "none")
  OBVIOUS
<1>5. /\ UNCHANGED account /\ settingUnheard' \in BOOLEAN
      /\ settingsMoves' \in 0 .. MaxSettingsMoves
      /\ ~settingUnheard' => ~settingUnheard /\ (ConsentMade(c) => c.mine)
      /\ ConsentMade(c) /\ c.mine => ~SameConsent(settingsPage, settingsPage')
           \/ settingsPage'.smsConsent = c.seen.phone
  BY <1>0, <1>1, <1>3
<1> QED
  BY <1>1, <1>2, <1>3, <1>4, <1>5, TakenKept

LEMMA SettingsInitially == SettingsInit => SettingsInv
<1> SUFFICES ASSUME SettingsInit PROVE SettingsInv
  OBVIOUS
<1>1. DefaultTimezone \in Timezones
  BY SettingsAssumption DEF DefaultTimezone
<1>2. /\ account \in Accounts /\ user \in {NoUser, User(account)}
      /\ settingsMoves = 0 /\ zonePicked = FALSE /\ settingUnheard = FALSE
  BY DEF SettingsInit
<1>3. user \in [known : BOOLEAN, name : NameOrNone, timezone : Timezones]
  <2>1. CASE user = NoUser
    BY <1>1, <2>1 DEF NoUser, NameOrNone
  <2>2. CASE user = User(account)
    BY <1>2, <2>2 DEF User, NameOrNone, Accounts
  <2> QED
    BY <1>2, <2>1, <2>2
<1>4. settingsPage \in SettingsPageSet /\ settingsPage.isLoadingSms
  <2>1. PICK section \in Sections : settingsPage = [FreshSettings(user) EXCEPT !.section = section]
    BY DEF SettingsInit, Sections
  <2>2. FreshSettings(user) \in SettingsPageSet /\ FreshSettings(user).isLoadingSms
    BY <1>3, FreshIs
  <2> QED
    BY <2>1, <2>2 DEF SettingsPageSet
<1>5. ASSUME NEW c \in settingsCalls
      PROVE  /\ c \in SettingCallSet /\ SettingSound(c) /\ c.answer = "none"
             /\ c.kind \notin {"consent", "revoke"}
             /\ c.kind = "sms" => c = Setting("sms", "none")
  <2>1. PICK kind \in Loads \cup {"user"} : c = Setting(kind, "none")
    BY DEF SettingsInit, OpeningCalls
  <2>2. kind \in SettingKinds /\ "none" \in SettingValues
    BY DEF SettingKinds, SettingValues
  <2>3. c \in SettingCallSet /\ c.kind = kind /\ c.answer = "none"
    BY <1>2, <2>1, <2>2, SettingAsked
  <2>4. kind \notin {"name", "timezone", "saveTelegram", "consent", "revoke"}
    BY DEF Loads
  <2> QED
    BY <2>1, <2>3, <2>4 DEF SettingSound
<1>6. SettingsTypeOK
  <2>1. settingsCalls \subseteq SettingCallSet
    BY <1>5
  <2>2. settingsMoves \in 0 .. MaxSettingsMoves
    BY <1>2, SettingsAssumption
  <2> QED
    BY <1>2, <1>3, <1>4, <2>1, <2>2 DEF SettingsTypeOK
<1>7. ConsentAsked(settingsPage, settingsCalls)
  BY <1>4, <1>5 DEF ConsentAsked, SmsKinds
<1>8. ConsentHeard(settingsPage, settingsCalls, account)
  BY <1>4, <1>5 DEF ConsentHeard
<1> QED
  BY <1>5, <1>6, <1>7, <1>8 DEF SettingsInv

LEMMA SettingsStep == SettingsInv /\ [SettingsNext]_settingsVars => SettingsInv'
<1> SUFFICES ASSUME SettingsInv, [SettingsNext]_settingsVars PROVE SettingsInv'
  OBVIOUS
<1>1. CASE UNCHANGED settingsVars
  BY <1>1 DEF settingsVars, settingsHistory, SettingsInv, SettingsTypeOK
<1>2. CASE \/ StartEditName \/ CancelEditName \/ TogglePasswordChange \/ ToggleTokenInput
           \/ \E n \in NameOrNone : TypeName(n)
           \/ \E p \in {"none", "short", "valid"} : TypePassword(p)
           \/ \E z \in Timezones : PickTimezone(z)
           \/ \E token \in BOOLEAN, chat \in ChatOrNone : TypeTelegram(token, chat)
           \/ \E phone \in PhoneOrNone \cup {"bad"}, checked \in BOOLEAN : TypeSms(phone, checked)
           \/ \E section \in Sections : SetSection(section)
  BY <1>2, ClicksKept
<1>3. CASE \/ SaveName \/ SavePassword \/ SaveTimezone \/ TestConnection \/ SaveTelegramConfig
           \/ DeleteTelegramConfig \/ SaveSmsConsent \/ RevokeSmsConsent
  BY <1>3, SavesKept
<1>4. CASE ReopenSettings
  BY <1>4, ReopenKept
<1>5. ASSUME NEW c \in settingsCalls,
             \/ ServeSetting(c) \/ SettingFails(c)
             \/ SettingAnswered(c) \/ PlainAnswered(c) \/ UserLoaded(c)
      PROVE  SettingsInv'
  BY <1>5, ServerKept, ConnectionKept, SettingAnsweredKept, PlainAnsweredKept, UserLoadedKept
<1> QED
  BY <1>1, <1>2, <1>3, <1>4, <1>5, ZenonT(60) DEF SettingsNext

\* The types of the settings page, of its requests and of what the server stores.
THEOREM SettingTypes == SettingsSpec => []SettingsTypeOK
<1>1. SettingsInv => SettingsTypeOK
  BY DEF SettingsInv
<1> QED
  BY <1>1, SettingsInitially, SettingsStep, PTL DEF SettingsSpec

LEMMA ConsentShown == SettingsInv => ConsentIsCurrent
BY DEF SettingsInv, ConsentHeard, ConsentMade, ConsentIsCurrent

\* When no request about the consent is in flight, the consent that is shown is the stored one
\* (loadSmsConsent, saveSmsConsent and revokeSmsConsent never overlap on a page).
THEOREM ConsentCurrent == SettingsSpec => []ConsentIsCurrent
BY ConsentShown, SettingsInitially, SettingsStep, PTL DEF SettingsSpec

\* What changes the typed name while it is being edited is a move of the user.
LEMMA NameTyped ==
  ASSUME SettingsInv, [SettingsNext]_settingsVars, settingsPage.editingName,
         settingsPage'.editingName, settingsPage'.editNameValue # settingsPage.editNameValue
  PROVE  settingsMoves' # settingsMoves
<1>0. /\ settingsCalls \in SUBSET SettingCallSet /\ settingsPage \in SettingsPageSet
      /\ settingsMoves \in Nat
  BY SettingsAre DEF SettingsInv
<1>1. ASSUME settingsMoves' = settingsMoves + 1 PROVE settingsMoves' # settingsMoves
  BY <1>0, <1>1
<1>2. ASSUME NEW c \in settingsCalls, SettingAnswered(c) \/ PlainAnswered(c) PROVE FALSE
  <2>1. c.kind # "user"
    BY <1>2 DEF SettingAnswered, PlainAnswered, Plain
  <2>2. PICK ok \in BOOLEAN : settingsPage' = IF c.mine THEN AfterAnswer(c, ok) ELSE settingsPage
    BY <1>2, Zenon DEF SettingAnswered, PlainAnswered
  <2> QED
    BY <1>0, <2>1, <2>2, AfterAnswerIs
<1>3. ASSUME NEW c \in settingsCalls, UserLoaded(c) PROVE FALSE
  <2>1. /\ c \in SettingCallSet
        /\ \/ user' = User(c.seen) /\ settingsPage' = UserTold(settingsPage, user')
           \/ UNCHANGED settingsPage
    BY <1>0, <1>3 DEF UserLoaded
  <2>2. User(c.seen) \in [known : BOOLEAN, name : NameOrNone, timezone : Timezones]
    BY <2>1 DEF User, SettingCallSet, Accounts
  <2> QED
    BY <1>0, <2>1, <2>2, UserToldIs
<1>4. \/ settingsMoves' = settingsMoves + 1 \/ UNCHANGED settingsPage
      \/ \E c \in settingsCalls : SettingAnswered(c) \/ PlainAnswered(c) \/ UserLoaded(c)
  <2>1. CASE UNCHANGED settingsVars
    BY <2>1 DEF settingsVars
  <2>2. CASE \/ StartEditName \/ CancelEditName \/ TogglePasswordChange \/ ToggleTokenInput
             \/ \E n \in NameOrNone : TypeName(n)
             \/ \E p \in {"none", "short", "valid"} : TypePassword(p)
             \/ \E z \in Timezones : PickTimezone(z)
             \/ \E token \in BOOLEAN, chat \in ChatOrNone : TypeTelegram(token, chat)
             \/ \E phone \in PhoneOrNone \cup {"bad"}, checked \in BOOLEAN : TypeSms(phone, checked)
             \/ \E section \in Sections : SetSection(section)
    BY <2>2, ZenonT(30)
       DEF StartEditName, CancelEditName, TogglePasswordChange, ToggleTokenInput, TypeName,
           TypePassword, PickTimezone, TypeTelegram, TypeSms, SetSection, MoveIn, SettingsMove
  <2>3. CASE \/ SaveName \/ SavePassword \/ SaveTimezone \/ TestConnection \/ SaveTelegramConfig
             \/ DeleteTelegramConfig \/ SaveSmsConsent \/ RevokeSmsConsent \/ ReopenSettings
    BY <2>3, ZenonT(30)
       DEF SaveName, SavePassword, SaveTimezone, TestConnection, SaveTelegramConfig,
           DeleteTelegramConfig, SaveSmsConsent, RevokeSmsConsent, ReopenSettings, MoveIn,
           SettingsMove
  <2>4. CASE \E c \in settingsCalls : ServeSetting(c) \/ SettingFails(c)
    BY <2>4, Zenon DEF ServeSetting, SettingFails
  <2>5. CASE \E c \in settingsCalls : SettingAnswered(c) \/ PlainAnswered(c) \/ UserLoaded(c)
    BY <2>5
  <2> QED
    BY <2>1, <2>2, <2>3, <2>4, <2>5, ZenonT(60) DEF SettingsNext
<1> QED
  BY <1>1, <1>2, <1>3, <1>4

LEMMA NameKept ==
  SettingsInv /\ [SettingsNext]_settingsVars =>
    [settingsPage.editingName /\ settingsPage'.editingName
       /\ settingsPage'.editNameValue # settingsPage.editNameValue
     => settingsMoves' # settingsMoves]_settingsVars
BY NameTyped

\* The name that is being edited is never replaced by an answer (the session's user arrives
\* late and leaves editNameValue alone).
THEOREM NameStays == SettingsSpec => TypedNameStays
BY NameKept, SettingsInitially, SettingsStep, PTL DEF SettingsSpec, TypedNameStays

-------------------------------------------------------------------------------
(* The pages together                                                      *)

AuthoringInv ==
  /\ authoringPage \in AuthoringRoutes
  /\ BuilderInv /\ RegistryInv /\ EditorInv /\ FilterInv /\ StrategiesCounted /\ SettingsInv

LEMMA AuthoringInitially == AuthoringInit => AuthoringInv
BY BuilderInitially, RegistryInitially, EditorInitially, FilterInitially, StrategiesInitially,
   SettingsInitially DEF AuthoringInit, AuthoringInv

LEMMA AuthoringStep == AuthoringInv /\ [AuthoringNext]_authoringVars => AuthoringInv'
<1> SUFFICES ASSUME AuthoringInv, [AuthoringNext]_authoringVars PROVE AuthoringInv'
  OBVIOUS
<1>1. /\ [BuilderNext]_builderVars /\ [PipelinesNext]_pipelineVars /\ [ScannersNext]_scannerVars
      /\ [StrategiesNext]_strategyVars /\ [SettingsNext]_settingsVars
      /\ UNCHANGED authoringPage
  BY Zenon DEF AuthoringNext, authoringVars
<1>2. /\ BuilderInv /\ RegistryInv /\ EditorInv /\ FilterInv /\ StrategiesCounted /\ SettingsInv
      /\ authoringPage \in AuthoringRoutes
  BY DEF AuthoringInv
<1>3. BuilderInv'
  BY <1>1, <1>2, BuilderStep
<1>4. RegistryInv'
  BY <1>1, <1>2, RegistryStep
<1>5. EditorInv' /\ FilterInv'
  BY <1>1, <1>2, EditorStep, FilterStep
<1>6. StrategiesCounted'
  BY <1>1, <1>2, StrategiesStep
<1>7. SettingsInv'
  BY <1>1, <1>2, SettingsStep
<1>8. authoringPage' \in AuthoringRoutes
  BY <1>1, <1>2
<1> QED
  BY <1>3, <1>4, <1>5, <1>6, <1>7, <1>8 DEF AuthoringInv

LEMMA AuthoringIsInvariant == AuthoringSpec => []AuthoringInv
BY AuthoringInitially, AuthoringStep, PTL DEF AuthoringSpec

\* Every page keeps its types, whichever one is open.
THEOREM AuthoringTypes == AuthoringSpec => []AuthoringTypeOK
<1>1. AuthoringInv => AuthoringTypeOK
  <2> SUFFICES ASSUME AuthoringInv PROVE AuthoringTypeOK
    OBVIOUS
  <2>1. authoringPage \in AuthoringRoutes
    BY DEF AuthoringInv
  <2>2. BuilderTypeOK
    BY DEF AuthoringInv, BuilderInv, TypeInv
  <2>3. PipelinesTypeOK
    BY DEF AuthoringInv, RegistryInv
  <2>4. ScannersTypeOK
    BY ScannersAreTyped DEF AuthoringInv
  <2>5. StrategiesTypeOK
    BY DEF AuthoringInv, StrategiesCounted, StrategiesInv
  <2>6. SettingsTypeOK
    BY DEF AuthoringInv, SettingsInv
  <2> QED
    BY <2>1, <2>2, <2>3, <2>4, <2>5, <2>6, Zenon DEF AuthoringTypeOK
<1> QED
  BY <1>1, AuthoringIsInvariant, PTL

\* What the builder shows at rest is stored, what it calls fully configured can run, and what
\* the other pages show when nothing is on its way is stored.
THEOREM AuthoringShows ==
  AuthoringSpec => [](ShownIsStored /\ SavedIsShown /\ StoredIsSound)
<1>1. AuthoringInv => ShownIsStored
  BY RegistryShown, FilterShown, PagesShown, ConsentShown DEF AuthoringInv, ShownIsStored
<1>2. AuthoringInv => SavedIsShown /\ StoredIsSound
  BY SavedHolds, SoundHolds DEF AuthoringInv
<1> QED
  BY <1>1, <1>2, AuthoringIsInvariant, PTL

\* What is typed is not replaced by an answer, and staged edits are sent with a save; and the
\* editor of a scanner changes no other.
THEOREM AuthoringTypings == AuthoringSpec => TypingIsKept /\ EditorKeepsToItsScanner
<1> DEFINE DraftStays == /\ strategyPage.view = "detail" /\ strategyPage.editing
                         /\ strategyPage'.editing /\ strategyPage'.id = strategyPage.id
                         => strategyPage'.edited = strategyPage.edited
                              \/ strategyCalls' = strategyCalls
           NameTypedAlone == settingsPage.editingName /\ settingsPage'.editingName
                             /\ settingsPage'.editNameValue # settingsPage.editNameValue
                             => settingsMoves' # settingsMoves
<1>1. AuthoringInv /\ [AuthoringNext]_authoringVars =>
        DraftStays /\ NameTypedAlone /\ StagedSent /\ EditorSends
  <2> SUFFICES ASSUME AuthoringInv, [AuthoringNext]_authoringVars
               PROVE  DraftStays /\ NameTypedAlone /\ StagedSent /\ EditorSends
    OBVIOUS
  <2>1. /\ [BuilderNext]_builderVars /\ [ScannersNext]_scannerVars
        /\ [StrategiesNext]_strategyVars /\ [SettingsNext]_settingsVars
    BY Zenon DEF AuthoringNext, authoringVars
  <2>2. /\ TypeInv /\ EditorInv /\ StrategiesInv /\ SettingsInv
    BY DEF AuthoringInv, BuilderInv, StrategiesCounted
  <2>3. DraftStays
    BY <2>1, <2>2, DraftsStay
  <2>4. NameTypedAlone
    BY <2>1, <2>2, NameTyped
  <2> HIDE DEF DraftStays, NameTypedAlone
  <2> QED
    BY <2>1, <2>2, <2>3, <2>4, StagedStep, EditorSendsIt
<1>2. /\ DraftsAreTyped <=> [][DraftStays]_strategyVars
      /\ TypedNameStays <=> [][NameTypedAlone]_settingsVars
      /\ StagedIsSent <=> [][StagedSent]_builderVars
      /\ EditorKeepsToItsScanner <=> [][EditorSends]_scannerVars
  BY DEF DraftsAreTyped, TypedNameStays, StagedIsSent, StagedSent, EditorKeepsToItsScanner,
         EditorSends
<1>3. TypingIsKept <=> DraftsAreTyped /\ TypedNameStays /\ StagedIsSent
  BY DEF TypingIsKept
<1> HIDE DEF DraftStays, NameTypedAlone
<1> QED
  BY <1>1, <1>2, <1>3, AuthoringIsInvariant, PTL DEF AuthoringSpec
===============================================================================
