---------------------------- MODULE ParcelSync -----------------------------
(***************************************************************************)
(* ParcelsSyncService.runFullSync: the daily pull of the county's commercial *)
(* parcels into the parcel table, and the guards under which the parcels the *)
(* pull did not see are marked inactive; with the crash of the process, the  *)
(* boot-time recovery and the admin's restore.                               *)
(*                                                                           *)
(* The enrichment refreshes single parcels beside it: it asks the county for *)
(* a PIN whatever its class and stores the class it gets, so a parcel of the *)
(* table need no longer be a commercial one.                                 *)
(*                                                                           *)
(* It consumes the pull of LayerPull: each row yielded is upserted by its    *)
(* PIN.  One sync runs at a time (one ingestion worker, concurrency 1).      *)
(***************************************************************************)
EXTENDS LayerPull, Sequences

CONSTANTS
  PinOf,        \* PinOf[r]: the PIN of row r, or NoPin
  NoPin,        \* a row whose PIN field is empty: mapped to nothing
  Sources,      \* SyncRun.source: "arcgis_parcels" and "arcgis_parcels_daily"
  CompletePct,  \* 95: rows that must be seen, in percent of the county's count
  DropPct,      \* 70: rows that must be upserted, in percent of the last success
  Pasts,        \* what earlier days left: the PINs of the parcel table, those
                \* active and those stored as commercial, and the SyncRun table
  Layers,       \* the layers of the county to start from
  MaxRuns       \* bound of the model: rows of the SyncRun table

NoCount == -1

AllPins == {PinOf[r] : r \in Rows} \ {NoPin}

RunRows ==
  [source : Sources, status : {"running", "success", "failed"}, upserted : Nat]

ASSUME SyncAssumption ==
  /\ PinOf \in [Rows -> AllPins \cup {NoPin}]
  /\ NoPin \notin AllPins
  /\ CompletePct \in 0..100 /\ DropPct \in 0..100
  /\ MaxRuns \in Nat
  /\ Layers \subseteq SUBSET Rows
  /\ Pasts \subseteq [known : SUBSET AllPins, active : SUBSET AllPins,
                       commercial : SUBSET AllPins, runs : Seq(RunRows)]
  /\ \A past \in Pasts : past.active \cup past.commercial \subseteq past.known

VARIABLES
  pc,         \* where runFullSync stands
  known,      \* PINs of the parcel table
  activePins, \* those with isActive
  commercial, \* those whose stored propType or landUseCode is a commercial one,
              \* which is what isCommercial says: the three are written together
  runs,       \* the SyncRun table, oldest first
  expected,   \* expectedCount, or NoCount
  seenPins,   \* seenPins of the current sync
  upserted,   \* recordsUpserted of the current sync
  boot,       \* onModuleInit's recovery: "check", "heal" or "up"
  stable      \* nobody edited the layer since the county's count (not code)

syncVars ==
  <<pc, known, activePins, commercial, runs, expected, seenPins, upserted, boot, stable>>
allVars == <<vars, syncVars>>

Syncing == pc # "idle"

PinsOf(S) == {PinOf[r] : r \in S} \ {NoPin}

----------------------------------------------------------------------------
Init ==
  /\ InitPull
  /\ layer \in Layers
  /\ pc = "idle"
  /\ \E past \in Pasts :
       /\ known = past.known
       /\ activePins = past.active
       /\ commercial = past.commercial
       /\ runs = past.runs
  /\ expected = NoCount
  /\ seenPins = {}
  /\ upserted = 0
  /\ boot = "check"
  /\ stable = TRUE

\* runFullSync(source): the SyncRun row is created.
Begin(s) ==
  /\ pc = "idle"
  /\ Len(runs) < MaxRuns
  /\ runs' = Append(runs, [source |-> s, status |-> "running", upserted |-> 0])
  /\ pc' = "count"
  /\ seenPins' = {}
  /\ upserted' = 0
  /\ expected' = NoCount
  /\ UNCHANGED <<vars, known, activePins, commercial, boot, stable>>

\* countFeatures(where); its failure is caught and leaves no count.
Count ==
  /\ pc = "count"
  /\ expected' \in {Cardinality(layer), NoCount}
  /\ stable' = TRUE
  /\ pc' = "open"
  /\ UNCHANGED <<vars, known, activePins, commercial, runs, seenPins, upserted, boot>>

\* The generator reads the layer's metadata.
Open ==
  /\ pc = "open"
  /\ StartPull
  /\ pc' = "pull"
  /\ UNCHANGED <<known, activePins, commercial, runs, expected, seenPins, upserted, boot, stable>>

Pull ==
  /\ pc = "pull"
  /\ PullStep
  /\ UNCHANGED syncVars

\* Mutant: an upsert that leaves isActive as it is on update.
UpsertKeepingFlag(pin) ==
  /\ known' = known \cup {pin}
  /\ activePins' = IF pin \in known THEN activePins ELSE activePins \cup {pin}
  /\ commercial' = commercial \cup {pin}

\* Mutant: a failed upsert is swallowed, after its PIN was counted as seen.
UpsertSwallowed(pin) ==
  \/ /\ known' = known \cup {pin}
     /\ activePins' = activePins \cup {pin}
     /\ commercial' = commercial \cup {pin}
  \/ UNCHANGED <<known, activePins, commercial>>

\* parcel.upsert: created or updated, active either way, with the row's class,
\* which is a commercial one: the `where' of the pull asks for no other.
Upsert(pin) ==
  /\ known' = known \cup {pin}
  /\ activePins' = activePins \cup {pin}
  /\ commercial' = commercial \cup {pin}

\* One row of the pull: mapped and upserted, or skipped when it has no PIN.
\* (The numbers saved every 500 rows are only shown, until the run has ended.)
TakeRow ==
  /\ pc = "pull"
  /\ \E r \in page :
       /\ Yield(r)
       /\ \/ /\ PinOf[r] = NoPin
             /\ UNCHANGED <<known, activePins, commercial, seenPins, upserted>>
          \/ /\ PinOf[r] # NoPin
             /\ seenPins' = seenPins \cup {PinOf[r]}
             /\ Upsert(PinOf[r])
             /\ upserted' = upserted + 1
  /\ UNCHANGED <<pc, runs, expected, boot, stable>>

\* Mutant: the baseline is the latest finished run, failed ones included.
PreviousUpsertedAnyEnd ==
  LET mine == {i \in 1..Len(runs) :
                 /\ runs[i].status \in {"success", "failed"}
                 /\ runs[i].source = runs[Len(runs)].source}
  IN  IF mine = {} THEN 0 ELSE runs[CHOOSE i \in mine : \A j \in mine : j <= i].upserted

\* recordsUpserted of the latest success of the same source, 0 when none.
PreviousUpserted ==
  LET mine == {i \in 1..Len(runs) :
                 /\ runs[i].status = "success"
                 /\ runs[i].source = runs[Len(runs)].source}
  IN  IF mine = {} THEN 0 ELSE runs[CHOOSE i \in mine : \A j \in mine : j <= i].upserted

Floor(pct, n) == (pct * n) \div 100

\* Mutant: a missing count does not stop the deactivation.
CompleteUnlessCounted == expected = NoCount \/ yields >= Floor(CompletePct, expected)

Complete == expected # NoCount /\ yields >= Floor(CompletePct, expected)

NoDrop == PreviousUpserted = 0 \/ upserted >= Floor(DropPct, PreviousUpserted)

\* Mutant: no check that the pull saw any PIN.
SparedWithoutPinCheck ==
  CASE ~Complete -> "incomplete"
    [] Complete /\ ~NoDrop -> "drop"
    [] OTHER -> "no"

\* Why the deactivation is skipped, or "no".
Spared ==
  CASE seenPins = {} -> "no pins seen"
    [] seenPins # {} /\ ~Complete -> "incomplete"
    [] seenPins # {} /\ Complete /\ ~NoDrop -> "drop"
    [] OTHER -> "no"

\* The parcels the deactivating update takes: not seen, and commercial as stored.
Retired == commercial \ seenPins

\* The pull has ended: the commercial parcels it did not see become inactive,
\* unless one of the guards spares them.
Settle ==
  /\ pc = "pull"
  /\ stage = "done"
  /\ activePins' = IF Spared = "no" THEN activePins \ Retired ELSE activePins
  /\ pc' = "close"
  /\ UNCHANGED <<vars, known, commercial, runs, expected, seenPins, upserted, boot, stable>>

\* runFullSync is left: its locals and the generator's are gone.
Leave ==
  /\ pc' = "idle"
  /\ stage' = "off" /\ offset' = 0 /\ idsLeft' = {} /\ page' = {}
  /\ more' = FALSE /\ yields' = 0 /\ delivered' = {} /\ lost' = 0
  /\ expected' = NoCount /\ upserted' = 0
  /\ UNCHANGED <<mode, layerVars>>

\* syncRun.update: the run's row gets its end and its numbers.
EndRun(end) ==
  runs' = [runs EXCEPT ![Len(runs)] =
             [source |-> @.source, status |-> end, upserted |-> upserted]]

\* The run is recorded as a success, deactivation skipped or not.
Succeed ==
  /\ pc = "close"
  /\ EndRun("success")
  /\ Leave
  /\ UNCHANGED <<known, activePins, commercial, seenPins, boot, stable>>

\* A request or a query throws anywhere: the run is recorded as failed, unless
\* that query fails too.
Fail ==
  /\ Syncing
  /\ EndRun("failed") \/ UNCHANGED runs
  /\ Leave
  /\ UNCHANGED <<known, activePins, commercial, seenPins, boot, stable>>

\* The process dies and starts again: a sync in progress leaves its row running.
Crash ==
  /\ boot' = "check"
  /\ Leave
  /\ UNCHANGED <<known, activePins, commercial, runs, seenPins, stable>>

\* reactivateCommercialIfEmpty: no commercial parcel active, and some inactive.
NeedsHeal == commercial \cap activePins = {} /\ commercial # {}

\* onModuleInit counts the parcels; workers may already be running.
HealCheck ==
  /\ boot = "check"
  /\ boot' = IF NeedsHeal THEN "heal" ELSE "up"
  /\ UNCHANGED <<vars, pc, known, activePins, commercial, runs, expected, seenPins, upserted, stable>>

\* The update that follows reactivates every inactive commercial parcel.
Heal ==
  /\ boot = "heal"
  /\ activePins' = activePins \cup commercial
  /\ boot' = "up"
  /\ UNCHANGED <<vars, pc, known, commercial, runs, expected, seenPins, upserted, stable>>

\* POST /admin/parcels/reactivate; HTTP is served once the modules are up.
RestoreAll ==
  /\ boot = "up"
  /\ activePins' = activePins \cup commercial
  /\ UNCHANGED <<vars, pc, known, commercial, runs, expected, seenPins, upserted, boot, stable>>

CountyEdits ==
  /\ RemoveRow \/ AddRow
  /\ stable' = FALSE
  /\ UNCHANGED <<pc, known, activePins, commercial, runs, expected, seenPins, upserted, boot>>

\* The enrichment of a parcel asks the county for its PIN, with no `where' on
\* the class, and stores the class that came, however old the answer is by then.
Reclassify ==
  /\ changes < MaxChanges
  /\ changes' = changes + 1
  /\ \E pin \in known : commercial' \in {commercial \cup {pin}, commercial \ {pin}}
  /\ UNCHANGED <<pullVars, layer, present, removed, added>>
  /\ UNCHANGED <<pc, known, activePins, runs, expected, seenPins, upserted, boot, stable>>

SyncNext ==
  \/ \E s \in Sources : Begin(s)
  \/ Count \/ Open \/ Pull \/ TakeRow \/ Settle \/ Succeed
  \/ Fail \/ Crash \/ HealCheck \/ Heal \/ RestoreAll \/ CountyEdits \/ Reclassify

SyncSpec == Init /\ [][SyncNext]_allVars

\* A sync that pulls goes on: its request or upsert ends with a result, or with
\* an exception that ends the sync.
FairSyncSpec == SyncSpec /\ WF_allVars(Pull \/ TakeRow \/ Fail)
----------------------------------------------------------------------------
\* runFullSync, recovery and restore, whatever fails between, do to the parcel table
\* what ParcelInventory says and no more: in particular a parcel is taken out of use
\* only by the end of a pull that saw others and did not see it.
Table == INSTANCE ParcelInventory WITH known <- known, active <- activePins, seen <- seenPins

KeepsInventory == Table!Spec

\* Whatever the pull returned, no sync takes the inventory from some active
\* parcels to none: the state the boot-time recovery was written for.
NeverEmptied == [][activePins # {} => activePins' # {}]_allVars

\* What the sync has just seen stays active until the next one, whatever else
\* (recovery, restore, a failure, a crash) happens meanwhile.
SeenStayActive == seenPins \subseteq activePins

Settling == pc = "pull" /\ pc' = "close"

\* A sync whose count and pull met a layer nobody edited, on a server that held
\* no row back, leaves every parcel of the county active and, beside these, only
\* what the enrichment has found to be of another class: such a parcel is never
\* retired, though the county's layer no longer lists it.  Only the comparison
\* with a larger last success can spare the others.
ExactWhenStable ==
  [][Settling /\ stable /\ lost = 0 /\ expected # NoCount /\ PinsOf(layer) # {} =>
       Spared = "drop" \/ activePins' = PinsOf(layer) \cup (activePins \ commercial)]_allVars

\* Against a server that ends a pull early, the completeness guard lets at most
\* five percent of the county's count be marked inactive by mistake.
MistakesBounded ==
  [][Settling /\ stable /\ activePins' # activePins =>
       Cardinality(layer \ delivered) <= expected - Floor(CompletePct, expected)]_allVars

\* The first sync after a drop deactivates nothing: one that deactivates
\* upserted at least DropPct percent of what the last success of its source
\* did, however many failed, crashed or foreign runs lie between the two.
FirstDropSpares ==
  [][\A i \in 1..Len(runs) :
       /\ Settling /\ activePins' # activePins
       /\ runs[i].status = "success" /\ runs[i].source = runs[Len(runs)].source
       /\ \A j \in (i + 1)..Len(runs) :
            runs[j].status = "success" => runs[j].source # runs[i].source
       => upserted >= Floor(DropPct, runs[i].upserted)]_allVars
=============================================================================
