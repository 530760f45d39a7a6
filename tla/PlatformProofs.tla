--------------------------- MODULE PlatformProofs ---------------------------
EXTENDS MCPlatform, FiniteSetTheorems, SequenceTheorems, WellFoundedInduction, TLAPS

(***************************************************************************)
(* Lock files.  As long as no file of a working process was removed, who   *)
(* works is the owner of the file (Exclusive).  As long as no process has  *)
(* died or been too slow, a file belongs to a process that works, none is  *)
(* stale and nobody is about to remove one (Faultless).                    *)
(***************************************************************************)
Exclusive == ~displaced => \A p \in Processes : Works(p) => file.owner = p

Faultless ==
    ~fault =>
        /\ file # NoFile => Works(file.owner)
        /\ file.old => rule = "owner" /\ file.filled
        /\ \A p \in Processes : at[p] \notin {"removing", "dead"}

LockInv ==
    /\ LockTypeOK /\ Exclusive /\ Faultless
    /\ file.owner = NoProcess => file = NoFile
    /\ displaced => fault

FileRecords == [owner : Processes \cup {NoProcess}, filled : BOOLEAN, old : BOOLEAN]

\* The lock file as its operations leave it.
LEMMA FileTypes ==
    /\ NoFile \in FileRecords /\ NoFile.owner = NoProcess /\ ~NoFile.old /\ ~NoFile.filled
    /\ \A p \in Processes :
          LET new == [owner |-> p, filled |-> FALSE, old |-> FALSE]
          IN  new \in FileRecords /\ new.owner = p /\ ~new.old /\ ~new.filled
    /\ \A f \in FileRecords :
          /\ [f EXCEPT !.filled = TRUE] \in FileRecords
          /\ [f EXCEPT !.filled = TRUE].owner = f.owner
          /\ [f EXCEPT !.filled = TRUE].old = f.old
          /\ [f EXCEPT !.filled = TRUE].filled
          /\ [f EXCEPT !.old = TRUE] \in FileRecords
          /\ [f EXCEPT !.old = TRUE].owner = f.owner
          /\ [f EXCEPT !.old = TRUE].filled = f.filled
          /\ [f EXCEPT !.old = TRUE].old
BY DEF NoFile, FileRecords

\* The initial states satisfy the invariant.
LEMMA LockInitInv ==
    ASSUME NEW rules, rules \subseteq {"age", "owner"}, LockInit(rules)
    PROVE  LockInv
BY FileTypes, LockAssumption
DEF LockInit, LockInv, LockTypeOK, Exclusive, Faultless, Works, Inside, FileRecords

\* What a process does with the lock in its hands changes nothing about the lock.
WorksOn(p) ==
    /\ at[p] \in {"working", "loaded"}
    /\ \E place \in {"loaded", "leaving"} : at' = [at EXCEPT ![p] = place]
    /\ UNCHANGED <<rule, file, displaced, fault>>

\* It keeps the invariant of the lock.
LEMMA WorksOnKeeps ==
    ASSUME LockInv, NEW p \in Processes, WorksOn(p)
    PROVE  LockInv' /\ \A q : Works(q)' <=> Works(q)
<1>1. PICK place \in {"loaded", "leaving"} : at' = [at EXCEPT ![p] = place]
  BY DEF WorksOn
<1>2. at \in [Processes -> Inside \cup {"waiting", "removing", "done", "dead"}]
  BY DEF LockInv, LockTypeOK
<1>3. \A q : Works(q)' <=> Works(q)
  BY <1>1, <1>2 DEF WorksOn, Works, Inside
<1>4. LockTypeOK'
  BY <1>1, <1>2 DEF LockInv, WorksOn, LockTypeOK, Inside
<1>5. Exclusive'
  BY <1>3 DEF LockInv, WorksOn, Exclusive
<1>6. Faultless'
  BY <1>1, <1>2, <1>3 DEF LockInv, WorksOn, Faultless
<1> QED
  BY <1>3, <1>4, <1>5, <1>6 DEF LockInv, WorksOn

\* Every operation on the lock file keeps it.
LEMMA LockStepKeeps ==
    ASSUME LockInv, LockStep
    PROVE  LockInv'
<1>0. /\ rule \in {"age", "owner"} /\ file \in FileRecords
      /\ at \in [Processes -> Inside \cup {"waiting", "removing", "done", "dead"}]
      /\ displaced \in BOOLEAN /\ fault \in BOOLEAN
      /\ NoProcess \notin Processes
  BY LockAssumption DEF LockInv, LockTypeOK, FileRecords
<1>1. CASE Age
  <2>1. file' \in FileRecords /\ file'.owner = file.owner /\ file'.filled = file.filled /\ file'.old
    BY <1>0, <1>1, FileTypes DEF Age
  <2>2. \A q : Works(q)' <=> Works(q)
    BY <1>1 DEF Age, Works
  <2>3. LockTypeOK'
    BY <1>0, <1>1, <2>1 DEF Age, LockTypeOK, FileRecords
  <2>4. Exclusive'
    BY <1>1, <2>1, <2>2 DEF Age, Exclusive, LockInv
  <2>5. Faultless'
    BY <1>0, <1>1, <2>1, <2>2 DEF Age, Faultless, LockInv
  <2>6. file'.owner # NoProcess
    BY <1>1, <2>1 DEF Age, LockInv
  <2> QED
    BY <1>1, <2>3, <2>4, <2>5, <2>6 DEF Age, LockInv
<1>2. ASSUME NEW p \in Processes, Create(p)
      PROVE  LockInv'
  <2>1. file' \in FileRecords /\ file'.owner = p /\ ~file'.filled /\ ~file'.old /\ file' # NoFile
    BY <1>0, <1>2, FileTypes DEF Create
  <2>2. at'[p] = "opened" /\ \A q \in Processes \ {p} : at'[q] = at[q]
    BY <1>0, <1>2 DEF Create
  <2>3. LockTypeOK'
    BY <1>0, <1>2, <2>1 DEF Create, LockTypeOK, FileRecords, Inside
  <2>4. Exclusive'
    BY <1>0, <1>2, <2>1, <2>2, FileTypes DEF Create, Exclusive, LockInv, Works
  <2>5. Faultless'
    BY <1>0, <1>2, <2>1, <2>2 DEF Create, Faultless, LockInv, Works, Inside
  <2> QED
    BY <1>0, <1>2, <2>1, <2>3, <2>4, <2>5 DEF Create, LockInv
<1>3. ASSUME NEW p \in Processes, WritePid(p)
      PROVE  LockInv'
  <2>1. file' \in FileRecords /\ file'.owner = file.owner /\ file'.old = file.old
        /\ (file.filled => file'.filled) /\ (file.owner = p => file'.filled)
    BY <1>0, <1>3, FileTypes DEF WritePid
  <2>2. at'[p] = "working" /\ \A q \in Processes \ {p} : at'[q] = at[q]
    BY <1>0, <1>3 DEF WritePid
  <2>6. \A q : Works(q)' <=> Works(q)
    BY <1>3, <2>2 DEF WritePid, Works, Inside
  <2>3. LockTypeOK'
    BY <1>0, <1>3, <2>1 DEF WritePid, LockTypeOK, FileRecords, Inside
  <2>4. Exclusive'
    BY <1>3, <2>1, <2>6 DEF WritePid, Exclusive, LockInv
  <2>5. Faultless'
    BY <1>0, <1>3, <2>1, <2>2, <2>6, FileTypes DEF WritePid, Faultless, LockInv
  <2>7. file'.owner = NoProcess => file' = NoFile
    BY <1>0, <1>3, <2>1 DEF WritePid, LockInv
  <2> QED
    BY <1>3, <2>3, <2>4, <2>5, <2>7 DEF WritePid, LockInv
<1>4. ASSUME NEW p \in Processes, FindStale(p) \/ GiveUp(p)
      PROVE  LockInv'
  <2>2. at'[p] \in {"removing", "done"} /\ \A q \in Processes \ {p} : at'[q] = at[q]
    BY <1>0, <1>4 DEF FindStale, GiveUp
  <2>6. \A q : Works(q)' <=> Works(q)
    BY <1>4, <2>2 DEF FindStale, GiveUp, Works, Inside
  <2>3. LockTypeOK'
    BY <1>0, <1>4 DEF FindStale, GiveUp, LockTypeOK, FileRecords, Inside
  <2>4. Exclusive'
    BY <1>4, <2>6 DEF FindStale, GiveUp, Exclusive, LockInv
  <2>5. Faultless'
    BY <1>0, <1>4, <2>2, <2>6, FileTypes
    DEF FindStale, GiveUp, Stale, Faultless, LockInv, Works, Inside
  <2> QED
    BY <1>4, <2>3, <2>4, <2>5 DEF FindStale, GiveUp, LockInv
<1>5. ASSUME NEW p \in Processes, RemoveStale(p) \/ Release(p)
      PROVE  LockInv'
  <2>1. /\ file' = NoFile /\ rule' = rule /\ fault' = fault
        /\ displaced' = (displaced \/ (file.owner # p /\ Works(file.owner)))
    BY <1>5 DEF RemoveStale, Release, RemoveFile
  <2>2. at'[p] \in {"waiting", "done"} /\ \A q \in Processes \ {p} : at'[q] = at[q]
    BY <1>0, <1>5 DEF RemoveStale, Release
  <2>3. LockTypeOK'
    BY <1>0, <1>5, <2>1, FileTypes
    DEF RemoveStale, Release, LockTypeOK, FileRecords, Inside
  <2>4. \A q : Works(q)' => Works(q) /\ q # p
    BY <2>2 DEF Works, Inside
  <2>5. Exclusive'
    BY <2>1, <2>4 DEF Exclusive, LockInv
  <2>6. Faultless'
    BY <1>5, <2>1, <2>2, FileTypes DEF RemoveStale, Release, Faultless, LockInv
  <2>7. displaced' => fault'
    <3>1. CASE fault
      BY <2>1, <3>1
    <3>2. CASE ~fault
      <4>1. ~displaced /\ at[p] # "removing"
        BY <3>2 DEF LockInv, Faultless
      <4>2. Works(p)
        BY <1>5, <4>1 DEF RemoveStale, Release, Works, Inside
      <4> QED
        BY <2>1, <4>1, <4>2 DEF LockInv, Exclusive
    <3> QED
      BY <1>0, <3>1, <3>2
  <2> QED
    BY <2>1, <2>3, <2>5, <2>6, <2>7 DEF LockInv
<1>6. ASSUME NEW p \in Processes, Die(p)
      PROVE  LockInv'
  <2>1. at'[p] = "dead" /\ \A q \in Processes \ {p} : at'[q] = at[q]
    BY <1>0, <1>6 DEF Die
  <2>2. \A q : Works(q)' => Works(q)
    BY <2>1 DEF Works, Inside
  <2>3. LockTypeOK'
    BY <1>0, <1>6 DEF Die, LockTypeOK, FileRecords, Inside
  <2> QED
    BY <1>6, <2>2, <2>3 DEF Die, LockInv, Exclusive, Faultless
<1> QED
  BY <1>1, <1>2, <1>3, <1>4, <1>5, <1>6 DEF LockStep

\* A step of another part keeps it.
LEMMA LockInvStutters ==
    ASSUME LockInv, UNCHANGED lockVars
    PROVE  LockInv'
BY DEF lockVars, LockInv, LockTypeOK, Exclusive, Faultless, Works

\* At most one process works unless a file was taken from one that did.
LEMMA LockIsExclusive ==
    ASSUME LockInv
    PROVE  ExclusionNeedsNoFault
<1>1. ASSUME ~displaced
      PROVE  Cardinality({p \in Processes : Works(p)}) <= 1
  <2> DEFINE W == {p \in Processes : Works(p)}
  <2>1. W \subseteq {file.owner}
    BY <1>1 DEF LockInv, Exclusive
  <2>2. IsFiniteSet({file.owner}) /\ Cardinality({file.owner}) = 1
    BY FS_Singleton
  <2>3. Cardinality(W) <= Cardinality({file.owner})
    BY <2>1, <2>2, FS_Subset
  <2> QED
    BY <2>2, <2>3
<1>2. displaced => fault
  BY DEF LockInv
<1> QED
  BY <1>1, <1>2, Zenon DEF ExclusionNeedsNoFault

\* No step of the lock brings a process to where it has loaded what it is
\* going to write, and a removal is never forgotten.
LEMMA LockStepLoadsNothing ==
    ASSUME LockInv, LockStep
    PROVE  /\ \A p \in Processes : at'[p] = "loaded" => at[p] = "loaded"
           /\ ~displaced' => ~displaced
<1>1. /\ at \in [Processes -> Inside \cup {"waiting", "removing", "done", "dead"}]
      /\ displaced \in BOOLEAN
  BY DEF LockInv, LockTypeOK
<1>2. \/ at' = at
      \/ \E p \in Processes, place \in {"opened", "working", "removing", "waiting", "done", "dead"} :
            at' = [at EXCEPT ![p] = place]
  BY DEF LockStep, Age, Create, WritePid, FindStale, RemoveStale, GiveUp, Release, Die
<1>3. displaced' = displaced \/ \E b \in BOOLEAN : displaced' = (displaced \/ b)
  BY DEF LockStep, Age, Create, WritePid, FindStale, RemoveStale, GiveUp, Release, Die, RemoveFile,
         Works
<1>4. \A p \in Processes : at'[p] = "loaded" => at[p] = "loaded"
  BY <1>1, <1>2
<1>5. ~displaced' => ~displaced
  BY <1>1, <1>3
<1> QED
  BY <1>4, <1>5

\* Nor one that is on its way out back to work.
LEMMA LockStepLeaves ==
    ASSUME LockInv, LockStep, NEW p \in Processes, at[p] \in {"leaving", "done", "dead"}
    PROVE  at'[p] \in {"leaving", "done", "dead"}
<1>1. at \in [Processes -> Inside \cup {"waiting", "removing", "done", "dead"}]
  BY DEF LockInv, LockTypeOK
<1>2. \/ at' = at
      \/ \E q \in Processes :
            /\ at[q] \in {"waiting", "opened", "removing"}
            /\ \E place \in {"opened", "working", "removing", "waiting", "done"} :
                  at' = [at EXCEPT ![q] = place]
      \/ \E q \in Processes, place \in {"done", "dead"} : at' = [at EXCEPT ![q] = place]
  BY DEF LockStep, Age, Create, WritePid, FindStale, RemoveStale, GiveUp, Release, Die
<1> QED
  BY <1>1, <1>2

(***************************************************************************)
(* The state store.  As long as no lock was taken from a working process,  *)
(* what a process is about to change is the state in the file, and whoever *)
(* knows the revision of the state knows the state.  Whatever was taken,   *)
(* what was loaded is what the call asked for (LoadedAsAsked), and who has *)
(* written does not write again (ConfirmedLeft).                           *)
(***************************************************************************)
States == [revision : Nat, changes : SUBSET Processes]

StoreTypes ==
    /\ operation \in [Processes -> {"create", "transaction", "save"}]
    /\ state \in States /\ known \in [Processes -> States] /\ loaded \in [Processes -> States]
    /\ confirmed \subseteq Processes

LoadedIsCurrent == \A p \in Processes : at[p] = "loaded" => loaded[p] = state

KnownIsOlder ==
    \A p \in Processes :
        /\ known[p].revision <= state.revision
        /\ known[p].revision = state.revision => known[p] = state

LoadedAsAsked ==
    \A p \in Processes : at[p] = "loaded" =>
        /\ operation[p] = "create" => loaded[p] = Nothing
        /\ operation[p] = "transaction" => loaded[p] # Nothing
        /\ operation[p] = "save" => loaded[p] = known[p]

ConfirmedLeft == \A p \in confirmed : at[p] \in {"leaving", "done", "dead"}

StoreInv ==
    /\ StoreTypes /\ LoadedAsAsked /\ ConfirmedLeft
    /\ ~displaced => LoadedIsCurrent /\ KnownIsOlder /\ confirmed \subseteq state.changes

\* The initial states satisfy the invariant.
LEMMA StoreInitInv ==
    ASSUME LockInv, \A p \in Processes : at[p] = "waiting", StoreInit
    PROVE  StoreInv
<1>1. Nothing \in States /\ [revision |-> 1, changes |-> {}] \in States
  BY DEF Nothing, States
<1>2. /\ state \in States /\ state.revision \in {0, 1} /\ state.revision = 0 => state = Nothing
  BY <1>1 DEF StoreInit, Nothing
<1>3. known = [p \in Processes |-> Nothing] /\ Nothing.revision = 0
  BY DEF StoreInit, Nothing
<1> QED
  BY <1>1, <1>2, <1>3
  DEF StoreInit, StoreInv, StoreTypes, LoadedIsCurrent, KnownIsOlder, LoadedAsAsked, ConfirmedLeft

\* Every step of the state store keeps it.
LEMMA StoreKeeps ==
    ASSUME LockInv, StoreInv, StoreNext
    PROVE  LockInv' /\ StoreInv'
<1>0. at \in [Processes -> Inside \cup {"waiting", "removing", "done", "dead"}] /\ StoreTypes
  BY DEF LockInv, LockTypeOK, StoreInv
<1>1. CASE LockStep /\ UNCHANGED <<operation, known, loaded, state, confirmed>>
  <2>1. LoadedAsAsked'
    BY <1>1, LockStepLoadsNothing DEF StoreInv, LoadedAsAsked
  <2>2. ConfirmedLeft'
    BY <1>1, LockStepLeaves DEF StoreInv, StoreTypes, ConfirmedLeft
  <2> QED
    BY <1>1, <2>1, <2>2, LockStepKeeps, LockStepLoadsNothing
    DEF StoreInv, StoreTypes, LoadedIsCurrent, KnownIsOlder
<1>2. ASSUME NEW p \in Processes, LoadState(p)
      PROVE  LockInv' /\ StoreInv'
  <2>1. LockInv'
    BY <1>2, WorksOnKeeps DEF LoadState, WorksOn
  <2>2. loaded[p] \in States /\ known[p] \in States /\ loaded'[p] \in States
    BY <1>0, <1>2 DEF LoadState, StoreTypes
  <2>3. StoreTypes'
    BY <1>0, <1>2, <2>2 DEF LoadState, StoreTypes
  <2>5. LoadedAsAsked'
    <3>1. \A q \in Processes \ {p} : at'[q] = at[q] /\ loaded'[q] = loaded[q]
      BY <1>0, <1>2 DEF LoadState, StoreTypes
    <3>2. at'[p] = "loaded" => /\ operation[p] = "create" => loaded'[p] = Nothing
                               /\ operation[p] = "transaction" => loaded'[p] # Nothing
                               /\ operation[p] = "save" => loaded'[p] = known[p]
      BY <1>0, <1>2 DEF LoadState, StoreTypes, Accepted
    <3> QED
      BY <1>2, <3>1, <3>2 DEF LoadState, LoadedAsAsked, StoreInv
  <2>6. ConfirmedLeft'
    BY <1>0, <1>2 DEF LoadState, ConfirmedLeft, StoreInv
  <2>4. ASSUME ~displaced
        PROVE  LoadedIsCurrent'
    <3>1. ASSUME Accepted(p)
          PROVE  loaded'[p] = state
      <4>1. CASE operation[p] = "save"
        BY <1>0, <1>2, <2>4, <3>1, <4>1
        DEF LoadState, StoreTypes, Accepted, StoreInv, KnownIsOlder
      <4>2. CASE operation[p] # "save"
        BY <1>0, <1>2, <4>2 DEF LoadState, StoreTypes
      <4> QED
        BY <4>1, <4>2
    <3>2. /\ at'[p] = "loaded" => Accepted(p)
          /\ \A q \in Processes \ {p} : at'[q] = at[q] /\ loaded'[q] = loaded[q]
      BY <1>0, <1>2 DEF LoadState, StoreTypes
    <3> QED
      BY <1>2, <2>4, <3>1, <3>2 DEF LoadState, LoadedIsCurrent, StoreInv
  <2> QED
    BY <1>2, <2>1, <2>3, <2>4, <2>5, <2>6 DEF LoadState, StoreInv, KnownIsOlder
<1>3. ASSUME NEW p \in Processes, WriteState(p)
      PROVE  LockInv' /\ StoreInv'
  <2>1. LockInv'
    BY <1>3, WorksOnKeeps DEF WriteState, WorksOn
  <2>2. /\ loaded[p] \in States /\ state' \in States
        /\ state'.revision = loaded[p].revision + 1
        /\ state'.changes = loaded[p].changes \cup {p}
    BY <1>0, <1>3 DEF WriteState, StoreTypes, States
  <2>3. StoreTypes'
    BY <1>0, <1>3, <2>2 DEF WriteState, StoreTypes
  <2>5. LoadedAsAsked'
    BY <1>0, <1>3 DEF WriteState, LoadedAsAsked, StoreInv
  <2>6. ConfirmedLeft'
    BY <1>0, <1>3 DEF WriteState, ConfirmedLeft, StoreInv
  <2>4. ASSUME ~displaced
        PROVE  LoadedIsCurrent' /\ KnownIsOlder' /\ confirmed' \subseteq state'.changes
    <3>1. loaded[p] = state /\ KnownIsOlder /\ confirmed \subseteq state.changes
      BY <1>3, <2>4 DEF WriteState, StoreInv, LoadedIsCurrent
    <3>2. \A q \in Processes : at'[q] # "loaded"
      <4>1. \A q \in Processes : at[q] = "loaded" => q = p
        BY <1>3, <2>4 DEF WriteState, LockInv, Exclusive, Works, Inside
      <4> QED
        BY <1>0, <1>3, <4>1 DEF WriteState
    <3>3. KnownIsOlder'
      BY <1>0, <1>3, <2>2, <3>1 DEF WriteState, KnownIsOlder, StoreTypes, States
    <3> QED
      BY <1>3, <2>2, <3>1, <3>2, <3>3 DEF WriteState, LoadedIsCurrent
  <2> QED
    BY <1>3, <2>1, <2>3, <2>4, <2>5, <2>6 DEF WriteState, StoreInv
<1>4. ASSUME NEW p \in Processes, ReadState(p)
      PROVE  LockInv' /\ StoreInv'
  <2>1. LockInv'
    BY <1>4, LockInvStutters DEF ReadState
  <2>3. LoadedAsAsked'
    BY <1>0, <1>4 DEF ReadState, lockVars, LoadedAsAsked, StoreInv, StoreTypes
  <2>2. KnownIsOlder => KnownIsOlder'
    BY <1>0, <1>4 DEF ReadState, KnownIsOlder, StoreTypes, States
  <2> QED
    BY <1>0, <1>4, <2>1, <2>2, <2>3
    DEF ReadState, lockVars, StoreInv, StoreTypes, LoadedIsCurrent, ConfirmedLeft
<1> QED
  BY <1>1, <1>2, <1>3, <1>4 DEF StoreNext

\* The contents of the file, whether it is there or not.
LEMMA ContentsOfFile ==
    ASSUME NEW s
    PROVE  /\ s = Nothing => Contents(s) = Atomic!Absent
           /\ s # Nothing => Contents(s) = Atomic!Present(s.changes) /\ Contents(s) # Atomic!Absent
<1>1. ASSUME s = Nothing
      PROVE  Contents(s) = Atomic!Absent
  <2>1. (s # Nothing) = FALSE /\ s.changes = {}
    BY <1>1 DEF Nothing
  <2> QED
    BY <2>1, Zenon DEF Contents, Atomic!Absent
<1>2. ASSUME s # Nothing
      PROVE  Contents(s) = Atomic!Present(s.changes) /\ Contents(s) # Atomic!Absent
  <2>1. (s # Nothing) = TRUE
    BY <1>2
  <2>2. Contents(s) = Atomic!Present(s.changes)
    BY <2>1, Zenon DEF Contents, Atomic!Present
  <2>3. Atomic!Present(s.changes).exists = TRUE /\ Atomic!Absent.exists = FALSE
    BY DEF Atomic!Present, Atomic!Absent
  <2> QED
    BY <2>2, <2>3
<1> QED
  BY <1>1, <1>2

\* What the file starts with is what the abstract store starts with.
LEMMA StoreStartsAtomic ==
    ASSUME StoreInit, displaced = FALSE
    PROVE  Atomic!AtomicInit
<1>1. /\ Nothing.revision = 0 /\ Nothing.changes = {}
      /\ [revision |-> 1, changes |-> {}].changes = {}
      /\ [revision |-> 1, changes |-> {}] # Nothing
  BY DEF Nothing
<1>2. Contents(state) \in {Atomic!Absent, Atomic!Present({})}
  BY <1>1 DEF StoreInit, Contents, Atomic!Absent, Atomic!Present
<1>3. [p \in Processes |-> Contents(known[p])] = [p \in Processes |-> Atomic!Absent]
  BY <1>1 DEF StoreInit, Contents, Atomic!Absent
<1> QED
  BY <1>2, <1>3 DEF StoreInit, Atomic!AtomicInit

\* A process that takes its file away from another at most ends the promise.
LEMMA LockStepIsAtomic ==
    ASSUME LockInv, displaced => displaced', displaced' \in BOOLEAN,
           UNCHANGED <<operation, known, state, confirmed>>
    PROVE  [Atomic!AtomicNext]_(Atomic!atomicVars)
<1>1. displaced \in BOOLEAN
  BY DEF LockInv, LockTypeOK
<1>2. CASE displaced' = displaced
  <2>1. Contents(state)' = Contents(state)
    BY DEF Contents
  <2>2. [p \in Processes |-> Contents(known[p])]' = [p \in Processes |-> Contents(known[p])]
    BY DEF Contents
  <2> QED
    BY <1>2, <2>1, <2>2 DEF Atomic!atomicVars
<1>3. CASE displaced'
  BY <1>3 DEF Atomic!AtomicNext, Atomic!Break
<1> QED
  BY <1>1, <1>2, <1>3

\* What is written is the change of the state at that instant, by a caller who asked for it
\* and was not answered before.
LEMMA WriteIsAtomic ==
    ASSUME LockInv, StoreInv, NEW p \in Processes, WriteState(p), ~displaced
    PROVE  Atomic!Apply(p)
<1>0. StoreTypes /\ LoadedIsCurrent
  BY DEF StoreInv
<1>1. loaded[p] = state /\ state \in States
  BY <1>0 DEF WriteState, LoadedIsCurrent, StoreTypes
<1>2. p \notin confirmed
  BY DEF WriteState, StoreInv, ConfirmedLeft
<1>3. /\ operation[p] = "create" => state = Nothing
      /\ operation[p] = "transaction" => state # Nothing
      /\ operation[p] = "save" => known[p] = state
  BY <1>1 DEF WriteState, StoreInv, LoadedAsAsked
<1>4. state'.revision # 0 /\ state'.changes = state.changes \cup {p}
  BY <1>1 DEF WriteState, States
<1>5. Contents(state') = Atomic!Present(state.changes \cup {p})
  <2>1. state' # Nothing
    BY <1>4 DEF Nothing
  <2> QED
    BY <1>4, <2>1, ContentsOfFile
<1>6. /\ operation[p] = "create" => Contents(state) = Atomic!Absent
      /\ operation[p] = "transaction" => Contents(state) # Atomic!Absent
      /\ operation[p] = "save" => Contents(state) = [q \in Processes |-> Contents(known[q])][p]
  BY <1>3, ContentsOfFile
<1>7. [q \in Processes |-> Contents(known[q])]' = [q \in Processes |-> Contents(known[q])]
  BY DEF WriteState, Contents
<1>8. Contents(state).changes = state.changes /\ Contents(state)' = Contents(state')
  BY DEF Contents
<1> QED
  BY <1>2, <1>5, <1>6, <1>7, <1>8 DEF WriteState, Atomic!Apply

\* Every step of the state store is one of the abstract store or changes nothing of it.
LEMMA StoreStepIsAtomic ==
    ASSUME LockInv, StoreInv, StoreNext
    PROVE  [Atomic!AtomicNext]_(Atomic!atomicVars)
<1>0. displaced \in BOOLEAN /\ displaced' \in BOOLEAN
  BY StoreKeeps DEF LockInv, LockTypeOK
<1>1. CASE LockStep /\ UNCHANGED <<operation, known, loaded, state, confirmed>>
  BY <1>0, <1>1, LockStepLoadsNothing, LockStepIsAtomic
<1>2. ASSUME NEW p \in Processes, LoadState(p)
      PROVE  [Atomic!AtomicNext]_(Atomic!atomicVars)
  BY <1>0, <1>2, LockStepIsAtomic DEF LoadState
<1>3. ASSUME NEW p \in Processes, WriteState(p)
      PROVE  [Atomic!AtomicNext]_(Atomic!atomicVars)
  <2>1. CASE ~displaced
    BY <1>3, <2>1, WriteIsAtomic DEF Atomic!AtomicNext
  <2>2. CASE displaced
    BY <1>3, <2>2 DEF WriteState, Atomic!AtomicNext, Atomic!Break
  <2> QED
    BY <2>1, <2>2
<1>4. ASSUME NEW p \in Processes, ReadState(p)
      PROVE  [Atomic!AtomicNext]_(Atomic!atomicVars)
  <2> DEFINE seen == [q \in Processes |-> Contents(known[q])]
  <2>1. known \in [Processes -> States]
    BY DEF StoreInv, StoreTypes
  <2>2. seen' = [q \in Processes |-> Contents(known'[q])] /\ Contents(state)' = Contents(state)
    BY <1>4 DEF ReadState, Contents
  <2>3. seen' = [seen EXCEPT ![p] = Contents(state)]
    BY <1>4, <2>1, <2>2 DEF ReadState
  <2>4. Atomic!Read(p)
    BY <1>4, <2>2, <2>3 DEF ReadState, lockVars, Atomic!Read
  <2> QED
    BY <2>4 DEF Atomic!AtomicNext
<1> QED
  BY <1>1, <1>2, <1>3, <1>4 DEF StoreNext

(***************************************************************************)
(* The publication ledger.  What a process has loaded can be extended by   *)
(* its receipt to a ledger that verifies (Extensible), whether or not it   *)
(* still is the ledger in the file; it is, as long as no lock was taken    *)
(* from a working process (LoadedLedger).  Every receipt in a ledger,      *)
(* written or loaded, is of a call that wrote it (Written).                *)
(***************************************************************************)
AllReceipts == Receipts \cup {CreateLedger}
LedgerEvents == [receipt : AllReceipts, previous : Seq(AllReceipts)]
Ledgers == [plan : [Artifacts -> Versions], events : Seq(LedgerEvents)]

FitsPlan(r, l) == r.target = Drive => r.digest = l.plan[r.item]

SoundLedger(l) ==
    /\ l \in Ledgers /\ l.events # <<>>
    /\ ValidChain(l.events) /\ l.events[1].receipt = CreateLedger
    /\ \A r \in Recorded(l) : FitsPlan(r, l)

Extensible(l, r) ==
    \/ l \in Ledgers /\ l.events = <<>> /\ r = CreateLedger
    \/ /\ SoundLedger(l) /\ FitsPlan(r, l)
       /\ \A s \in Recorded(l) : <<s.target, s.item>> # <<r.target, r.item>>

Extended(l, r) == [l EXCEPT !.events = Append(@, Event(@, r))]

\* The hash of the events before one does not see what is appended.
LEMMA HashOfPrefix ==
    ASSUME NEW s \in Seq(LedgerEvents), NEW n \in 0..Len(s)
    PROVE  Hash(SubSeq(s, 1, n)) = [k \in 1..n |-> s[k].receipt]
<1>1. Len(SubSeq(s, 1, n)) = n /\ \A k \in 1..n : SubSeq(s, 1, n)[k] = s[k]
  BY SubSeqProperties
<1> QED
  BY <1>1 DEF Hash

\* A receipt that is admitted extends the chain, and keeps the receipts before it.
LEMMA ExtendedIsSound ==
    ASSUME NEW l, NEW r \in AllReceipts, Extensible(l, r)
    PROVE  SoundLedger(Extended(l, r)) /\ Recorded(Extended(l, r)) = Recorded(l) \cup {r}
<1> DEFINE s == l.events
           e == Event(s, r)
           t == Append(s, e)
           m == Extended(l, r)
<1>1. l \in Ledgers /\ s \in Seq(LedgerEvents)
  BY DEF Extensible, SoundLedger, Ledgers
<1>2. e \in LedgerEvents /\ e.receipt = r /\ e.previous = [k \in 1..Len(s) |-> s[k].receipt]
  <2>1. ASSUME NEW k \in 1..Len(s) PROVE s[k].receipt \in AllReceipts
    <3>1. s[k] \in LedgerEvents
      BY <1>1
    <3> HIDE DEF s
    <3> QED
      BY <3>1 DEF LedgerEvents
  <2>2. Len(s) \in Nat
    BY <1>1
  <2>3. [k \in 1..Len(s) |-> s[k].receipt] \in Seq(AllReceipts)
    BY <2>1, <2>2, SeqDef
  <2> QED
    BY <2>3 DEF Event, Hash, LedgerEvents
<1>3. m \in Ledgers /\ m.events = t /\ m.plan = l.plan
  <2>1. t \in Seq(LedgerEvents)
    BY <1>1, <1>2
  <2>2. m = [l EXCEPT !.events = t]
    BY DEF Extended
  <2> HIDE DEF t, m
  <2> QED
    BY <1>1, <2>1, <2>2 DEF Ledgers
<1>4. /\ t \in Seq(LedgerEvents) /\ Len(t) = Len(s) + 1 /\ Len(s) \in Nat
      /\ t[Len(s) + 1] = e /\ \A i \in 1..Len(s) : t[i] = s[i]
  BY <1>1, <1>2
<1> HIDE DEF s, e, t, m
<1>5. Recorded(m) = Recorded(l) \cup {r}
  <2>1. Recorded(m) = {t[i].receipt : i \in 1..Len(t)}
    BY <1>3 DEF Recorded
  <2>2. Recorded(l) = {s[i].receipt : i \in 1..Len(s)}
    BY DEF Recorded, s
  <2>3. \A i \in 1..Len(t) : i \in 1..Len(s) \/ i = Len(s) + 1
    BY <1>4
  <2>4. Len(s) + 1 \in 1..Len(t) /\ \A i \in 1..Len(s) : i \in 1..Len(t)
    BY <1>4
  <2>5. t[Len(s) + 1].receipt = r /\ \A i \in 1..Len(s) : t[i].receipt = s[i].receipt
    BY <1>2, <1>4
  <2> QED
    BY <2>1, <2>2, <2>3, <2>4, <2>5
<1>6. ASSUME NEW i \in 1..Len(t)
      PROVE  t[i].previous = Hash(SubSeq(t, 1, i - 1))
  <2>1. Hash(SubSeq(t, 1, i - 1)) = [k \in 1..(i - 1) |-> t[k].receipt]
    BY <1>4, HashOfPrefix
  <2>2. CASE i = Len(s) + 1
    <3>1. [k \in 1..(i - 1) |-> t[k].receipt] = [k \in 1..Len(s) |-> s[k].receipt]
      BY <1>4, <2>2
    <3> QED
      BY <1>2, <1>4, <2>1, <2>2, <3>1
  <2>3. CASE i \in 1..Len(s)
    <3>1. ValidChain(s)
      BY <2>3 DEF Extensible, SoundLedger, s
    <3>2. s[i].previous = Hash(SubSeq(s, 1, i - 1))
      BY <2>3, <3>1 DEF ValidChain
    <3>3. Hash(SubSeq(s, 1, i - 1)) = [k \in 1..(i - 1) |-> s[k].receipt]
      BY <1>1, <1>4, <2>3, HashOfPrefix
    <3>4. [k \in 1..(i - 1) |-> s[k].receipt] = [k \in 1..(i - 1) |-> t[k].receipt]
      BY <1>4, <2>3
    <3> QED
      BY <1>4, <2>1, <2>3, <3>2, <3>3, <3>4
  <2> QED
    BY <1>4, <2>2, <2>3
<1>7. ASSUME NEW i \in 1..Len(t), NEW j \in 1..(i - 1)
      PROVE  <<t[j].receipt.target, t[j].receipt.item>>
                # <<t[i].receipt.target, t[i].receipt.item>>
  <2>1. j \in 1..Len(s) /\ t[j] = s[j]
    BY <1>4
  <2>2. CASE i = Len(s) + 1
    <3>1. s # <<>> /\ \A q \in Recorded(l) : <<q.target, q.item>> # <<r.target, r.item>>
      BY <1>1, <2>1 DEF Extensible, s
    <3> QED
      BY <1>2, <1>4, <2>1, <2>2, <3>1 DEF Recorded, s
  <2>3. CASE i \in 1..Len(s)
    <3>1. ValidChain(s)
      BY <2>3 DEF Extensible, SoundLedger, s
    <3> QED
      BY <1>4, <2>1, <2>3, <3>1 DEF ValidChain
  <2> QED
    BY <1>4, <2>2, <2>3
<1>8. ValidChain(t)
  BY <1>6, <1>7 DEF ValidChain
<1>9. t # <<>> /\ t[1].receipt = CreateLedger
  <2>1. CASE s = <<>>
    BY <1>2, <1>4, <2>1 DEF Extensible, SoundLedger, s
  <2>2. CASE s # <<>>
    <3>1. Len(s) # 0
      BY <1>1, <2>2
    <3> QED
      BY <1>4, <2>2, <3>1 DEF Extensible, SoundLedger, s
  <2> QED
    BY <2>1, <2>2
<1>10. ASSUME NEW q \in Recorded(m)
       PROVE  FitsPlan(q, m)
  <2>1. CASE s = <<>>
    <3>0. r = CreateLedger /\ Recorded(l) = {}
      <4>1. r = CreateLedger
        BY <2>1 DEF Extensible, SoundLedger, s
      <4>2. 1..Len(l.events) = {}
        BY <2>1 DEF s
      <4> QED
        BY <4>1, <4>2 DEF Recorded
    <3>1. q = CreateLedger
      BY <1>5, <3>0
    <3> QED
      BY <3>1, PublicationAssumption DEF FitsPlan, CreateLedger, Receipt
  <2>2. CASE s # <<>>
    BY <1>3, <1>5, <2>2 DEF Extensible, SoundLedger, FitsPlan, s
  <2> QED
    BY <2>1, <2>2
<1> QED
  BY <1>3, <1>5, <1>8, <1>9, <1>10 DEF SoundLedger, m

LedgerTypes ==
    /\ request \in [Processes -> AllReceipts] /\ content \in [Artifacts -> Versions]
    /\ read \in [Processes -> Ledgers \cup {NoLedger}]
    /\ ledger = NoLedger \/ SoundLedger(ledger)
    /\ acknowledged \subseteq Processes
    /\ \A p \in Processes : request[p] = CreateLedger => read[p].events = <<>>

LoadedIsExtensible == \A p \in Processes : at[p] = "loaded" => Extensible(read[p], request[p])

WrittenIn(l) ==
    \A r \in Recorded(l) \ {CreateLedger} : \E p \in acknowledged : request[p] = r

Written == WrittenIn(ledger) /\ \A p \in Processes : WrittenIn(read[p])

LoadedLedger ==
    \A p \in Processes : at[p] = "loaded" =>
        read[p] = ledger \/ (ledger = NoLedger /\ request[p] = CreateLedger)

Kept == \A p \in acknowledged : request[p] \in Recorded(ledger)

LedgerInv ==
    /\ LedgerTypes /\ LoadedIsExtensible /\ Written
    /\ ~displaced => LoadedLedger /\ Kept

\* No ledger has no receipts.
LEMMA NoLedgerIsEmpty == NoLedger.events = <<>> /\ Recorded(NoLedger) = {}
BY DEF NoLedger, Recorded

\* A ledger that holds its creation only is sound.
LEMMA NewLedgerIsSound ==
    ASSUME content \in [Artifacts -> Versions]
    PROVE  LET l == [plan |-> content, events |-> <<>>]
               n == [plan |-> content, events |-> <<Event(<<>>, CreateLedger)>>]
           IN  /\ l \in Ledgers /\ l.events = <<>>
               /\ SoundLedger(n) /\ Recorded(n) = {CreateLedger}
<1> DEFINE l == [plan |-> content, events |-> <<>>]
           n == [plan |-> content, events |-> <<Event(<<>>, CreateLedger)>>]
<1>1. l \in Ledgers /\ l.events = <<>>
  BY DEF Ledgers
<1>2. Extensible(l, CreateLedger) /\ CreateLedger \in AllReceipts
  BY <1>1 DEF Extensible, AllReceipts
<1>3. Extended(l, CreateLedger) = n
  BY DEF Extended
<1>4. Recorded(l) = {}
  BY <1>1 DEF Recorded
<1> HIDE DEF l, n
<1>5. SoundLedger(n) /\ Recorded(n) = {CreateLedger}
  BY <1>2, <1>3, <1>4, ExtendedIsSound
<1> QED
  BY <1>1, <1>5 DEF l, n

\* The initial states satisfy the invariant.
LEMMA LedgerInitInv ==
    ASSUME LockInv, \A p \in Processes : at[p] = "waiting", LedgerInit
    PROVE  LedgerInv
<1>1. content \in [Artifacts -> Versions]
  BY DEF LedgerInit, Versions
<1>2. /\ request \in [Processes -> AllReceipts] /\ acknowledged = {}
      /\ \A p \in Processes : read[p] = NoLedger
      /\ read \in [Processes -> Ledgers \cup {NoLedger}]
  BY DEF LedgerInit, AllReceipts
<1>3. \/ ledger = NoLedger
      \/ SoundLedger(ledger) /\ Recorded(ledger) = {CreateLedger}
  BY <1>1, NewLedgerIsSound DEF LedgerInit
<1>4. LedgerTypes
  BY <1>1, <1>2, <1>3, NoLedgerIsEmpty DEF LedgerTypes
<1>5. Written
  BY <1>2, <1>3, NoLedgerIsEmpty DEF Written, WrittenIn
<1> QED
  BY <1>2, <1>4, <1>5 DEF LedgerInv, LoadedIsExtensible, LoadedLedger, Kept

\* Every step of the publication keeps it.
LEMMA LedgerKeeps ==
    ASSUME LockInv, LedgerInv, LedgerNext
    PROVE  LockInv' /\ LedgerInv'
<1>0. /\ at \in [Processes -> Inside \cup {"waiting", "removing", "done", "dead"}]
      /\ LedgerTypes /\ LoadedIsExtensible /\ Written
  BY DEF LockInv, LockTypeOK, LedgerInv
<1>1. CASE LedgerLockStep
  <2>1. LockInv'
    BY <1>1, LockStepKeeps DEF LedgerLockStep
  <2>2. /\ \A p \in Processes : at'[p] = "loaded" => at[p] = "loaded"
        /\ ~displaced' => ~displaced
        /\ UNCHANGED <<request, content, read, ledger, acknowledged>>
    BY <1>1, LockStepLoadsNothing DEF LedgerLockStep
  <2>3. LedgerTypes' /\ Written'
    BY <1>0, <2>2 DEF LedgerTypes, Written, WrittenIn
  <2>4. LoadedIsExtensible'
    BY <1>0, <2>2 DEF LoadedIsExtensible
  <2>5. ~displaced' => LoadedLedger' /\ Kept'
    BY <2>2 DEF LedgerInv, LoadedLedger, Kept
  <2> QED
    BY <2>1, <2>3, <2>4, <2>5 DEF LedgerInv
<1>2. ASSUME NEW p \in Processes, TakeInventory(p)
      PROVE  LockInv' /\ LedgerInv'
  <2>1. LockInv'
    BY <1>2, LockInvStutters DEF TakeInventory
  <2>2. /\ read'[p] \in Ledgers /\ read'[p].events = <<>>
        /\ \A q \in Processes \ {p} : read'[q] = read[q]
        /\ at' = at /\ at[p] = "waiting"
        /\ UNCHANGED <<request, content, ledger, acknowledged, displaced>>
    BY <1>0, <1>2, NewLedgerIsSound DEF TakeInventory, LedgerTypes, lockVars
  <2>3. LedgerTypes'
    <3>1. read' \in [Processes -> Ledgers \cup {NoLedger}]
      BY <1>0, <1>2, <2>2 DEF TakeInventory, LedgerTypes
    <3> QED
      BY <1>0, <2>2, <3>1 DEF LedgerTypes
  <2>4. Written'
    <3>1. Recorded(read'[p]) = {}
      BY <2>2 DEF Recorded
    <3> QED
      BY <1>0, <2>2, <3>1 DEF Written, WrittenIn
  <2>5. LoadedIsExtensible'
    BY <1>0, <2>2 DEF LoadedIsExtensible
  <2>6. ~displaced' => LoadedLedger' /\ Kept'
    BY <2>2 DEF LedgerInv, LoadedLedger, Kept
  <2> QED
    BY <2>1, <2>3, <2>4, <2>5, <2>6 DEF LedgerInv
<1>3. ASSUME NEW p \in Processes, CheckAbsent(p)
      PROVE  LockInv' /\ LedgerInv'
  <2>1. LockInv'
    BY <1>3, WorksOnKeeps DEF CheckAbsent, WorksOn
  <2>2. /\ at'[p] = "loaded" => ledger = NoLedger
        /\ \A q \in Processes \ {p} : at'[q] = at[q]
        /\ UNCHANGED <<request, content, read, ledger, acknowledged, displaced>>
        /\ request[p] = CreateLedger /\ read[p] \in Ledgers /\ read[p].events = <<>>
    BY <1>0, <1>3 DEF CheckAbsent, LedgerTypes
  <2>3. LedgerTypes' /\ Written'
    BY <1>0, <2>2 DEF LedgerTypes, Written, WrittenIn
  <2>4. LoadedIsExtensible'
    BY <1>0, <2>2 DEF LoadedIsExtensible, Extensible
  <2>5. ~displaced' => LoadedLedger' /\ Kept'
    BY <2>2 DEF LedgerInv, LoadedLedger, Kept
  <2> QED
    BY <2>1, <2>3, <2>4, <2>5 DEF LedgerInv
<1>4. ASSUME NEW p \in Processes, LoadLedger(p)
      PROVE  LockInv' /\ LedgerInv'
  <2>1. LockInv'
    BY <1>4, WorksOnKeeps DEF LoadLedger, WorksOn
  <2>2. /\ read'[p] = ledger /\ request[p] # CreateLedger
        /\ \A q \in Processes \ {p} : at'[q] = at[q] /\ read'[q] = read[q]
        /\ UNCHANGED <<request, content, ledger, acknowledged, displaced>>
        /\ at'[p] = "loaded" => Admitted(request[p], ledger)
    BY <1>0, <1>4 DEF LoadLedger, LedgerTypes
  <2>3. LedgerTypes'
    <3>1. ledger \in Ledgers \cup {NoLedger}
      BY <1>0 DEF LedgerTypes, SoundLedger
    <3>2. read' \in [Processes -> Ledgers \cup {NoLedger}]
      BY <1>0, <1>4, <3>1 DEF LoadLedger, LedgerTypes
    <3> QED
      BY <1>0, <2>2, <3>2 DEF LedgerTypes
  <2>4. Written'
    BY <1>0, <2>2 DEF Written, WrittenIn
  <2>5. at'[p] = "loaded" => Extensible(read'[p], request'[p])
    <3> SUFFICES ASSUME Admitted(request[p], ledger)
                 PROVE  Extensible(ledger, request[p])
      BY <2>2
    <3>1. SoundLedger(ledger)
      BY <1>0 DEF Admitted, LedgerTypes
    <3>2. request[p] \in Receipts
      BY <1>0, <2>2 DEF LedgerTypes, AllReceipts
    <3>3. ASSUME request[p].target = Drive
          PROVE  request[p].digest = ledger.plan[request[p].item]
      <4>1. request[p].item \in Artifacts
        BY <3>2, <3>3, PublicationAssumption DEF Receipts, Receipt
      <4> QED
        BY <3>3, <4>1 DEF Admitted, ValidFiles
    <3> QED
      BY <3>1, <3>3 DEF Extensible, FitsPlan, Admitted
  <2>6. LoadedIsExtensible'
    BY <1>0, <2>2, <2>5 DEF LoadedIsExtensible
  <2>7. ~displaced' => LoadedLedger' /\ Kept'
    BY <2>2 DEF LedgerInv, LoadedLedger, Kept
  <2> QED
    BY <2>1, <2>3, <2>4, <2>6, <2>7 DEF LedgerInv
<1>5. ASSUME NEW p \in Processes, WriteLedger(p)
      PROVE  LockInv' /\ LedgerInv'
  <2>1. LockInv'
    BY <1>5, WorksOnKeeps DEF WriteLedger, WorksOn
  <2>2. /\ ledger' = Extended(read[p], request[p]) /\ acknowledged' = acknowledged \cup {p}
        /\ \A q \in Processes \ {p} : at'[q] = at[q]
        /\ at[p] = "loaded" /\ at'[p] = "leaving"
        /\ UNCHANGED <<request, content, read, displaced>>
        /\ Extensible(read[p], request[p]) /\ request[p] \in AllReceipts
    BY <1>0, <1>5 DEF WriteLedger, Extended, LoadedIsExtensible, LedgerTypes
  <2>3. SoundLedger(ledger') /\ Recorded(ledger') = Recorded(read[p]) \cup {request[p]}
    BY <2>2, ExtendedIsSound
  <2>4. LedgerTypes'
    BY <1>0, <2>2, <2>3 DEF LedgerTypes
  <2>5. Written'
    BY <1>0, <2>2, <2>3 DEF Written, WrittenIn
  <2>6. LoadedIsExtensible'
    BY <1>0, <2>2 DEF LoadedIsExtensible
  <2>7. ASSUME ~displaced'
        PROVE  LoadedLedger' /\ Kept'
    <3>1. LoadedLedger /\ Kept
      BY <2>2, <2>7 DEF LedgerInv
    <3>2. \A q \in Processes : at'[q] # "loaded"
      <4>1. \A q \in Processes : at[q] = "loaded" => q = p
        BY <2>2, <2>7 DEF LockInv, Exclusive, Works, Inside
      <4> QED
        BY <2>2, <4>1
    <3>3. Recorded(ledger) \subseteq Recorded(read[p])
      BY <2>2, <3>1, NoLedgerIsEmpty DEF LoadedLedger
    <3> QED
      BY <2>2, <2>3, <3>1, <3>2, <3>3 DEF LoadedLedger, Kept
  <2> QED
    BY <2>1, <2>4, <2>5, <2>6, <2>7 DEF LedgerInv
<1>6. ASSUME NEW a \in Artifacts, Rebuild(a)
      PROVE  LockInv' /\ LedgerInv'
  <2>1. LockInv'
    BY <1>6, LockInvStutters DEF Rebuild
  <2>2. /\ content' \in [Artifacts -> Versions]
        /\ UNCHANGED <<at, request, read, ledger, acknowledged, displaced>>
    BY <1>0, <1>6 DEF Rebuild, LedgerTypes, Versions, lockVars
  <2>3. LedgerTypes' /\ Written'
    BY <1>0, <2>2 DEF LedgerTypes, Written, WrittenIn
  <2>4. LoadedIsExtensible'
    BY <1>0, <2>2 DEF LoadedIsExtensible
  <2>5. ~displaced' => LoadedLedger' /\ Kept'
    BY <2>2 DEF LedgerInv, LoadedLedger, Kept
  <2> QED
    BY <2>1, <2>3, <2>4, <2>5 DEF LedgerInv
<1> QED
  BY <1>1, <1>2, <1>3, <1>4, <1>5, <1>6 DEF LedgerNext

\* What the invariant says about the ledger.
LEMMA LedgerIsRight ==
    ASSUME LedgerInv
    PROVE  LedgerVerifies /\ ReceiptsAreKept /\ CompleteIsPublished
<1>1. LedgerVerifies
  BY DEF LedgerInv, LedgerTypes, SoundLedger, FitsPlan, LedgerVerifies
<1>2. ReceiptsAreKept
  BY DEF LedgerInv, Kept, ReceiptsAreKept
<1>3. CompleteIsPublished
  BY DEF LedgerInv, Written, WrittenIn, CompleteIsPublished
<1> QED
  BY <1>1, <1>2, <1>3

\* The types of the ledger from what the proof knows of them.
LEMMA LedgerTypesOK ==
    ASSUME LedgerInv
    PROVE  LedgerTypeOK
<1>1. ASSUME NEW l \in Ledgers
      PROVE  l.plan \in [Artifacts -> Versions] /\ Recorded(l) \subseteq AllReceipts
  <2>1. l.plan \in [Artifacts -> Versions] /\ l.events \in Seq(LedgerEvents)
    BY DEF Ledgers
  <2>2. \A i \in 1..Len(l.events) : l.events[i] \in LedgerEvents
    BY <2>1
  <2>3. \A e \in LedgerEvents : e.receipt \in AllReceipts
    BY DEF LedgerEvents
  <2> QED
    BY <2>1, <2>2, <2>3 DEF Recorded
<1>2. \A l \in {ledger} \cup {read[p] : p \in Processes} : l = NoLedger \/ l \in Ledgers
  BY DEF LedgerInv, LedgerTypes, SoundLedger
<1> QED
  BY <1>1, <1>2 DEF LedgerInv, LedgerTypes, LedgerTypeOK, AllReceipts

-----------------------------------------------------------------------------
(***************************************************************************)
(* The agent loop.  Until the answer is verified nothing is released and   *)
(* only verdicts of steps are remembered (Unreleased); a step that passed  *)
(* cites what it found (OkIsBacked); after the verification a run that     *)
(* passed has earned it (PassedIsEarned).  A run of one plan with one step *)
(* and without another try has used no more calls than its stage needs     *)
(* (CallsOfStage).                                                         *)
(***************************************************************************)
Phases == {"waiting", "answered", "ok", "failed"}
StepRecords == [phase : Phases, tries : 0..MaxRetries, got : SUBSET Sources, error : BOOLEAN,
                cites : SUBSET Cited, seen : SUBSET Sources]
Verdicts == [what : 0..MaxSteps, validity : {"valid", "invalid", "unknown"}]
Fresh == Untried(0, {})

Planning == {"plan", "review", "rejected"}
Executing == {"steps", "synthesize", "verify", "learn", "consolidate", "complete"}
Afterwards == {"learn", "consolidate", "complete"}

Released ==
    \/ result.release \/ result.status = "completed" \/ longTerm.procedure
    \/ longTerm.episode = "valid" \/ [what |-> 0, validity |-> "valid"] \in memory

NothingDone ==
    /\ memory = {} /\ ~longTerm.facts /\ ~longTerm.procedure /\ ~result.release
    /\ \A i \in StepNumbers : steps[i] = Fresh

PlanningIsClean ==
    /\ stage \in Planning => NothingDone /\ ~approved /\ ~passed
    /\ stage = "ended" /\ ~approved => NothingDone

ExecutingIsApproved == stage \in Executing => approved /\ Executable

PlanIsPossible ==
    /\ WellFormed(plan)
    /\ stage = "plan" => plan.version <= Retries

OkIsBacked ==
    \A i \in plan.research : steps[i].phase = "ok" => Backed(steps[i].cites, steps[i].got)

Unreleased == stage \in Planning \cup {"steps", "synthesize", "verify", "learn"} => ~Released

PassedIsEarned ==
    stage \in Afterwards /\ passed /\ mode.live => Earned

VerdictsAreLast ==
    \A m \in memory : m.what > 0 =>
        m.what \in 1..plan.size /\ Ended(m.what) /\ m = Remembered(m.what)

EveryStepJudged ==
    stage \in Executing \ {"steps"} => \A i \in 1..plan.size : Remembered(i) \in memory

Simple == plan.version <= 1 /\ plan.size <= 1 /\ \A i \in StepNumbers : steps[i].tries = 0

CallsOfStage ==
    /\ stage = "plan" => used <= 2
    /\ stage = "review" => used <= 1
    /\ stage = "steps" => used <= IF steps[1].phase = "waiting" THEN 2
                                  ELSE IF steps[1].phase = "answered" THEN 3 ELSE 4
    /\ stage = "synthesize" => used <= 4
    /\ stage = "verify" => used <= IF mode.single THEN 4 ELSE 5
    /\ stage \in {"learn", "consolidate"} => used <= IF mode.single THEN 5 ELSE 6

Calls ==
    /\ used <= mode.calls
    /\ Simple => CallsOfStage
    /\ plan.version = 0 => Simple /\ stage \in {"plan", "aborted"} /\ (stage = "plan" => used = 0)
    /\ starved /\ mode.calls >= Needed => ~Simple
    /\ stage = "consolidate" => mode.ltm /\ mode.live

LoopInv ==
    /\ LoopTypeOK /\ PlanningIsClean /\ ExecutingIsApproved /\ PlanIsPossible
    /\ OkIsBacked /\ Unreleased /\ PassedIsEarned /\ (Released => Earned)
    /\ VerdictsAreLast /\ EveryStepJudged /\ Calls

\* What the invariant says about a run.
LEMMA LoopIsRight ==
    ASSUME LoopInv
    PROVE  ReleaseIsEarned /\ RejectionLeavesNothing /\ OneVerdictPerStep /\ BudgetHolds
<1>1. ReleaseIsEarned
  BY DEF LoopInv, Released, ReleaseIsEarned
<1>2. RejectionLeavesNothing
  BY DEF LoopInv, PlanningIsClean, NothingDone, Planning, RejectionLeavesNothing, Fresh
<1>3. OneVerdictPerStep
  BY DEF LoopInv, VerdictsAreLast, EveryStepJudged, Executing, OneVerdictPerStep
<1>4. BudgetHolds
  <2>1. ASSUME starved, mode.calls >= Needed
        PROVE  plan.version > 1 \/ plan.size > 1 \/ \E i \in StepNumbers : steps[i].tries > 0
    <3>1. ~Simple
      BY <2>1 DEF LoopInv, Calls
    <3>2. /\ plan.version \in Nat /\ plan.size \in Nat
          /\ \A i \in StepNumbers : steps[i].tries \in Nat
      BY LoopAssumption DEF LoopInv, LoopTypeOK
    <3> QED
      BY <3>1, <3>2 DEF Simple
  <2> QED
    BY <2>1 DEF LoopInv, Calls, BudgetHolds
<1> QED
  BY <1>1, <1>2, <1>3, <1>4

\* The type invariant, variable by variable.
LEMMA LoopTypes ==
    ASSUME LoopTypeOK
    PROVE  /\ MaxRetries \in Nat /\ MaxSteps \in Nat /\ used \in Nat
           /\ mode \in Modes /\ mode.calls \in Nat /\ mode.single \in BOOLEAN
           /\ mode.live \in BOOLEAN /\ mode.ltm \in BOOLEAN /\ mode.parallel \in BOOLEAN
           /\ plan.version \in 0..(MaxRetries + 1) /\ plan.size \in 0..MaxSteps
           /\ plan.research \subseteq StepNumbers
           /\ steps \in [StepNumbers -> StepRecords]
           /\ \A i \in StepNumbers :
                 /\ steps[i] \in StepRecords /\ steps[i].phase \in Phases
                 /\ steps[i].tries \in 0..MaxRetries
                 /\ steps[i].got \in SUBSET Sources /\ steps[i].cites \in SUBSET Cited
                 /\ steps[i].seen \in SUBSET Sources
           /\ Retries \in 0..MaxRetries
           /\ memory \subseteq Verdicts
<1>1. MaxRetries \in Nat /\ MaxSteps \in Nat /\ Budgets \subseteq Nat
  BY LoopAssumption
<1>2. mode \in Modes
  BY DEF LoopTypeOK
<1>3. /\ mode.calls \in Nat /\ mode.single \in BOOLEAN
      /\ mode.live \in BOOLEAN /\ mode.ltm \in BOOLEAN /\ mode.parallel \in BOOLEAN
  BY <1>1, <1>2 DEF Modes
<1>4. /\ plan.version \in 0..(MaxRetries + 1) /\ plan.size \in 0..MaxSteps
      /\ plan.research \subseteq StepNumbers
  BY DEF LoopTypeOK
<1>5. steps \in [StepNumbers -> StepRecords]
  BY DEF LoopTypeOK, StepRecords, Phases
<1>6. \A x \in StepRecords :
         /\ x.phase \in Phases /\ x.tries \in 0..MaxRetries
         /\ x.got \in SUBSET Sources /\ x.cites \in SUBSET Cited /\ x.seen \in SUBSET Sources
  BY DEF StepRecords
<1>7. Retries \in 0..MaxRetries
  BY <1>1, <1>3 DEF Retries
<1>8. memory \subseteq Verdicts /\ used \in Nat
  BY DEF LoopTypeOK, Verdicts
<1> QED
  BY <1>1, <1>2, <1>3, <1>4, <1>5, <1>6, <1>7, <1>8

\* What a call of the model takes from the budget.
LEMMA CallEffect ==
    ASSUME LoopTypeOK, used <= mode.calls, NEW outcome \in Outcomes, Call(outcome)
    PROVE  /\ used' \in Nat /\ used' <= mode.calls /\ used' <= used + 1 /\ used' >= used
           /\ starved' \in BOOLEAN
           /\ outcome # "starved" => starved' = starved
           /\ outcome = "starved" => used = mode.calls /\ used' = used
<1>1. used \in Nat /\ mode.calls \in Nat /\ starved \in BOOLEAN
  BY LoopTypes DEF LoopTypeOK
<1>2. CASE outcome = "starved"
  BY <1>1, <1>2 DEF Call
<1>3. CASE outcome = "limited"
  BY <1>1, <1>3 DEF Call
<1>4. CASE outcome \in {"answered", "failed"}
  BY <1>1, <1>4 DEF Call
<1> QED
  BY <1>2, <1>3, <1>4 DEF Outcomes

\* Where a call may find the budget used up, a simple run has used less than it needs.
LEMMA SimpleIsNotStarved ==
    ASSUME LoopInv, stage \in {"plan", "review", "steps", "synthesize", "verify", "consolidate"},
           stage = "steps" => steps[1].phase \in {"waiting", "answered"},
           stage = "synthesize" => ~mode.single,
           used = mode.calls, mode.calls >= Needed
    PROVE  ~Simple
<1>1. Needed \in Nat /\ Needed >= 5 /\ (~mode.single => Needed >= 6)
      /\ (mode.ltm /\ mode.live => Needed >= 6) /\ (~mode.single /\ mode.ltm /\ mode.live => Needed >= 7)
  BY DEF Needed
<1>2. Simple => CallsOfStage
  BY DEF LoopInv, Calls
<1>3. stage = "consolidate" => mode.ltm /\ mode.live
  BY DEF LoopInv, Calls
<1>4. used \in Nat /\ mode.calls \in Nat /\ mode.single \in BOOLEAN
  BY LoopTypes DEF LoopInv
<1> QED
  BY <1>1, <1>2, <1>3, <1>4 DEF CallsOfStage

\* Each action keeps the invariant: the run that has no calls left,
LEMMA AbortKeeps ==
    ASSUME LoopInv, CallOrAbort,
           stage \in {"plan", "review", "synthesize", "verify", "consolidate"},
           stage = "synthesize" => ~mode.single
    PROVE  LoopInv'
<1>1. /\ used' \in Nat /\ used' <= mode.calls /\ starved' \in BOOLEAN
      /\ starved' => starved \/ used = mode.calls
  BY CallEffect DEF CallOrAbort, LoopInv, Calls, LoopTypeOK, Outcomes
<1>2. /\ stage' = "aborted"
      /\ UNCHANGED <<mode, plan, approved, steps, answer, passed, memory, longTerm, result,
                     recorded>>
  BY DEF CallOrAbort, Abort
<1>3. LoopTypeOK'
  BY <1>1, <1>2 DEF LoopInv, LoopTypeOK
<1>4. PlanningIsClean' /\ ExecutingIsApproved' /\ Unreleased' /\ PassedIsEarned' /\ EveryStepJudged'
  BY <1>2 DEF PlanningIsClean, ExecutingIsApproved, Unreleased, PassedIsEarned, EveryStepJudged,
              Planning, Executing, Afterwards
<1>5. PlanIsPossible' /\ OkIsBacked' /\ VerdictsAreLast'
  BY <1>2 DEF LoopInv, PlanIsPossible, WellFormed, OkIsBacked, Backed, VerdictsAreLast, Ended,
              Remembered
<1>6. (Released => Earned)'
  BY <1>2 DEF LoopInv, Released, Earned, Executable
<1>7. Calls'
  <2>1. mode.calls >= Needed /\ starved' => ~Simple
    BY <1>1, SimpleIsNotStarved DEF LoopInv, Calls
  <2>2. (Simple' <=> Simple) /\ Needed' = Needed /\ mode'.calls = mode.calls
    BY <1>2 DEF Simple, Needed
  <2>3. CallsOfStage'
    BY <1>2 DEF CallsOfStage
  <2> QED
    BY <1>1, <1>2, <2>1, <2>2, <2>3 DEF LoopInv, Calls
<1> QED
  BY <1>3, <1>4, <1>5, <1>6, <1>7 DEF LoopInv

\* the planner,
LEMMA MakePlanKeeps ==
    ASSUME LoopInv, MakePlan
    PROVE  LoopInv'
<1>1. CASE CallOrAbort
  BY <1>1, AbortKeeps DEF MakePlan
<1>2. CASE /\ Call("answered")
           /\ plan' \in {p \in PlanOf(plan.version + 1) : WellFormed(p)}
           /\ steps' = [i \in StepNumbers |-> Untried(0, {})]
           /\ stage' = "review"
           /\ UNCHANGED <<mode, approved, answer, passed, memory, longTerm, result, recorded>>
  <2>0. stage = "plan" /\ NothingDone /\ ~approved /\ ~passed /\ ~Released
    BY DEF MakePlan, LoopInv, PlanningIsClean, Planning, Unreleased
  <2>1. /\ used' \in Nat /\ used' <= mode.calls /\ used' <= used + 1 /\ starved' = starved
    BY <1>2, CallEffect DEF LoopInv, Calls, Outcomes
  <2>2. /\ plan'.version = plan.version + 1 /\ plan'.size \in 0..MaxSteps
        /\ plan'.research \subseteq 1..plan'.size /\ plan'.research \in SUBSET StepNumbers
        /\ plan' \in [version : 0..(MaxRetries + 1), size : 0..MaxSteps,
                      research : SUBSET StepNumbers]
    <3>1. PICK n \in 0..(IF mode.single THEN 1 ELSE MaxSteps), R \in SUBSET StepNumbers :
             plan' = [version |-> plan.version + 1, size |-> n, research |-> R]
      BY <1>2 DEF PlanOf
    <3>2. plan.version + 1 \in 0..(MaxRetries + 1)
      BY <2>0, LoopTypes DEF LoopInv, PlanIsPossible
    <3>3. n \in 0..MaxSteps
      <4>1. CASE mode.single
        BY <3>1, <4>1, LoopAssumption
      <4>2. CASE ~mode.single
        BY <3>1, <4>2
      <4> QED
        BY <4>1, <4>2
    <3> QED
      BY <1>2, <3>1, <3>2, <3>3 DEF WellFormed
  <2>3. /\ steps' \in [StepNumbers -> StepRecords]
        /\ \A i \in StepNumbers : steps'[i] = Fresh /\ steps'[i].tries = 0 /\ steps'[i].phase = "waiting"
    BY <1>2, LoopTypes DEF LoopInv, Untried, Fresh, StepRecords, Phases
  <2>4. LoopTypeOK'
    BY <1>2, <2>1, <2>2, <2>3 DEF LoopInv, LoopTypeOK, StepRecords, Phases
  <2>5. NothingDone' /\ ~approved' /\ ~passed' /\ ~Released'
    BY <1>2, <2>0, <2>3 DEF NothingDone, Released
  <2>6. PlanningIsClean' /\ ExecutingIsApproved' /\ Unreleased' /\ PassedIsEarned' /\ EveryStepJudged'
    BY <1>2, <2>5 DEF PlanningIsClean, ExecutingIsApproved, Unreleased, PassedIsEarned,
                      EveryStepJudged, Planning, Executing, Afterwards
  <2>7. PlanIsPossible' /\ OkIsBacked'
    BY <1>2, <2>2, <2>3 DEF PlanIsPossible, WellFormed, OkIsBacked
  <2>8. VerdictsAreLast'
    BY <2>5 DEF NothingDone, VerdictsAreLast
  <2>9. Calls'
    <3>1. CASE plan.version = 0
      <4>1. Simple /\ used = 0
        BY <2>0, <3>1 DEF LoopInv, Calls
      <4>2. ~(starved' /\ mode'.calls >= Needed')
        BY <1>2, <2>1, <4>1 DEF LoopInv, Calls, Needed
      <4>3. CallsOfStage' /\ plan'.version # 0
        BY <1>2, <2>1, <2>2, <3>1, <4>1 DEF CallsOfStage
      <4> QED
        BY <1>2, <2>1, <4>2, <4>3 DEF Calls
    <3>2. CASE plan.version # 0
      <4>1. plan'.version >= 2
        BY <2>2, <3>2, LoopTypes DEF LoopInv
      <4>2. ~Simple' /\ plan'.version # 0
        BY <4>1, <2>2, LoopTypes DEF LoopInv, Simple
      <4> QED
        BY <1>2, <2>1, <4>2 DEF Calls
    <3> QED
      BY <3>1, <3>2
  <2> QED
    BY <2>4, <2>5, <2>6, <2>7, <2>8, <2>9 DEF LoopInv
<1> QED
  BY <1>1, <1>2 DEF MakePlan

\* the reviewer,
LEMMA ReviewPlanKeeps ==
    ASSUME LoopInv, ReviewPlan
    PROVE  LoopInv'
<1>1. CASE Executable /\ CallOrAbort
  BY <1>1, AbortKeeps DEF ReviewPlan
<1>2. CASE /\ \/ Executable /\ Call("answered") /\ approved' \in BOOLEAN
              \/ ~Executable /\ approved' = FALSE /\ UNCHANGED <<used, starved>>
           /\ stage' = IF approved' THEN "steps"
                       ELSE IF plan.version <= Retries THEN "plan" ELSE "rejected"
           /\ UNCHANGED <<mode, plan, steps, answer, passed, memory, longTerm, result, recorded>>
  <2>0. stage = "review" /\ NothingDone /\ ~passed /\ ~Released
    BY DEF ReviewPlan, LoopInv, PlanningIsClean, Planning, Unreleased
  <2>1. /\ used' \in Nat /\ used' <= mode.calls /\ used' <= used + 1 /\ starved' = starved
    <3>1. CASE Call("answered")
      BY <3>1, CallEffect DEF LoopInv, Calls, Outcomes
    <3>2. CASE UNCHANGED <<used, starved>>
      BY <3>2, LoopTypes DEF LoopInv, Calls
    <3> QED
      BY <1>2, <3>1, <3>2
  <2>2. approved' \in BOOLEAN /\ (approved' => Executable) /\ Executable' = Executable
    BY <1>2 DEF Executable
  <2>3. \/ approved' /\ stage' = "steps"
        \/ ~approved' /\ stage' = "plan" /\ plan.version <= Retries
        \/ ~approved' /\ stage' = "rejected"
    BY <1>2, <2>2
  <2>4. LoopTypeOK'
    BY <1>2, <2>1, <2>2, <2>3 DEF LoopInv, LoopTypeOK
  <2>5. NothingDone' /\ ~passed' /\ ~Released'
    BY <1>2, <2>0 DEF NothingDone, Released
  <2>6. PlanningIsClean' /\ ExecutingIsApproved' /\ Unreleased' /\ PassedIsEarned' /\ EveryStepJudged'
    BY <2>2, <2>3, <2>5 DEF PlanningIsClean, ExecutingIsApproved, Unreleased, PassedIsEarned,
                      EveryStepJudged, Planning, Executing, Afterwards
  <2>7. PlanIsPossible' /\ OkIsBacked'
    BY <1>2, <2>3 DEF LoopInv, PlanIsPossible, WellFormed, OkIsBacked, Backed, Retries
  <2>8. VerdictsAreLast'
    BY <2>5 DEF NothingDone, VerdictsAreLast
  <2>9. Calls'
    <3>1. Simple' = Simple /\ Needed' = Needed
      BY <1>2 DEF Simple, Needed
    <3>2. plan.version # 0
      BY <2>0 DEF LoopInv, Calls
    <3>3. Simple => used' <= 2
      BY <2>0, <2>1, LoopTypes DEF LoopInv, Calls, CallsOfStage
    <3>4. steps'[1].phase = "waiting"
      <4>1. 1 \in StepNumbers
        BY LoopAssumption DEF StepNumbers
      <4> QED
        BY <1>2, <2>0, <4>1 DEF NothingDone, Fresh, Untried
    <3>5. Simple => CallsOfStage'
      BY <2>3, <3>3, <3>4 DEF CallsOfStage
    <3> QED
      BY <1>2, <2>1, <2>3, <3>1, <3>2, <3>5 DEF LoopInv, Calls
  <2> QED
    BY <2>4, <2>5, <2>6, <2>7, <2>8, <2>9 DEF LoopInv
<1> QED
  BY <1>1, <1>2 DEF ReviewPlan

\* and the end of a plan that it rejects.
LEMMA RejectPlanKeeps ==
    ASSUME LoopInv, RejectPlan
    PROVE  LoopInv'
<1>1. /\ stage = "rejected" /\ stage' = "ended" /\ recorded' \in BOOLEAN
      /\ UNCHANGED <<mode, plan, approved, steps, used, starved, answer, passed, memory>>
  BY DEF RejectPlan
<1>2. /\ result' \in [status : {"failed", "simulated"}, release : {FALSE}]
      /\ result'.status \in {"failed", "simulated"} /\ result'.release = FALSE
  BY DEF RejectPlan
<1>3. /\ longTerm' \in [episode : {"none", "valid", "unknown"}, facts : BOOLEAN, procedure : BOOLEAN]
      /\ longTerm'.facts = longTerm.facts /\ longTerm'.procedure = longTerm.procedure
      /\ longTerm'.episode = longTerm.episode \/ longTerm'.episode = "unknown"
  BY DEF RejectPlan, LoopInv, LoopTypeOK
<1>4. NothingDone /\ ~approved /\ ~passed /\ ~Released
  BY <1>1 DEF LoopInv, PlanningIsClean, Planning, Unreleased
<1>5. LoopTypeOK'
  BY <1>1, <1>2, <1>3 DEF LoopInv, LoopTypeOK
<1>6. NothingDone' /\ ~approved' /\ ~passed' /\ ~Released'
  <2>1. ~Released'
    BY <1>1, <1>2, <1>3, <1>4 DEF NothingDone, Released
  <2> QED
    BY <1>1, <1>2, <1>3, <1>4, <2>1 DEF NothingDone
<1>7. PlanningIsClean' /\ ExecutingIsApproved' /\ Unreleased' /\ PassedIsEarned' /\ EveryStepJudged'
  BY <1>1, <1>6 DEF PlanningIsClean, ExecutingIsApproved, Unreleased, PassedIsEarned,
              EveryStepJudged, Planning, Executing, Afterwards
<1>8. PlanIsPossible' /\ OkIsBacked'
  BY <1>1 DEF LoopInv, PlanIsPossible, WellFormed, OkIsBacked, Backed
<1>9. VerdictsAreLast'
  BY <1>6 DEF NothingDone, VerdictsAreLast
<1>10. Calls'
  <2>1. Simple' = Simple /\ Needed' = Needed /\ plan.version # 0
    BY <1>1 DEF Simple, Needed, LoopInv, Calls
  <2>2. CallsOfStage'
    BY <1>1 DEF CallsOfStage
  <2> QED
    BY <1>1, <2>1, <2>2 DEF LoopInv, Calls
<1> QED
  BY <1>5, <1>6, <1>7, <1>8, <1>9, <1>10 DEF LoopInv

\* What a step of a thread does to the step i that it works on.
StepMoves(i, new) ==
    /\ stage = "steps" /\ stage' = "steps" /\ i \in 1..plan.size
    /\ steps[i].phase \in {"waiting", "answered"}
    /\ new \in StepRecords /\ steps' = [steps EXCEPT ![i] = new]
    /\ UNCHANGED <<mode, plan, approved, answer, passed, longTerm, result, recorded>>
    /\ new.tries >= steps[i].tries
    /\ new.phase = "answered" => steps[i].phase = "waiting"
    /\ new.phase = "waiting" => new.tries > steps[i].tries
    /\ new.phase = "ok" /\ i \in plan.research => Backed(new.cites, new.got)
    /\ used' \in Nat /\ used' <= mode.calls /\ used' <= used + 1
    /\ starved' \in BOOLEAN /\ (starved' => starved \/ used = mode.calls)
    /\ \/ memory' = memory
       \/ /\ new.phase \in {"ok", "failed"}
          /\ memory' = memory \cup
                {[what |-> i, validity |-> IF new.phase = "ok" THEN "valid" ELSE "invalid"]}

\* A step that moves on without passing falsely.
LEMMA StepMovesKeep ==
    ASSUME LoopInv, NEW i \in StepNumbers, NEW new, StepMoves(i, new)
    PROVE  LoopInv'
<1>1. /\ stage = "steps" /\ stage' = "steps" /\ i \in 1..plan.size
      /\ steps[i].phase \in {"waiting", "answered"} /\ ~Ended(i)
      /\ new \in StepRecords /\ steps' = [steps EXCEPT ![i] = new]
      /\ UNCHANGED <<mode, plan, approved, answer, passed, longTerm, result, recorded>>
  BY DEF StepMoves, Ended
<1>2. /\ steps' \in [StepNumbers -> StepRecords] /\ steps'[i] = new
      /\ \A j \in StepNumbers \ {i} : steps'[j] = steps[j]
  BY <1>1, LoopTypes DEF LoopInv
<1>3. /\ used' \in Nat /\ used' <= mode.calls /\ used' <= used + 1 /\ starved' \in BOOLEAN
      /\ starved' => starved \/ used = mode.calls
  BY DEF StepMoves
<1>4. \/ memory' = memory
      \/ /\ new.phase \in {"ok", "failed"}
         /\ memory' = memory \cup
               {[what |-> i, validity |-> IF new.phase = "ok" THEN "valid" ELSE "invalid"]}
  BY DEF StepMoves
<1>5. LoopTypeOK'
  <2>1. memory' \subseteq Verdicts
    <3>1. i \in 0..MaxSteps
      BY DEF StepNumbers
    <3> QED
      BY <1>4, <3>1, LoopTypes DEF LoopInv, Verdicts
  <2> QED
    BY <1>1, <1>2, <1>3, <2>1 DEF LoopInv, LoopTypeOK, StepRecords, Phases, Verdicts
<1>6. ~Released'
  <2>1. [what |-> 0, validity |-> "valid"] \notin memory'
    <3>1. [what |-> 0, validity |-> "valid"] \notin memory
      BY <1>1 DEF LoopInv, Unreleased, Released
    <3>2. i # 0
      BY DEF StepNumbers
    <3> QED
      BY <1>4, <3>1, <3>2
  <2> QED
    BY <1>1, <2>1 DEF LoopInv, Unreleased, Released
<1>7. PlanningIsClean' /\ ExecutingIsApproved' /\ Unreleased' /\ PassedIsEarned' /\ EveryStepJudged'
  BY <1>1, <1>6 DEF LoopInv, PlanningIsClean, ExecutingIsApproved, Unreleased, PassedIsEarned,
              EveryStepJudged, Planning, Executing, Afterwards, Executable
<1>8. PlanIsPossible'
  BY <1>1 DEF LoopInv, PlanIsPossible, WellFormed
<1>9. OkIsBacked'
  <2>1. new.phase = "ok" /\ i \in plan.research => Backed(new.cites, new.got)
    BY DEF StepMoves
  <2>2. plan.research \subseteq StepNumbers
    BY LoopTypes DEF LoopInv
  <2> QED
    BY <1>1, <1>2, <2>1, <2>2 DEF LoopInv, OkIsBacked, Backed
<1>10. VerdictsAreLast'
  <2> SUFFICES ASSUME NEW m \in memory', m.what > 0
               PROVE  /\ m.what \in 1..plan'.size
                      /\ steps'[m.what].phase \in {"ok", "failed"}
                      /\ m = [what |-> m.what, validity |->
                                IF steps'[m.what].phase = "ok" THEN "valid" ELSE "invalid"]
    BY DEF VerdictsAreLast, Ended, Remembered
  <2>1. CASE m \in memory
    <3>1. m.what \in 1..plan.size /\ Ended(m.what) /\ m = Remembered(m.what)
      BY <2>1 DEF LoopInv, VerdictsAreLast
    <3>2. m.what \in StepNumbers \ {i}
      BY <1>1, <3>1, LoopTypes DEF LoopInv, StepNumbers
    <3> QED
      BY <1>1, <1>2, <3>1, <3>2 DEF Ended, Remembered
  <2>2. CASE m \notin memory
    <3>1. /\ new.phase \in {"ok", "failed"}
          /\ m = [what |-> i, validity |-> IF new.phase = "ok" THEN "valid" ELSE "invalid"]
      BY <1>4, <2>2
    <3> QED
      BY <1>1, <1>2, <3>1
  <2> QED
    BY <2>1, <2>2
<1>11. Calls'
  <2>1. Simple' => Simple /\ new.phase # "waiting" /\ i = 1
    <3>1. ASSUME Simple'
          PROVE  \A j \in StepNumbers : steps[j].tries = 0
      <4>1. new.tries = 0 /\ steps[i].tries = 0
        BY <1>2, <3>1, LoopTypes DEF LoopInv, Simple, StepMoves
      <4> QED
        BY <1>2, <3>1, <4>1 DEF Simple
    <3>2. ASSUME Simple'
          PROVE  new.phase # "waiting"
      BY <1>2, <3>1, <3>2, LoopTypes DEF LoopInv, StepMoves, Simple
    <3>3. ASSUME Simple'
          PROVE  i = 1
      BY <1>1, <3>3, LoopTypes DEF LoopInv, Simple
    <3> QED
      BY <1>1, <3>1, <3>2, <3>3 DEF Simple
  <2>2. Needed' = Needed /\ plan.version # 0 /\ plan' = plan /\ mode' = mode
    BY <1>1 DEF Needed, LoopInv, Calls
  <2>3. mode.calls >= Needed /\ starved' => ~Simple'
    <3> SUFFICES ASSUME mode.calls >= Needed, starved', Simple'
                 PROVE  FALSE
      OBVIOUS
    <3>1. ~starved /\ used = mode.calls
      BY <1>3, <2>1 DEF LoopInv, Calls
    <3> QED
      BY <1>1, <2>1, <3>1, SimpleIsNotStarved
  <2>4. Simple' => CallsOfStage'
    <3> SUFFICES ASSUME Simple'
                 PROVE  used' <= IF steps'[1].phase = "answered" THEN 3 ELSE 4
      BY <1>1, <1>2, <2>1 DEF CallsOfStage
    <3>1. used <= IF steps[1].phase = "waiting" THEN 2 ELSE 3
      BY <1>1, <2>1 DEF LoopInv, Calls, CallsOfStage
    <3>2. steps'[1] = new /\ (new.phase = "answered" => steps[1].phase = "waiting")
      BY <1>2, <2>1 DEF StepMoves
    <3> QED
      BY <1>3, <3>1, <3>2, LoopTypes DEF LoopInv
  <2> QED
    BY <1>1, <1>3, <2>2, <2>3, <2>4 DEF LoopInv, Calls
<1> QED
  BY <1>5, <1>6, <1>7, <1>8, <1>9, <1>10, <1>11 DEF LoopInv

\* A step without another try fails.
LEMMA UntriedFails ==
    ASSUME NEW n \in 0..MaxRetries, NEW S \in SUBSET Sources
    PROVE  /\ [Untried(n, S) EXCEPT !.phase = "failed"] \in StepRecords
           /\ [Untried(n, S) EXCEPT !.phase = "failed"].phase = "failed"
           /\ [Untried(n, S) EXCEPT !.phase = "failed"].tries = n
<1> DEFINE u == Untried(n, S)
<1>1. u \in StepRecords /\ u.tries = n
  BY DEF Untried, StepRecords, Phases
<1> HIDE DEF u
<1>2. /\ [u EXCEPT !.phase = "failed"] \in StepRecords
      /\ [u EXCEPT !.phase = "failed"].phase = "failed"
      /\ [u EXCEPT !.phase = "failed"].tries = n
  BY <1>1 DEF StepRecords, Phases
<1> QED
  BY <1>2 DEF u

\* A critic who passes a step has seen its sources.
LEMMA JudgeMoves ==
    ASSUME LoopInv, NEW i \in StepNumbers, NEW ok \in BOOLEAN, stage = "steps", Turn(i),
           steps[i].phase \in {"waiting", "answered"},
           Judge(i, ok, steps[i].seen),
           ok /\ i \in plan.research => Backed(steps[i].cites, steps[i].got),
           UNCHANGED <<mode, plan, approved, answer, passed, longTerm, result, recorded>>,
           used' \in Nat, used' <= mode.calls, used' <= used + 1, starved' \in BOOLEAN,
           starved' => starved \/ used = mode.calls
    PROVE  \E new : StepMoves(i, new)
<1> DEFINE new == IF ok THEN [steps[i] EXCEPT !.phase = "ok", !.seen = steps[i].seen]
                  ELSE IF steps[i].tries < Retries THEN Untried(steps[i].tries + 1, steps[i].seen)
                  ELSE [Untried(steps[i].tries, steps[i].seen) EXCEPT !.phase = "failed"]
<1>1. steps' = [steps EXCEPT ![i] = new]
  BY DEF Judge
<1>2. /\ steps \in [StepNumbers -> StepRecords] /\ steps[i] \in StepRecords
      /\ steps[i].tries \in 0..MaxRetries /\ steps[i].seen \in SUBSET Sources
      /\ Retries \in 0..MaxRetries /\ MaxRetries \in Nat
  BY LoopTypes DEF LoopInv
<1>0. stage' = "steps" /\ i \in 1..plan.size
  BY DEF Turn, Judge
<1>3. CASE ok
  <2>1. new = [steps[i] EXCEPT !.phase = "ok", !.seen = steps[i].seen]
    BY <1>3
  <2>2. /\ new \in StepRecords /\ new.phase = "ok" /\ new.tries = steps[i].tries
        /\ new.cites = steps[i].cites /\ new.got = steps[i].got
    BY <2>1, <1>2 DEF StepRecords, Phases
  <2> HIDE DEF new
  <2>3. steps'[i] = new
    BY <1>1, <1>2
  <2>4. memory' = memory \/ memory' = memory \cup {[what |-> i, validity |-> "valid"]}
    BY <2>2, <2>3 DEF Judge, Remembered
  <2>10. /\ new.tries >= steps[i].tries
         /\ new.phase = "answered" => steps[i].phase = "waiting"
         /\ new.phase = "waiting" => new.tries > steps[i].tries
         /\ new.phase = "ok" /\ i \in plan.research => Backed(new.cites, new.got)
    BY <1>0, <1>1, <1>2, <1>3, <2>2, <2>4
  <2>11. \/ memory' = memory
         \/ /\ new.phase \in {"ok", "failed"}
            /\ memory' = memory \cup
                  {[what |-> i, validity |-> IF new.phase = "ok" THEN "valid" ELSE "invalid"]}
    BY <2>2, <2>4
  <2> QED
    BY <1>0, <1>1, <2>2, <2>10, <2>11 DEF StepMoves
<1>4. CASE ~ok /\ steps[i].tries < Retries
  <2>1. new = [phase |-> "waiting", tries |-> steps[i].tries + 1, got |-> {}, error |-> FALSE,
               cites |-> {}, seen |-> steps[i].seen]
    BY <1>4 DEF Untried
  <2> HIDE DEF new
  <2>2. steps[i].tries + 1 \in 0..MaxRetries
    BY <1>2, <1>4
  <2>3. new \in StepRecords /\ new.phase = "waiting" /\ new.tries = steps[i].tries + 1
    BY <2>1, <2>2, <1>2 DEF StepRecords, Phases
  <2>4. steps'[i] = new
    BY <1>1, <1>2
  <2>5. memory' = memory
    BY <2>3, <2>4 DEF Judge, Ended
  <2>10. /\ new.tries >= steps[i].tries
         /\ new.phase = "answered" => steps[i].phase = "waiting"
         /\ new.phase = "waiting" => new.tries > steps[i].tries
         /\ new.phase = "ok" /\ i \in plan.research => Backed(new.cites, new.got)
    BY <1>0, <1>1, <1>2, <2>3, <2>5
  <2>11. \/ memory' = memory
         \/ /\ new.phase \in {"ok", "failed"}
            /\ memory' = memory \cup
                  {[what |-> i, validity |-> IF new.phase = "ok" THEN "valid" ELSE "invalid"]}
    BY <2>3, <2>5
  <2> QED
    BY <1>0, <1>1, <2>3, <2>10, <2>11 DEF StepMoves
<1>5. CASE ~ok /\ ~(steps[i].tries < Retries)
  <2>2. new \in StepRecords /\ new.phase = "failed" /\ new.tries = steps[i].tries
    BY <1>2, <1>5, UntriedFails
  <2> HIDE DEF new
  <2>3. steps'[i] = new
    BY <1>1, <1>2
  <2>4. memory' = memory \/ memory' = memory \cup {[what |-> i, validity |-> "invalid"]}
    BY <2>2, <2>3 DEF Judge, Remembered
  <2>10. /\ new.tries >= steps[i].tries
         /\ new.phase = "answered" => steps[i].phase = "waiting"
         /\ new.phase = "waiting" => new.tries > steps[i].tries
         /\ new.phase = "ok" /\ i \in plan.research => Backed(new.cites, new.got)
    BY <1>0, <1>1, <1>2, <2>2, <2>4
  <2>11. \/ memory' = memory
         \/ /\ new.phase \in {"ok", "failed"}
            /\ memory' = memory \cup
                  {[what |-> i, validity |-> IF new.phase = "ok" THEN "valid" ELSE "invalid"]}
    BY <2>2, <2>4
  <2> QED
    BY <1>0, <1>1, <2>2, <2>10, <2>11 DEF StepMoves
<1> QED
  BY <1>3, <1>4, <1>5

\* A thread that the limiter sends away,
LEMMA RateLimitKeeps ==
    ASSUME LoopInv, NEW i \in StepNumbers, stage = "steps", Turn(i),
           steps[i].phase \in {"waiting", "answered"}, RateLimited(i),
           UNCHANGED <<mode, plan, approved, answer, passed, longTerm, result, recorded>>
    PROVE  LoopInv'
<1>1. /\ used' \in Nat /\ used' <= mode.calls /\ used' <= used + 1 /\ starved' = starved
      /\ used' = used
  BY CallEffect DEF RateLimited, LoopInv, Calls, Outcomes, Call
<1>2. CASE stage' = "aborted" /\ UNCHANGED <<steps, memory>>
  <2>1. LoopTypeOK'
    BY <1>1, <1>2 DEF LoopInv, LoopTypeOK
  <2>2. PlanningIsClean' /\ ExecutingIsApproved' /\ Unreleased' /\ PassedIsEarned' /\ EveryStepJudged'
    BY <1>2 DEF PlanningIsClean, ExecutingIsApproved, Unreleased, PassedIsEarned, EveryStepJudged,
                Planning, Executing, Afterwards
  <2>3. PlanIsPossible' /\ OkIsBacked' /\ VerdictsAreLast'
    BY <1>2 DEF LoopInv, PlanIsPossible, WellFormed, OkIsBacked, Backed, VerdictsAreLast, Ended,
                Remembered
  <2>4. (Released => Earned)'
    BY <1>2 DEF LoopInv, Released, Earned, Executable
  <2>5. Calls'
    BY <1>1, <1>2 DEF LoopInv, Calls, Simple, Needed, CallsOfStage
  <2> QED
    BY <2>1, <2>2, <2>3, <2>4, <2>5 DEF LoopInv
<1>3. CASE /\ InParallel /\ UNCHANGED <<stage, memory>>
           /\ steps' = [steps EXCEPT ![i] =
                  [Untried(steps[i].tries, {}) EXCEPT !.phase = "failed"]]
  <2> DEFINE new == [Untried(steps[i].tries, {}) EXCEPT !.phase = "failed"]
  <2>2. steps[i].tries \in 0..MaxRetries /\ MaxRetries \in Nat
    BY LoopTypes DEF LoopInv
  <2>3. new \in StepRecords /\ new.phase = "failed" /\ new.tries = steps[i].tries
    BY <2>2, UntriedFails
  <2>4. steps' = [steps EXCEPT ![i] = new]
    BY <1>3
  <2> HIDE DEF new
  <2>5. StepMoves(i, new)
    <3>1. i \in 1..plan.size /\ stage' = "steps" /\ starved' \in BOOLEAN
      BY <1>1, <1>3 DEF Turn, LoopInv, LoopTypeOK
    <3>2. new.tries >= steps[i].tries
      BY <2>2, <2>3
    <3> QED
      BY <1>1, <1>3, <2>3, <2>4, <3>1, <3>2 DEF StepMoves
  <2> QED
    BY <2>5, StepMovesKeep
<1> QED
  BY <1>2, <1>3 DEF RateLimited

\* whose call fails,
LEMMA FailedCallKeeps ==
    ASSUME LoopInv, NEW i \in StepNumbers, stage = "steps", Turn(i),
           steps[i].phase \in {"waiting", "answered"},
           NEW outcome \in {"failed", "starved"}, Call(outcome), Judge(i, FALSE, steps[i].seen),
           UNCHANGED <<mode, plan, approved, answer, passed, longTerm, result, recorded>>
    PROVE  LoopInv'
<1>1. /\ used' \in Nat /\ used' <= mode.calls /\ used' <= used + 1 /\ starved' \in BOOLEAN
      /\ starved' => starved \/ used = mode.calls
  BY CallEffect DEF LoopInv, Calls, LoopTypeOK, Outcomes
<1>2. \E new : StepMoves(i, new)
  BY <1>1, JudgeMoves
<1> QED
  BY <1>2, StepMovesKeep

\* that executes a step,
LEMMA ExecuteStepKeeps ==
    ASSUME LoopInv, NEW i \in StepNumbers, ExecuteStep(i)
    PROVE  LoopInv'
<1>0. /\ stage = "steps" /\ Turn(i) /\ steps[i].phase = "waiting"
      /\ UNCHANGED <<mode, plan, approved, answer, passed, longTerm, result, recorded>>
  BY DEF ExecuteStep
<1>1. CASE RateLimited(i)
  BY <1>0, <1>1, RateLimitKeeps
<1>2. CASE \E outcome \in {"failed", "starved"} : Call(outcome) /\ Judge(i, FALSE, steps[i].seen)
  BY <1>0, <1>2, FailedCallKeeps
<1>3. ASSUME Call("answered"), UNCHANGED <<stage, memory>>,
             NEW got \in SUBSET Sources, NEW error \in BOOLEAN, NEW cites \in SUBSET Cited,
             steps' = [steps EXCEPT ![i] =
                 [phase |-> "answered", tries |-> @.tries, got |-> got, error |-> error,
                  cites |-> cites, seen |-> @.seen \cup got]]
      PROVE  LoopInv'
  <2> DEFINE new == [phase |-> "answered", tries |-> steps[i].tries, got |-> got,
                     error |-> error, cites |-> cites, seen |-> steps[i].seen \cup got]
  <2>1. /\ used' \in Nat /\ used' <= mode.calls /\ used' <= used + 1 /\ starved' = starved
    BY <1>3, CallEffect DEF LoopInv, Calls, Outcomes
  <2>2. /\ steps[i] \in StepRecords /\ steps[i].tries \in 0..MaxRetries /\ MaxRetries \in Nat
        /\ steps[i].seen \in SUBSET Sources
    BY LoopTypes DEF LoopInv
  <2>3. new \in StepRecords /\ new.phase = "answered" /\ new.tries = steps[i].tries
    BY <1>3, <2>2 DEF StepRecords, Phases
  <2>4. steps' = [steps EXCEPT ![i] = new]
    BY <1>3
  <2> HIDE DEF new
  <2>5. StepMoves(i, new)
    <3>1. i \in 1..plan.size /\ stage' = "steps" /\ starved' \in BOOLEAN
      BY <1>0, <1>3, <2>1 DEF Turn, LoopInv, LoopTypeOK
    <3>2. new.tries >= steps[i].tries
      BY <2>2, <2>3
    <3> QED
      BY <1>0, <1>3, <2>1, <2>3, <2>4, <3>1, <3>2 DEF StepMoves
  <2> QED
    BY <2>5, StepMovesKeep
<1> QED
  BY <1>1, <1>2, <1>3 DEF ExecuteStep

\* or that judges one.
LEMMA CritiqueStepKeeps ==
    ASSUME LoopInv, NEW i \in StepNumbers, CritiqueStep(i)
    PROVE  LoopInv'
<1>0. /\ stage = "steps" /\ Turn(i) /\ steps[i].phase = "answered"
      /\ UNCHANGED <<mode, plan, approved, answer, passed, longTerm, result, recorded>>
  BY DEF CritiqueStep
<1>1. CASE RateLimited(i)
  BY <1>0, <1>1, RateLimitKeeps
<1>2. CASE \E outcome \in {"failed", "starved"} : Call(outcome) /\ Judge(i, FALSE, steps[i].seen)
  BY <1>0, <1>2, FailedCallKeeps
<1>3. ASSUME Call("answered"), NEW verdict \in BOOLEAN,
             Judge(i, verdict /\ StepGate(i), steps[i].seen)
      PROVE  LoopInv'
  <2>1. /\ used' \in Nat /\ used' <= mode.calls /\ used' <= used + 1
        /\ starved' \in BOOLEAN /\ (starved' => starved)
    BY <1>3, CallEffect DEF LoopInv, Calls, Outcomes, LoopTypeOK
  <2>2. /\ (verdict /\ StepGate(i)) \in BOOLEAN
        /\ verdict /\ StepGate(i) /\ i \in plan.research => Backed(steps[i].cites, steps[i].got)
    BY DEF StepGate
  <2>3. \E new : StepMoves(i, new)
    <3> DEFINE ok == verdict /\ StepGate(i)
    <3>1. ok \in BOOLEAN /\ (ok /\ i \in plan.research => Backed(steps[i].cites, steps[i].got))
          /\ Judge(i, ok, steps[i].seen)
      BY <1>3, <2>2
    <3> HIDE DEF ok
    <3> QED
      BY <1>0, <2>1, <3>1, JudgeMoves
  <2> QED
    BY <2>3, StepMovesKeep
<1> QED
  BY <1>1, <1>2, <1>3 DEF CritiqueStep

\* The actions after the steps leave the plan, the steps and the verdicts on them alone.
LEMMA StepsKept ==
    ASSUME LoopInv, UNCHANGED <<mode, plan, steps>>, \A m \in memory' \ memory : m.what = 0
    PROVE  OkIsBacked' /\ VerdictsAreLast' /\ (Simple' <=> Simple) /\ Needed' = Needed
<1>1. OkIsBacked'
  BY DEF LoopInv, OkIsBacked, Backed
<1>2. VerdictsAreLast'
  <2>1. \A m \in memory' : m.what > 0 => m \in memory
    OBVIOUS
  <2> QED
    BY <2>1 DEF LoopInv, VerdictsAreLast, Ended, Remembered
<1>3. (Simple' <=> Simple) /\ Needed' = Needed
  BY DEF Simple, Needed
<1> QED
  BY <1>1, <1>2, <1>3

\* The end of the steps,
LEMMA StepsEndedKeep ==
    ASSUME LoopInv, StepsEnded
    PROVE  LoopInv'
<1>1. /\ stage = "steps" /\ stage' = "synthesize" /\ \A i \in 1..plan.size : Ended(i)
      /\ memory' = memory \cup {Remembered(i) : i \in 1..plan.size}
      /\ UNCHANGED <<mode, plan, approved, steps, used, starved, answer, passed, longTerm,
                     result, recorded>>
  BY DEF StepsEnded
<1>2. \A i \in 1..plan.size :
         /\ i \in 1..MaxSteps /\ Remembered(i) \in Verdicts /\ Remembered(i).what = i
  BY LoopTypes DEF LoopInv, Remembered, Verdicts
<1>3. LoopTypeOK'
  <2>1. memory' \subseteq Verdicts
    BY <1>1, <1>2, LoopTypes DEF LoopInv
  <2> QED
    BY <1>1, <2>1 DEF LoopInv, LoopTypeOK, Verdicts
<1>4. approved /\ Executable /\ ~Released
  BY <1>1 DEF LoopInv, ExecutingIsApproved, Executing, Unreleased
<1>5. ~Released'
  <2>1. [what |-> 0, validity |-> "valid"] \notin memory'
    BY <1>1, <1>2, <1>4 DEF Released
  <2> QED
    BY <1>1, <1>4, <2>1 DEF Released
<1>6. EveryStepJudged' /\ VerdictsAreLast'
  <2>1. \A i \in 1..plan.size : Remembered(i)' = Remembered(i) /\ (Ended(i)' <=> Ended(i))
    BY <1>1 DEF Remembered, Ended
  <2>2. EveryStepJudged'
    BY <1>1, <2>1 DEF EveryStepJudged
  <2>3. ASSUME NEW m \in memory', m.what > 0
        PROVE  m.what \in 1..plan.size /\ Ended(m.what) /\ m = Remembered(m.what)
    BY <1>1, <1>2, <2>3 DEF LoopInv, VerdictsAreLast
  <2>4. VerdictsAreLast'
    BY <1>1, <2>1, <2>3 DEF VerdictsAreLast
  <2> QED
    BY <2>2, <2>4
<1>7. PlanningIsClean' /\ ExecutingIsApproved' /\ Unreleased' /\ PassedIsEarned'
  BY <1>1, <1>4, <1>5 DEF PlanningIsClean, ExecutingIsApproved, Unreleased, PassedIsEarned,
              Planning, Executing, Afterwards, Executable
<1>8. PlanIsPossible' /\ OkIsBacked'
  BY <1>1 DEF LoopInv, PlanIsPossible, WellFormed, OkIsBacked, Backed
<1>9. Calls'
  <2>1. (Simple' <=> Simple) /\ Needed' = Needed
    BY <1>1 DEF Simple, Needed
  <2>2. Simple => used <= 4
    <3>1. Simple => 1 \in 1..plan.size
      BY <1>4, LoopTypes DEF LoopInv, Simple, Executable
    <3>2. Simple => steps[1].phase \in {"ok", "failed"}
      BY <1>1, <3>1 DEF Ended
    <3> QED
      BY <1>1, <3>2 DEF LoopInv, Calls, CallsOfStage
  <2>3. Simple => CallsOfStage'
    BY <1>1, <2>2 DEF CallsOfStage
  <2> QED
    BY <1>1, <2>1, <2>3 DEF LoopInv, Calls
<1> QED
  BY <1>3, <1>5, <1>6, <1>7, <1>8, <1>9 DEF LoopInv

\* the answer,
LEMMA SynthesizeKeeps ==
    ASSUME LoopInv, Synthesize
    PROVE  LoopInv'
<1>0. stage = "synthesize"
  BY DEF Synthesize
<1>1. CASE ~mode.single /\ CallOrAbort
  BY <1>0, <1>1, AbortKeeps
<1>2. CASE /\ \/ ~mode.single /\ Call("answered") /\ answer' \in SUBSET Cited
              \/ mode.single /\ answer' = steps[1].cites /\ UNCHANGED <<used, starved>>
           /\ stage' = "verify"
           /\ UNCHANGED <<mode, plan, approved, steps, passed, memory, longTerm, result, recorded>>
  <2>1. /\ used' \in Nat /\ used' <= mode.calls /\ starved' = starved
        /\ used' <= IF mode.single THEN used ELSE used + 1
    <3>1. CASE ~mode.single /\ Call("answered")
      BY <3>1, CallEffect DEF LoopInv, Calls, Outcomes
    <3>2. CASE mode.single /\ UNCHANGED <<used, starved>>
      BY <3>2, LoopTypes DEF LoopInv, Calls
    <3> QED
      BY <1>2, <3>1, <3>2
  <2>2. answer' \in SUBSET Cited
    <3>1. 1 \in StepNumbers
      BY LoopAssumption DEF StepNumbers
    <3> QED
      BY <1>2, <3>1, LoopTypes DEF LoopInv
  <2>3. LoopTypeOK'
    BY <1>2, <2>1, <2>2 DEF LoopInv, LoopTypeOK
  <2>4. approved /\ Executable /\ ~Released
    BY <1>0 DEF LoopInv, ExecutingIsApproved, Executing, Unreleased
  <2>5. ~Released'
    BY <1>2, <2>4 DEF Released
  <2>6. /\ PlanningIsClean' /\ ExecutingIsApproved' /\ Unreleased' /\ PassedIsEarned'
        /\ EveryStepJudged'
    BY <1>0, <1>2, <2>4, <2>5 DEF PlanningIsClean, ExecutingIsApproved, Unreleased, PassedIsEarned,
       Planning, Executing, Afterwards, Executable, LoopInv, EveryStepJudged, Remembered
  <2>7. PlanIsPossible'
    BY <1>2 DEF LoopInv, PlanIsPossible, WellFormed
  <2>8. OkIsBacked' /\ VerdictsAreLast' /\ (Simple' <=> Simple) /\ Needed' = Needed
    BY <1>2, StepsKept
  <2>9. Calls'
    <3>1. Simple => used <= 4
      BY <1>0 DEF LoopInv, Calls, CallsOfStage
    <3>2. Simple => CallsOfStage'
      BY <1>2, <2>1, <3>1, LoopTypes DEF LoopInv, CallsOfStage
    <3> QED
      BY <1>0, <1>2, <2>1, <2>8, <3>2 DEF LoopInv, Calls
  <2> QED
    BY <2>3, <2>5, <2>6, <2>7, <2>8, <2>9 DEF LoopInv
<1> QED
  BY <1>1, <1>2 DEF Synthesize

\* What the gates let through has been earned.
LEMMA GatesEarn ==
    ASSUME LoopInv, stage = "verify", FinalResearchGate, ExecutionGate, mode.live
    PROVE  Earned
<1>1. approved /\ Executable /\ \A i \in 1..plan.size : steps[i].phase = "ok"
  BY DEF LoopInv, ExecutingIsApproved, Executing, ExecutionGate
<1>2. plan.research \subseteq 1..plan.size /\ 1..plan.size \subseteq StepNumbers
  BY LoopTypes DEF LoopInv, PlanIsPossible, WellFormed, StepNumbers
<1>3. Invented \notin Sources
  BY LoopAssumption
<1>4. Found \subseteq Sources
  <2>1. \A i \in 1..plan.size : steps[i].seen \subseteq Sources
    BY <1>2, LoopTypes DEF LoopInv
  <2> QED
    BY <2>1 DEF Found
<1>5. plan.research # {} => answer # {} /\ Invented \notin answer
  BY <1>3, <1>4 DEF FinalResearchGate, Backed
<1>6. ASSUME NEW i \in plan.research
      PROVE  steps[i].cites # {} /\ Invented \notin steps[i].cites
  <2>1. Backed(steps[i].cites, steps[i].got)
    BY <1>1, <1>2 DEF LoopInv, OkIsBacked
  <2>2. steps[i].got \subseteq Sources
    BY <1>2, LoopTypes DEF LoopInv
  <2> QED
    BY <1>3, <2>1, <2>2 DEF Backed
<1> QED
  BY <1>1, <1>5, <1>6 DEF Earned

\* its verification,
LEMMA VerifyKeeps ==
    ASSUME LoopInv, Verify
    PROVE  LoopInv'
<1>0. stage = "verify"
  BY DEF Verify
<1>1. CASE CallOrAbort
  BY <1>0, <1>1, AbortKeeps
<1>2. ASSUME Call("answered"), NEW verdict \in BOOLEAN,
             passed' = (verdict /\ FinalResearchGate /\ ExecutionGate), stage' = "learn",
             UNCHANGED <<mode, plan, approved, steps, answer, memory, longTerm, result, recorded>>
      PROVE  LoopInv'
  <2>1. /\ used' \in Nat /\ used' <= mode.calls /\ starved' = starved /\ used' <= used + 1
    BY <1>2, CallEffect DEF LoopInv, Calls, Outcomes
  <2>2. passed' \in BOOLEAN /\ (passed' => FinalResearchGate /\ ExecutionGate)
    BY <1>2
  <2>3. LoopTypeOK'
    BY <1>2, <2>1, <2>2 DEF LoopInv, LoopTypeOK
  <2>4. approved /\ Executable /\ ~Released
    BY <1>0 DEF LoopInv, ExecutingIsApproved, Executing, Unreleased
  <2>5. ~Released'
    BY <1>2, <2>4 DEF Released
  <2>6. /\ PlanningIsClean' /\ ExecutingIsApproved' /\ Unreleased' /\ EveryStepJudged'
    BY <1>0, <1>2, <2>4, <2>5 DEF PlanningIsClean, ExecutingIsApproved, Unreleased,
       Planning, Executing, Executable, LoopInv, EveryStepJudged, Remembered
  <2>7. PassedIsEarned'
    <3>1. passed' /\ mode.live => Earned
      BY <1>0, <2>2, GatesEarn
    <3> QED
      BY <1>2, <3>1 DEF PassedIsEarned, Earned, Executable
  <2>8. PlanIsPossible'
    BY <1>2 DEF LoopInv, PlanIsPossible, WellFormed
  <2>9. OkIsBacked' /\ VerdictsAreLast' /\ (Simple' <=> Simple) /\ Needed' = Needed
    BY <1>2, StepsKept
  <2>10. Calls'
    <3>1. Simple => used <= IF mode.single THEN 4 ELSE 5
      BY <1>0 DEF LoopInv, Calls, CallsOfStage
    <3>2. Simple => CallsOfStage'
      BY <1>2, <2>1, <3>1, LoopTypes DEF LoopInv, CallsOfStage
    <3> QED
      BY <1>0, <1>2, <2>1, <2>9, <3>2 DEF LoopInv, Calls
  <2> QED
    BY <2>3, <2>5, <2>6, <2>7, <2>8, <2>9, <2>10 DEF LoopInv
<1> QED
  BY <1>1, <1>2 DEF Verify

\* what is learnt,
LEMMA LearnKeeps ==
    ASSUME LoopInv, Learn
    PROVE  LoopInv'
<1>1. /\ stage = "learn"
      /\ stage' = IF mode.ltm /\ mode.live THEN "consolidate" ELSE "complete"
      /\ UNCHANGED <<mode, plan, approved, steps, used, starved, answer, passed, result, recorded>>
  BY DEF Learn
<1>2. PICK v \in {"valid", "unknown"} :
         memory' = memory \cup {[what |-> 0, validity |-> v]} /\ (v = "valid" => passed /\ mode.live)
  BY DEF Learn
<1>3. /\ longTerm' \in [episode : {"none", "valid", "unknown"}, facts : BOOLEAN,
                         procedure : BOOLEAN]
      /\ longTerm'.procedure = longTerm.procedure
      /\ longTerm'.episode = "valid" => longTerm.episode = "valid" \/ (passed /\ mode.live)
  <2> DEFINE e == IF ~mode.ltm THEN longTerm.episode
                  ELSE IF Status = "completed" THEN "valid" ELSE "unknown"
  <2>1. /\ e \in {"none", "valid", "unknown"}
        /\ e = "valid" => longTerm.episode = "valid" \/ (passed /\ mode.live)
    BY DEF LoopInv, LoopTypeOK, Status
  <2>2. longTerm' = [longTerm EXCEPT !.episode = e]
    BY DEF Learn
  <2> HIDE DEF e
  <2> QED
    BY <2>1, <2>2 DEF LoopInv, LoopTypeOK
<1>4. stage' \in {"consolidate", "complete"}
  BY <1>1
<1>5. approved /\ Executable /\ ~Released /\ (passed /\ mode.live => Earned)
  BY <1>1 DEF LoopInv, ExecutingIsApproved, Executing, Unreleased, PassedIsEarned, Afterwards
<1>6. LoopTypeOK'
  <2>1. memory' \subseteq Verdicts
    <3>1. [what |-> 0, validity |-> v] \in Verdicts
      BY LoopAssumption DEF Verdicts
    <3> QED
      BY <1>2, <3>1, LoopTypes DEF LoopInv
  <2> QED
    BY <1>1, <1>3, <1>4, <2>1 DEF LoopInv, LoopTypeOK, Verdicts
<1>7. Earned' = Earned
  BY <1>1 DEF Earned, Executable
<1>8. Released' => Earned'
  <2>1. Released' => passed /\ mode.live
    BY <1>1, <1>2, <1>3, <1>5 DEF Released
  <2> QED
    BY <1>5, <1>7, <2>1
<1>9. PlanningIsClean' /\ ExecutingIsApproved' /\ Unreleased' /\ PassedIsEarned'
  BY <1>1, <1>4, <1>5, <1>7 DEF PlanningIsClean, ExecutingIsApproved, Unreleased, PassedIsEarned,
     Planning, Executing, Executable
<1>10. EveryStepJudged'
  BY <1>1, <1>2 DEF LoopInv, EveryStepJudged, Executing, Remembered
<1>11. PlanIsPossible'
  BY <1>1, <1>4 DEF LoopInv, PlanIsPossible, WellFormed
<1>12. OkIsBacked' /\ VerdictsAreLast' /\ (Simple' <=> Simple) /\ Needed' = Needed
  BY <1>1, <1>2, StepsKept
<1>13. Calls'
  <2>1. Simple => CallsOfStage'
    BY <1>1, <1>4 DEF LoopInv, Calls, CallsOfStage
  <2> QED
    BY <1>1, <1>4, <1>12, <2>1 DEF LoopInv, Calls
<1> QED
  BY <1>6, <1>8, <1>9, <1>10, <1>11, <1>12, <1>13 DEF LoopInv

\* what is consolidated,
LEMMA ConsolidateKeeps ==
    ASSUME LoopInv, Consolidate
    PROVE  LoopInv'
<1>0. stage = "consolidate"
  BY DEF Consolidate
<1>1. CASE CallOrAbort
  BY <1>0, <1>1, AbortKeeps
<1>2. ASSUME Call("answered"), NEW facts \in BOOLEAN,
             longTerm' = [longTerm EXCEPT !.facts = facts, !.procedure = passed],
             stage' = "complete",
             UNCHANGED <<mode, plan, approved, steps, answer, passed, memory, result, recorded>>
      PROVE  LoopInv'
  <2>1. /\ used' \in Nat /\ used' <= mode.calls /\ starved' = starved
    BY <1>2, CallEffect DEF LoopInv, Calls, Outcomes
  <2>2. /\ longTerm' \in [episode : {"none", "valid", "unknown"}, facts : BOOLEAN,
                           procedure : BOOLEAN]
        /\ longTerm'.procedure = passed /\ longTerm'.episode = longTerm.episode
    BY <1>2 DEF LoopInv, LoopTypeOK
  <2>3. LoopTypeOK'
    BY <1>2, <2>1, <2>2 DEF LoopInv, LoopTypeOK
  <2>4. /\ approved /\ Executable /\ mode.live /\ mode.ltm
        /\ (passed => Earned) /\ (Released => Earned) /\ Earned' = Earned
    <3>1. mode.live /\ mode.ltm
      BY <1>0 DEF LoopInv, Calls
    <3>2. Earned' = Earned
      BY <1>2 DEF Earned, Executable
    <3> QED
      BY <1>0, <3>1, <3>2 DEF LoopInv, ExecutingIsApproved, Executing, PassedIsEarned, Afterwards
  <2>5. Released' => Earned'
    BY <1>2, <2>2, <2>4 DEF Released
  <2>6. /\ PlanningIsClean' /\ ExecutingIsApproved' /\ Unreleased' /\ PassedIsEarned'
        /\ EveryStepJudged'
    BY <1>0, <1>2, <2>4 DEF PlanningIsClean, ExecutingIsApproved, Unreleased, PassedIsEarned,
       Planning, Executing, Executable, LoopInv, EveryStepJudged, Remembered
  <2>7. PlanIsPossible'
    BY <1>2 DEF LoopInv, PlanIsPossible, WellFormed
  <2>8. OkIsBacked' /\ VerdictsAreLast' /\ (Simple' <=> Simple) /\ Needed' = Needed
    BY <1>2, StepsKept
  <2>9. Calls'
    <3>1. Simple => CallsOfStage'
      BY <1>2 DEF CallsOfStage
    <3> QED
      BY <1>0, <1>2, <2>1, <2>8, <3>1 DEF LoopInv, Calls
  <2> QED
    BY <2>3, <2>5, <2>6, <2>7, <2>8, <2>9 DEF LoopInv
<1> QED
  BY <1>1, <1>2 DEF Consolidate

\* and the result.
LEMMA CompleteKeeps ==
    ASSUME LoopInv, Complete
    PROVE  LoopInv'
<1>1. /\ stage = "complete" /\ stage' = "ended" /\ recorded' \in BOOLEAN
      /\ result' = [status |-> Status, release |-> passed /\ mode.live]
      /\ UNCHANGED <<mode, plan, approved, steps, used, starved, answer, passed, memory, longTerm>>
  BY DEF Complete
<1>2. /\ Status \in {"completed", "failed", "simulated"}
      /\ Status = "completed" => passed /\ mode.live
  BY DEF Status
<1>3. approved /\ (passed /\ mode.live => Earned) /\ (Released => Earned) /\ Earned' = Earned
  <2>1. Earned' = Earned
    BY <1>1 DEF Earned, Executable
  <2> QED
    BY <1>1, <2>1 DEF LoopInv, ExecutingIsApproved, Executing, PassedIsEarned, Afterwards
<1>4. passed \in BOOLEAN /\ mode.live \in BOOLEAN
  BY LoopTypes DEF LoopInv, LoopTypeOK
<1>5. /\ result' \in [status : {"none", "completed", "failed", "simulated"}, release : BOOLEAN]
      /\ result'.status = Status /\ (result'.release => passed /\ mode.live)
  <2>1. (passed /\ mode.live) \in BOOLEAN
    OBVIOUS
  <2> QED
    BY <1>1, <1>2, <2>1
<1>6. LoopTypeOK'
  BY <1>1, <1>5 DEF LoopInv, LoopTypeOK
<1>7. Released' => Earned'
  BY <1>1, <1>2, <1>3, <1>5 DEF Released
<1>8. /\ PlanningIsClean' /\ ExecutingIsApproved' /\ Unreleased' /\ PassedIsEarned'
      /\ EveryStepJudged'
  BY <1>1, <1>3 DEF PlanningIsClean, ExecutingIsApproved, Unreleased, PassedIsEarned,
     EveryStepJudged, Planning, Executing, Afterwards
<1>9. PlanIsPossible'
  BY <1>1 DEF LoopInv, PlanIsPossible, WellFormed
<1>10. OkIsBacked' /\ VerdictsAreLast' /\ (Simple' <=> Simple) /\ Needed' = Needed
  BY <1>1, StepsKept
<1>11. Calls'
  <2>1. CallsOfStage'
    BY <1>1 DEF CallsOfStage
  <2> QED
    BY <1>1, <1>10, <2>1 DEF LoopInv, Calls
<1> QED
  BY <1>6, <1>7, <1>8, <1>9, <1>10, <1>11 DEF LoopInv

\* The initial states satisfy the invariant.
LEMMA LoopInitInv ==
    ASSUME LoopInit
    PROVE  LoopInv
<1>1. MaxRetries \in Nat /\ MaxSteps \in Nat /\ MaxSteps > 0 /\ Budgets \subseteq Nat
  BY LoopAssumption
<1>2. /\ mode \in Modes /\ mode.single \in BOOLEAN /\ mode.calls \in Nat
      /\ stage = "plan" /\ plan = NoPlan /\ approved = FALSE
      /\ steps = [i \in StepNumbers |-> Untried(0, {})] /\ used = 0 /\ starved = FALSE
      /\ answer = {} /\ passed = FALSE /\ memory = {} /\ recorded = FALSE
      /\ longTerm = [episode |-> "none", facts |-> FALSE, procedure |-> FALSE]
      /\ result = [status |-> "none", release |-> FALSE]
  BY <1>1 DEF LoopInit, Modes
<1>3. plan \in [version : 0..(MaxRetries + 1), size : 0..MaxSteps, research : SUBSET StepNumbers]
      /\ plan.version = 0 /\ plan.size = 0 /\ plan.research = {}
  BY <1>1, <1>2 DEF NoPlan
<1>4. /\ steps \in [StepNumbers -> StepRecords]
      /\ \A i \in StepNumbers : steps[i] = Fresh /\ steps[i].tries = 0
  BY <1>1, <1>2 DEF StepRecords, Phases, Untried, Fresh
<1>5. LoopTypeOK
  BY <1>1, <1>2, <1>3, <1>4 DEF LoopTypeOK, StepRecords, Phases
<1>6. NothingDone /\ ~Released
  BY <1>2, <1>4 DEF NothingDone, Released
<1>7. /\ PlanningIsClean /\ ExecutingIsApproved /\ Unreleased /\ PassedIsEarned
      /\ EveryStepJudged /\ VerdictsAreLast
  BY <1>2, <1>6 DEF PlanningIsClean, ExecutingIsApproved, Unreleased, PassedIsEarned,
     EveryStepJudged, VerdictsAreLast, Planning, Executing, Afterwards
<1>8. PlanIsPossible /\ OkIsBacked
  BY <1>1, <1>2, <1>3 DEF PlanIsPossible, WellFormed, OkIsBacked, Retries
<1>9. Calls
  <2>1. Simple
    BY <1>3, <1>4 DEF Simple
  <2> QED
    BY <1>2, <1>3, <2>1 DEF Calls, CallsOfStage
<1> QED
  BY <1>5, <1>6, <1>7, <1>8, <1>9 DEF LoopInv

\* A step of another part keeps it.
LEMMA LoopInvStutters ==
    ASSUME LoopInv, UNCHANGED loopVars
    PROVE  LoopInv'
BY DEF loopVars, LoopInv, LoopTypeOK, PlanningIsClean, NothingDone, ExecutingIsApproved, Executable,
   PlanIsPossible, WellFormed, Retries, OkIsBacked, Backed, Unreleased, Released, PassedIsEarned,
   Earned, VerdictsAreLast, Ended, Remembered, EveryStepJudged, Calls, Simple, CallsOfStage, Needed

\* Every step keeps it.
LEMMA LoopKeeps ==
    ASSUME LoopInv, [LoopNext]_loopVars
    PROVE  LoopInv'
<1>1. CASE UNCHANGED loopVars
  BY <1>1, LoopInvStutters
<1>2. CASE LoopNext
  BY <1>2, MakePlanKeeps, ReviewPlanKeeps, RejectPlanKeeps, ExecuteStepKeeps, CritiqueStepKeeps,
     StepsEndedKeep, SynthesizeKeeps, VerifyKeeps, LearnKeeps, ConsolidateKeeps, CompleteKeeps
     DEF LoopNext
<1> QED
  BY <1>1, <1>2

-----------------------------------------------------------------------------
(***************************************************************************)
(* The cleanup.  No worker and no container is of an epoch that is still   *)
(* to come (ClaimsPrecede), and a worker at work has its worktree unless   *)
(* it was robbed of it (BusyHasTree).  A cleanup that holds the lock looks *)
(* at a worktree that was clean when it looked (LockedIsClean).  What it   *)
(* has read still holds unless a later claim or a predecessor's late       *)
(* unbinding came in between (SweepKnows, LateIsSeen), and the rows that   *)
(* the removal of containers has read are not newer than the fence         *)
(* (PurgeKnows).                                                           *)
(***************************************************************************)
ClaimsPrecede ==
    /\ \A e \in Epochs : worker[e] # "none" => e <= job.epoch
    /\ \A e \in containers : e <= job.epoch
    /\ job.live => job.state = "leased"

BusyHasTree ==
    \A e \in Epochs : worker[e] \in Busy => tree.exists \/ harm.robbed # {} \/ harm.crossed

LockedIsClean == sweep.at = "locked" => tree.exists /\ (tree.dirty => sweep.behind)

SweepKnows ==
    /\ Sweeping /\ job.live => job.epoch \in sweep.late
    /\ sweep.at \in {"read", "looked", "locked"} /\ sweep.confirmed = 0 /\ ~sweep.stale =>
          ~(project.bound /\ project.task \in ActiveTasks)
    /\ sweep.at \in {"looked", "locked"} /\ sweep.minAge > 0 /\ ~sweep.stale => ~tree.young

LateIsSeen ==
    Sweeping /\ tree.exists => \A e \in sweep.late : worker[e] \in Busy =>
        tree.young \/ project.bound \/ harm.unbound

PurgeKnows ==
    /\ purge.at = "listed" => \A e \in purge.listed : e <= job.epoch
    /\ purge.at \in {"jobs", "fence"} =>
          /\ purge.row.epoch <= job.epoch
          /\ \A e \in purge.listed : e <= purge.row.epoch
          /\ purge.row.state # "leased" /\ job.epoch = purge.row.epoch => ~job.live

ReaperInv ==
    /\ ReaperTypeOK /\ ClaimsPrecede /\ BusyHasTree /\ BoundTreeExists
    /\ LockedIsClean /\ DirtyTreeIsKept
    /\ SweepKnows /\ LateIsSeen /\ PurgeKnows /\ LiveContainerIsKept

Projects == [task : {"active", "ready", "blocked"}, bound : BOOLEAN,
             run : [Epochs -> {"none", "blocked"} \cup ActiveRuns]]
Trees == [exists : BOOLEAN, dirty : BOOLEAN, young : BOOLEAN]
Places == Busy \cup {"none", "claimed", "failing", "cleaning", "stopped"}
SweepPlaces == {"idle", "checked", "read", "looked", "locked", "removed", "unbinding", "done"}
Sweeps == [at : SweepPlaces, minAge : {0, 1}, confirmed : 0..MaxEpoch, active : BOOLEAN,
           late : SUBSET Epochs, stale : BOOLEAN, behind : BOOLEAN]
PurgePlaces == {"idle", "listed", "jobs", "fence", "done"}
Purges == [at : PurgePlaces, listed : SUBSET Epochs, confirmed : 0..MaxEpoch,
           fence : 0..MaxEpoch, row : Rows]
Harms == [robbed : SUBSET Epochs, lost : BOOLEAN, crossed : BOOLEAN, unbound : BOOLEAN,
          stopped : BOOLEAN, killed : SUBSET Epochs]

\* The type invariant, variable by variable.
LEMMA ReaperTypes ==
    ReaperTypeOK <=>
        /\ job \in Rows /\ project \in Projects /\ tree \in Trees
        /\ worker \in [Epochs -> Places] /\ made \subseteq Epochs /\ containers \subseteq Epochs
        /\ sweep \in Sweeps /\ purge \in Purges /\ harm \in Harms
BY DEF ReaperTypeOK, Projects, Trees, Places, SweepPlaces, Sweeps, PurgePlaces, Purges, Harms

\* Which actions change which variable.
LEMMA Frames ==
    ASSUME [ReaperNext]_reaperVars
    PROVE  /\ \/ job' = job
              \/ Claim \/ Expire \/ Recover \/ Rework \/ \E e \in Epochs : Stops(e)
           /\ \/ project' = project
              \/ Rework \/ FailConfirmed \/ Unbind
              \/ \E e \in Epochs : Bind(e) \/ Begin(e) \/ Finish(e) \/ Fail(e) \/ UnbindRemoved(e)
           /\ \/ tree' = tree
              \/ GrowOld \/ RemoveTree
              \/ \E e \in Epochs : Prepare(e) \/ Change(e) \/ Commit(e) \/ RemoveOwn(e)
           /\ \/ harm' = harm
              \/ RemoveTree \/ StopSweep \/ RemoveContainers
              \/ \E e \in Epochs : RemoveOwn(e) \/ UnbindRemoved(e) \/ Vanish(e)
BY DEF reaperVars, ReaperNext, Claim, Expire, Recover, Rework, GrowOld, Prepare, PrepareFails, Guard,
   Bind, Begin, Change, Commit, Finish, Fail, RemoveOwn, UnbindRemoved, Vanish, StartSweep, ReadProject,
   LookAtTree, LookAgain, RemoveTree, FailConfirmed, Unbind, StopSweep, ListContainers, ReadJobs,
   ReadFence, RemoveContainers

\* Which actions change what the cleanup knows.
LEMMA SweepFrames ==
    ASSUME [ReaperNext]_reaperVars
    PROVE  /\ \/ sweep' = sweep
              \/ Claim \/ Rework \/ \E e \in Epochs : Prepare(e) \/ Bind(e) \/ Change(e)
              \/ StartSweep \/ ReadProject \/ LookAtTree \/ LookAgain \/ RemoveTree
              \/ FailConfirmed \/ Unbind \/ StopSweep
           /\ \/ purge' = purge
              \/ ListContainers \/ ReadJobs \/ ReadFence \/ RemoveContainers
BY DEF reaperVars, ReaperNext, Claim, Expire, Recover, Rework, GrowOld, Prepare, PrepareFails, Guard,
   Bind, Begin, Change, Commit, Finish, Fail, RemoveOwn, UnbindRemoved, Vanish, StartSweep, ReadProject,
   LookAtTree, LookAgain, RemoveTree, FailConfirmed, Unbind, StopSweep, ListContainers, ReadJobs,
   ReadFence, RemoveContainers

\* What an action of one worker may do to the workers.
LEMMA WorkerFrames ==
    ASSUME [ReaperNext]_reaperVars
    PROVE  /\ \/ worker' = worker
              \/ Claim
              \/ \E e \in Epochs, p \in Places : worker' = [worker EXCEPT ![e] = p]
           /\ made' = made \/ \E e \in Epochs : made' = made \cup {e}
           /\ \/ containers' \subseteq containers
              \/ \E e \in Epochs : Begin(e)
<1>1. /\ made' = made \/ \E e \in Epochs : made' = made \cup {e}
      /\ \/ containers' \subseteq containers
         \/ \E e \in Epochs : Begin(e)
  BY DEF reaperVars, ReaperNext, Claim, Expire, Recover, Rework, GrowOld, Prepare, PrepareFails, Guard,
     Bind, Begin, Change, Commit, Finish, Fail, RemoveOwn, UnbindRemoved, Vanish, StartSweep,
     ReadProject, LookAtTree, LookAgain, RemoveTree, FailConfirmed, Unbind, StopSweep,
     ListContainers, ReadJobs, ReadFence, RemoveContainers, Stops
<1>2. \/ worker' = worker
      \/ Claim
      \/ \E e \in Epochs : \/ worker' = [worker EXCEPT ![e] = "prepared"]
                          \/ worker' = [worker EXCEPT ![e] = "guarded"]
                          \/ worker' = [worker EXCEPT ![e] = "bound"]
                          \/ worker' = [worker EXCEPT ![e] = "begun"]
                          \/ worker' = [worker EXCEPT ![e] = "committed"]
                          \/ worker' = [worker EXCEPT ![e] = "failing"]
                          \/ worker' = [worker EXCEPT ![e] = "cleaning"]
                          \/ worker' = [worker EXCEPT ![e] = "stopped"]
  BY DEF reaperVars, ReaperNext, Claim, Expire, Recover, Rework, GrowOld, Prepare, PrepareFails, Guard,
     Bind, Begin, Change, Commit, Finish, Fail, RemoveOwn, UnbindRemoved, Vanish, StartSweep,
     ReadProject, LookAtTree, LookAgain, RemoveTree, FailConfirmed, Unbind, StopSweep,
     ListContainers, ReadJobs, ReadFence, RemoveContainers, Stops
<1>3. {"prepared", "guarded", "bound", "begun", "committed", "failing", "cleaning", "stopped"}
         \subseteq Places
  BY DEF Places, Busy
<1> QED
  BY <1>1, <1>2, <1>3

\* A cleanup that has not begun is a cleanup.
LEMMA NoSweepIsSweep ==
    ASSUME NEW a \in SweepPlaces
    PROVE  NoSweep(a) \in Sweeps
BY ReaperAssumption DEF NoSweep, Sweeps

\* Every action keeps the types.
LEMMA ReaperTypesKept ==
    ASSUME ReaperTypeOK, [ReaperNext]_reaperVars
    PROVE  ReaperTypeOK'
<1> USE ReaperAssumption
<1>1. /\ job \in Rows /\ project \in Projects /\ tree \in Trees
      /\ worker \in [Epochs -> Places] /\ made \subseteq Epochs /\ containers \subseteq Epochs
      /\ sweep \in Sweeps /\ purge \in Purges /\ harm \in Harms
  BY ReaperTypes
<1>2. job' \in Rows
  <2>1. CASE Claim
    BY <1>1, <2>1 DEF Claim, Rows
  <2>2. CASE Expire
    BY <1>1, <2>2 DEF Expire, Rows
  <2>3. CASE Recover
    BY <1>1, <2>3 DEF Recover, Rows
  <2>4. CASE Rework
    BY <1>1, <2>4 DEF Rework, Rows
  <2>5. ASSUME NEW e \in Epochs, Stops(e)
        PROVE  job' \in Rows
    BY <1>1, <2>5 DEF Stops, Rows
  <2> QED
    BY <1>1, <2>1, <2>2, <2>3, <2>4, <2>5, Frames
<1>3. project' \in Projects
  <2>1. CASE Rework
    BY <1>1, <2>1 DEF Rework, Projects
  <2>2. CASE FailConfirmed
    BY <1>1, <2>2 DEF FailConfirmed, Projects
  <2>3. CASE Unbind
    BY <1>1, <2>3 DEF Unbind, Projects
  <2>4. ASSUME NEW e \in Epochs, Bind(e) \/ UnbindRemoved(e)
        PROVE  project' \in Projects
    BY <1>1, <2>4 DEF Bind, UnbindRemoved, Projects
  <2>5. ASSUME NEW e \in Epochs, Begin(e) \/ Finish(e) \/ Fail(e)
        PROVE  project' \in Projects
    <3>1. CASE Begin(e)
      BY <1>1, <3>1 DEF Begin, Projects, ActiveRuns
    <3>2. CASE Finish(e)
      BY <1>1, <3>2 DEF Finish, Projects, ActiveRuns
    <3>3. CASE Fail(e)
      BY <1>1, <3>3 DEF Fail, FailedRun, Projects, ActiveRuns
    <3> QED
      BY <2>5, <3>1, <3>2, <3>3
  <2> QED
    BY <1>1, <2>1, <2>2, <2>3, <2>4, <2>5, Frames
<1>4. tree' \in Trees
  <2>1. CASE GrowOld
    BY <1>1, <2>1 DEF GrowOld, Trees
  <2>2. CASE RemoveTree
    BY <1>1, <2>2 DEF RemoveTree, Trees, NoTree
  <2>3. ASSUME NEW e \in Epochs, Prepare(e) \/ Change(e) \/ Commit(e) \/ RemoveOwn(e)
        PROVE  tree' \in Trees
    <3>1. CASE Prepare(e) \/ RemoveOwn(e)
      <4>1. /\ NoTree \in Trees
            /\ [exists |-> TRUE, dirty |-> FALSE, young |-> TRUE] \in Trees
        BY DEF Trees, NoTree
      <4> QED
        BY <1>1, <3>1, <4>1 DEF Prepare, RemoveOwn
    <3>2. CASE Change(e)
      BY <1>1, <3>2 DEF Change, Trees
    <3>3. CASE Commit(e)
      BY <1>1, <3>3 DEF Commit, Trees
    <3> QED
      BY <2>3, <3>1, <3>2, <3>3
  <2> QED
    BY <1>1, <2>1, <2>2, <2>3, Frames
<1>5. worker' \in [Epochs -> Places]
  <2>1. CASE Claim
    BY <1>1, <2>1 DEF Claim, Places
  <2> QED
    BY <1>1, <2>1, WorkerFrames
<1>6. sweep' \in Sweeps
  <2>1. CASE Claim
    <3> DEFINE L == IF Sweeping THEN sweep.late \cup {job.epoch + 1} ELSE sweep.late
    <3>1. L \in SUBSET Epochs
      BY <1>1, <2>1 DEF Claim, Sweeps, Rows, Epochs
    <3>2. sweep' = [sweep EXCEPT !.late = L]
      BY <2>1 DEF Claim
    <3> QED
      BY <1>1, <3>1, <3>2 DEF Sweeps
  <2>2. CASE Rework \/ \E e \in Epochs : Bind(e)
    <3> DEFINE b == Sweeping
    <3>1. sweep' = [sweep EXCEPT !.stale = b] /\ b \in BOOLEAN
      BY <2>2 DEF Rework, Bind, Sweeping
    <3> HIDE DEF b
    <3> QED
      BY <1>1, <3>1 DEF Sweeps
  <2>3. ASSUME NEW e \in Epochs, Prepare(e)
        PROVE  sweep' \in Sweeps
    BY <1>1, <2>3 DEF Prepare, Sweeps
  <2>4. ASSUME NEW e \in Epochs, Change(e)
        PROVE  sweep' \in Sweeps
    BY <1>1, <2>4 DEF Change, Sweeps
  <2>5. CASE StartSweep
    BY <1>1, <2>5 DEF StartSweep, Sweeps, SweepPlaces
  <2>6. CASE ReadProject
    <3>1. PICK c \in {0} \cup Epochs :
             sweep' = IF Protected(c) THEN NoSweep("done")
                      ELSE [sweep EXCEPT
                             !.at = "read", !.confirmed = c, !.stale = FALSE,
                             !.active = c # 0 /\ project.run[c] \in ActiveRuns]
      BY <2>6 DEF ReadProject
    <3> DEFINE d == c # 0 /\ project.run[c] \in ActiveRuns
    <3>2. d \in BOOLEAN /\ c \in 0..MaxEpoch
      BY DEF Epochs
    <3>3. sweep' = NoSweep("done") \/ sweep' =
            [sweep EXCEPT !.at = "read", !.confirmed = c, !.stale = FALSE, !.active = d]
      BY <3>1
    <3> HIDE DEF d
    <3>4. [sweep EXCEPT !.at = "read", !.confirmed = c, !.stale = FALSE, !.active = d] \in Sweeps
      BY <1>1, <3>2 DEF Sweeps, SweepPlaces
    <3> QED
      BY <3>3, <3>4, NoSweepIsSweep DEF SweepPlaces
  <2>7. CASE LookAtTree \/ LookAgain \/ RemoveTree \/ FailConfirmed \/ Unbind \/ StopSweep
    <3>1. \E a \in SweepPlaces : sweep' = NoSweep(a) \/ sweep' = [sweep EXCEPT !.at = a]
      BY <2>7 DEF LookAtTree, LookAgain, RemoveTree, FailConfirmed, Unbind, StopSweep, SweepPlaces
    <3>2. \A a \in SweepPlaces : [sweep EXCEPT !.at = a] \in Sweeps
      BY <1>1 DEF Sweeps
    <3> QED
      BY <3>1, <3>2, NoSweepIsSweep
  <2> QED
    BY <1>1, <2>1, <2>2, <2>3, <2>4, <2>5, <2>6, <2>7, SweepFrames
<1>7. purge' \in Purges
  <2>1. CASE ListContainers
    <3>1. PICK c \in {0} \cup Epochs :
             purge' = [purge EXCEPT !.at = "listed", !.listed = containers, !.confirmed = c]
      BY <2>1 DEF ListContainers
    <3>2. c \in 0..MaxEpoch /\ containers \in SUBSET Epochs
      BY <1>1 DEF Epochs
    <3> QED
      BY <1>1, <3>1, <3>2 DEF Purges, PurgePlaces
  <2>2. CASE ReadJobs
    BY <1>1, <2>2 DEF ReadJobs, Purges, PurgePlaces
  <2>3. CASE ReadFence
    <3>1. (IF job.live THEN job.epoch ELSE 0) \in 0..MaxEpoch
      BY <1>1 DEF Rows
    <3> QED
      BY <1>1, <2>3, <3>1 DEF ReadFence, Purges, PurgePlaces
  <2>4. CASE RemoveContainers
    BY <2>4 DEF RemoveContainers, NoPurge, Purges, PurgePlaces, Rows
  <2> QED
    BY <1>1, <2>1, <2>2, <2>3, <2>4, SweepFrames
<1>8. harm' \in Harms
  <2>1. CASE RemoveTree
    BY <1>1, <2>1 DEF RemoveTree, Harms
  <2>2. CASE StopSweep
    BY <1>1, <2>2 DEF StopSweep, Harms
  <2>3. CASE RemoveContainers
    <3>1. PICK S \in SUBSET Epochs : harm' = [harm EXCEPT !.killed = harm.killed \cup S]
      <4>1. purge.listed \in SUBSET Epochs
        BY <1>1 DEF Purges
      <4>2. PICK expired \in BOOLEAN :
               harm' = [harm EXCEPT !.killed = harm.killed \cup
                          {e \in {x \in purge.listed : Removable(x, expired)} :
                              worker[e] \in Busy /\ Owns(e) /\ e # purge.confirmed}]
        BY <2>3 DEF RemoveContainers
      <4> QED
        BY <4>1, <4>2
    <3> QED
      BY <1>1, <3>1 DEF Harms
  <2>4. ASSUME NEW e \in Epochs, RemoveOwn(e) \/ UnbindRemoved(e) \/ Vanish(e)
        PROVE  harm' \in Harms
    BY <1>1, <2>4 DEF RemoveOwn, UnbindRemoved, Vanish, Harms
  <2> QED
    BY <1>1, <2>1, <2>2, <2>3, <2>4, Frames
<1>9. containers' \subseteq Epochs /\ made' \subseteq Epochs
  BY <1>1, WorkerFrames DEF Begin
<1>10. (ReaperTypeOK <=>
        /\ job \in Rows /\ project \in Projects /\ tree \in Trees
        /\ worker \in [Epochs -> Places] /\ made \subseteq Epochs /\ containers \subseteq Epochs
        /\ sweep \in Sweeps /\ purge \in Purges /\ harm \in Harms)'
  BY DEF ReaperTypeOK, Projects, Trees, Places, SweepPlaces, Sweeps, PurgePlaces, Purges, Harms,
         Rows, Epochs, Busy, ActiveRuns
<1> QED
  BY <1>2, <1>3, <1>4, <1>5, <1>6, <1>7, <1>8, <1>9, <1>10

WorkerStep(e) ==
    \/ Prepare(e) \/ PrepareFails(e) \/ Guard(e) \/ Bind(e) \/ Begin(e) \/ Commit(e)
    \/ Finish(e) \/ Fail(e) \/ RemoveOwn(e) \/ UnbindRemoved(e) \/ Vanish(e)

\* A worker moves only in an action of its own.
LEMMA WorkerActs ==
    ASSUME [ReaperNext]_reaperVars
    PROVE  worker' = worker \/ Claim \/ \E e \in Epochs : WorkerStep(e)
BY DEF WorkerStep, reaperVars, ReaperNext, Claim, Expire, Recover, Rework, GrowOld, Prepare, PrepareFails, Guard,
   Bind, Begin, Change, Commit, Finish, Fail, RemoveOwn, UnbindRemoved, Vanish, StartSweep,
   ReadProject, LookAtTree, LookAgain, RemoveTree, FailConfirmed, Unbind, StopSweep,
   ListContainers, ReadJobs, ReadFence, RemoveContainers

\* The epoch only grows, and a live lease is one of the claim that began it.
LEMMA JobEffect ==
    ASSUME ReaperTypeOK, ClaimsPrecede, [ReaperNext]_reaperVars
    PROVE  /\ job.epoch \in Nat /\ job'.epoch \in Nat /\ job'.epoch >= job.epoch
           /\ Claim \/ (job'.epoch = job.epoch /\ (job'.live => job.live))
           /\ job'.live => job'.state = "leased" \/ (job.live /\ job'.state = job.state)
<1>1. job \in Rows /\ MaxEpoch \in Nat
  BY ReaperAssumption DEF ReaperTypeOK
<1>2. CASE Claim
  BY <1>1, <1>2 DEF Claim, Rows
<1>3. CASE job' = job
  BY <1>1, <1>3 DEF Rows
<1>4. CASE Expire
  BY <1>1, <1>4 DEF Expire, Rows
<1>5. CASE Recover
  BY <1>1, <1>5 DEF Recover, Rows
<1>6. CASE Rework
  BY <1>1, <1>6 DEF Rework, Rows, ClaimsPrecede
<1>7. ASSUME NEW e \in Epochs, Stops(e)
      PROVE  /\ job.epoch \in Nat /\ job'.epoch \in Nat /\ job'.epoch = job.epoch
             /\ job'.live => job.live
             /\ job'.live => job'.state = job.state
  BY <1>1, <1>7 DEF Stops, Rows
<1> QED
  BY <1>2, <1>3, <1>4, <1>5, <1>6, <1>7, Frames

\* Where a worker comes from.
LEMMA WorkerEffect ==
    ASSUME ReaperTypeOK, ClaimsPrecede, [ReaperNext]_reaperVars, NEW e \in Epochs
    PROVE  /\ \/ worker'[e] = worker[e] \/ worker[e] # "none"
              \/ Claim /\ e = job.epoch + 1 /\ worker'[e] = "claimed"
           /\ worker'[e] \in Busy => worker[e] \in Busy \/ Prepare(e)
           /\ worker[e] = "cleaning" =>
                 worker'[e] = "cleaning" \/ UnbindRemoved(e) \/ Vanish(e)
<1>1. worker \in [Epochs -> Places] /\ job \in Rows /\ job.epoch \in Nat /\ MaxEpoch \in Nat
  BY ReaperTypes, ReaperAssumption DEF Rows
<1>2. CASE worker' = worker
  BY <1>2
<1>3. CASE Claim
  <2>1. worker' = [worker EXCEPT ![job.epoch + 1] = "claimed"]
    BY <1>3 DEF Claim
  <2>2. worker'[e] = worker[e] \/ (e = job.epoch + 1 /\ worker'[e] = "claimed")
    BY <1>1, <2>1
  <2>3. "claimed" \notin Busy /\ "claimed" # "cleaning"
    BY DEF Busy
  <2>4. e = job.epoch + 1 => worker[e] # "cleaning"
    BY <1>1 DEF ClaimsPrecede
  <2> QED
    BY <1>3, <2>2, <2>3, <2>4
<1>4. ASSUME NEW d \in Epochs, WorkerStep(d)
      PROVE  /\ worker[d] # "none" /\ \A x \in Epochs \ {d} : worker'[x] = worker[x]
             /\ worker'[d] \in Busy => worker[d] \in Busy \/ Prepare(d)
             /\ worker[d] = "cleaning" => UnbindRemoved(d) \/ Vanish(d)
  <2>1. \E p \in Places : worker' = [worker EXCEPT ![d] = p]
    BY <1>4 DEF WorkerStep, Prepare, PrepareFails, Guard, Bind, Begin, Commit, Finish, Fail, RemoveOwn,
                UnbindRemoved, Vanish, Stops, Places, Busy
  <2>2. \A x \in Epochs \ {d} : worker'[x] = worker[x]
    BY <1>1, <2>1
  <2>3. worker[d] # "none" /\ (worker[d] = "cleaning" => UnbindRemoved(d) \/ Vanish(d))
    BY <1>4 DEF WorkerStep, Prepare, PrepareFails, Guard, Bind, Begin, Commit, Finish, Fail, RemoveOwn,
                UnbindRemoved, Vanish, Busy
  <2>4. worker'[d] \in Busy => worker[d] \in Busy \/ Prepare(d)
    BY <1>1, <1>4 DEF WorkerStep, PrepareFails, Guard, Bind, Begin, Commit, Finish, Fail,
                RemoveOwn, UnbindRemoved, Vanish, Stops, Busy
  <2> QED
    BY <2>2, <2>3, <2>4
<1> QED
  BY <1>2, <1>3, <1>4, WorkerActs

\* How a worktree comes and goes.
LEMMA TreeEffect ==
    ASSUME ReaperTypeOK, [ReaperNext]_reaperVars
    PROVE  /\ tree.exists /\ ~tree'.exists => RemoveTree \/ \E e \in Epochs : RemoveOwn(e)
           /\ ~tree.exists /\ tree'.exists => tree'.young
           /\ tree'.dirty /\ ~tree.dirty => \E e \in Epochs : Change(e)
           /\ tree.young /\ ~tree'.young => GrowOld \/ ~tree'.exists
           /\ tree'.young /\ ~tree.young => \E e \in Epochs : Prepare(e) /\ ~tree.exists
<1>1. tree \in Trees
  BY ReaperTypes
<1>2. CASE tree' = tree
  BY <1>2
<1>3. CASE GrowOld
  BY <1>1, <1>3 DEF GrowOld, Trees
<1>4. CASE RemoveTree
  BY <1>1, <1>4 DEF RemoveTree, NoTree
<1>5. ASSUME NEW e \in Epochs, Prepare(e)
      PROVE  tree' = tree \/ /\ ~tree.exists /\ tree'.exists /\ tree'.young /\ ~tree'.dirty
  BY <1>5 DEF Prepare
<1>6. ASSUME NEW e \in Epochs, Change(e) \/ Commit(e)
      PROVE  /\ tree'.exists = tree.exists /\ tree'.young = tree.young
             /\ tree'.dirty /\ ~tree.dirty => Change(e)
  BY <1>1, <1>6 DEF Change, Commit, Trees
<1>7. ASSUME NEW e \in Epochs, RemoveOwn(e)
      PROVE  ~tree'.exists /\ ~tree'.dirty /\ ~tree'.young
  BY <1>7 DEF RemoveOwn, NoTree
<1> QED
  BY <1>2, <1>3, <1>4, <1>5, <1>6, <1>7, Frames

\* Nothing that went wrong is forgotten, and which action makes it go wrong.
LEMMA HarmEffect ==
    ASSUME ReaperTypeOK, [ReaperNext]_reaperVars
    PROVE  /\ harm.robbed \subseteq harm'.robbed
           /\ harm.crossed => harm'.crossed
           /\ harm.unbound => harm'.unbound
           /\ harm.stopped => harm'.stopped
           /\ harm'.lost = harm.lost \/ RemoveTree
           /\ harm'.robbed = harm.robbed \/ RemoveTree
           /\ harm'.killed = harm.killed \/ RemoveContainers
<1>1. harm \in Harms
  BY ReaperTypes
<1>2. CASE harm' = harm
  BY <1>2
<1>3. CASE RemoveTree
  BY <1>1, <1>3 DEF RemoveTree, Harms
<1>4. CASE StopSweep
  BY <1>1, <1>4 DEF StopSweep, Harms
<1>5. CASE RemoveContainers
  BY <1>1, <1>5 DEF RemoveContainers, Harms
<1>6. ASSUME NEW e \in Epochs, RemoveOwn(e)
      PROVE  /\ harm'.robbed = harm.robbed /\ harm'.unbound = harm.unbound
             /\ harm'.stopped = harm.stopped /\ harm'.lost = harm.lost
             /\ harm'.killed = harm.killed /\ (harm.crossed => harm'.crossed)
  BY <1>1, <1>6 DEF RemoveOwn, Harms
<1>7. ASSUME NEW e \in Epochs, UnbindRemoved(e)
      PROVE  /\ harm'.robbed = harm.robbed /\ harm'.crossed = harm.crossed
             /\ harm'.stopped = harm.stopped /\ harm'.lost = harm.lost
             /\ harm'.killed = harm.killed /\ (harm.unbound => harm'.unbound)
  BY <1>1, <1>7 DEF UnbindRemoved, Harms
<1>8. ASSUME NEW e \in Epochs, Vanish(e)
      PROVE  /\ harm'.robbed = harm.robbed /\ harm'.crossed = harm.crossed
             /\ harm'.unbound = harm.unbound /\ harm'.lost = harm.lost
             /\ harm'.killed = harm.killed /\ (harm.stopped => harm'.stopped)
  BY <1>1, <1>8 DEF Vanish, Harms
<1> QED
  BY <1>2, <1>3, <1>4, <1>5, <1>6, <1>7, <1>8, Frames

\* What binds an agent to its worktree, and what ends that.
LEMMA ProjectEffect ==
    ASSUME ReaperTypeOK, [ReaperNext]_reaperVars
    PROVE  /\ project'.bound => project.bound \/ \E e \in Epochs : Bind(e)
           /\ project.bound => project'.bound \/ Unbind \/ \E e \in Epochs : UnbindRemoved(e)
           /\ project'.bound /\ project'.task \in ActiveTasks =>
                 \/ project.bound /\ project.task \in ActiveTasks
                 \/ Rework \/ \E e \in Epochs : Bind(e)
<1>1. project \in Projects
  BY ReaperTypes
<1>2. CASE project' = project
  BY <1>2
<1>3. CASE Rework
  BY <1>1, <1>3 DEF Rework, Projects
<1>4. CASE FailConfirmed
  BY <1>1, <1>4 DEF FailConfirmed, Projects, ActiveTasks
<1>5. CASE Unbind
  BY <1>1, <1>5 DEF Unbind, Projects
<1>6. ASSUME NEW e \in Epochs, Begin(e)
      PROVE  project'.bound = project.bound /\ project'.task = project.task
  BY <1>1, <1>6 DEF Begin, Projects
<1>7. ASSUME NEW e \in Epochs, Finish(e)
      PROVE  project'.bound = project.bound /\ project.task \in ActiveTasks
  BY <1>1, <1>7 DEF Finish, Projects, ActiveTasks
<1>8. ASSUME NEW e \in Epochs, Fail(e)
      PROVE  project'.bound = project.bound /\ project'.task \in {project.task, "blocked"}
  BY <1>1, <1>8 DEF Fail, FailedRun, Projects
<1>9. ASSUME NEW e \in Epochs, UnbindRemoved(e)
      PROVE  ~project'.bound
  BY <1>1, <1>9 DEF UnbindRemoved, Projects
<1>10. "blocked" \notin ActiveTasks
  BY DEF ActiveTasks
<1>11. ASSUME NEW e \in Epochs, Bind(e)
       PROVE  project'.bound
  BY <1>1, <1>11 DEF Bind, Projects
<1> QED
  BY <1>2, <1>3, <1>4, <1>5, <1>6, <1>7, <1>8, <1>9, <1>10, <1>11, Frames


\* ClaimsPrecede is inductive.
LEMMA ClaimsPrecedeKept ==
    ASSUME ReaperInv, [ReaperNext]_reaperVars
    PROVE  ClaimsPrecede'
<1>1. ReaperTypeOK /\ ClaimsPrecede
  BY DEF ReaperInv
<1>2. ASSUME NEW e \in Epochs, worker'[e] # "none"
      PROVE  e <= job'.epoch
  <2>1. worker[e] # "none" \/ (Claim /\ e = job.epoch + 1)
    BY <1>1, <1>2, WorkerEffect
  <2>2. Claim => job'.epoch = job.epoch + 1
    BY <1>1 DEF Claim, ReaperTypeOK, Rows
  <2> QED
    BY <1>1, <2>1, <2>2, JobEffect DEF ClaimsPrecede, Epochs
<1>3. ASSUME NEW e \in containers'
      PROVE  e <= job'.epoch
  <2>1. e \in containers \/ (e \in Epochs /\ worker[e] # "none")
    BY <1>3, WorkerFrames DEF Begin
  <2>2. e \in Epochs /\ e \in Nat
    BY <1>1, <2>1, ReaperTypes, ReaperAssumption DEF Epochs
  <2> QED
    BY <1>1, <2>1, <2>2, JobEffect DEF ClaimsPrecede
<1>4. job'.live => job'.state = "leased"
  BY <1>1, JobEffect DEF ClaimsPrecede
<1> QED
  BY <1>2, <1>3, <1>4 DEF ClaimsPrecede

\* Who removes the worktree of a worker at work is the cleanup or a predecessor.
LEMMA BusyHasTreeKept ==
    ASSUME ReaperInv, [ReaperNext]_reaperVars
    PROVE  BusyHasTree'
<1>1. ReaperTypeOK /\ ClaimsPrecede /\ BusyHasTree /\ harm \in Harms
  BY ReaperTypes DEF ReaperInv
<1> SUFFICES ASSUME NEW e \in Epochs, worker'[e] \in Busy
             PROVE  tree'.exists \/ harm'.robbed # {} \/ harm'.crossed
  BY DEF BusyHasTree
<1>2. CASE Prepare(e)
  BY <1>2 DEF Prepare
<1>3. CASE worker[e] \in Busy
  <2>1. tree.exists \/ harm.robbed # {} \/ harm.crossed
    BY <1>1, <1>3 DEF BusyHasTree
  <2>2. RemoveTree => harm'.robbed # {}
    BY <1>1, <1>3 DEF RemoveTree, Harms
  <2>3. ASSUME NEW d \in Epochs, RemoveOwn(d)
        PROVE  harm'.crossed
    BY <1>1, <1>3, <2>3 DEF RemoveOwn, Harms
  <2> QED
    BY <1>1, <2>1, <2>2, <2>3, TreeEffect, HarmEffect
<1> QED
  BY <1>1, <1>2, <1>3, WorkerEffect

\* The worktree of a bound agent goes only in a step that unbinds it next.
LEMMA BoundTreeKept ==
    ASSUME ReaperInv, [ReaperNext]_reaperVars
    PROVE  BoundTreeExists'
<1>1. /\ ReaperTypeOK /\ ClaimsPrecede /\ BusyHasTree /\ BoundTreeExists
      /\ harm \in Harms /\ sweep \in Sweeps /\ worker \in [Epochs -> Places]
  BY ReaperTypes DEF ReaperInv
<1> SUFFICES ASSUME project'.bound, ~tree'.exists
             PROVE  \/ sweep'.at \in {"removed", "unbinding"}
                    \/ \E e \in Epochs : worker'[e] = "cleaning"
                    \/ harm'.stopped \/ harm'.robbed # {} \/ harm'.crossed
  BY DEF BoundTreeExists
<1>2. ASSUME NEW e \in Epochs, Bind(e)
      PROVE  harm'.robbed # {} \/ harm'.crossed
  <2>1. worker[e] \in Busy /\ tree' = tree
    BY <1>2 DEF Bind, Busy
  <2> QED
    BY <1>1, <2>1, HarmEffect DEF BusyHasTree
<1>3. ASSUME project.bound, tree.exists
      PROVE  sweep'.at = "removed" \/ \E e \in Epochs : worker'[e] = "cleaning"
  <2>1. RemoveTree => sweep'.at = "removed"
    BY <1>1 DEF RemoveTree, Sweeps
  <2>2. ASSUME NEW e \in Epochs, RemoveOwn(e)
        PROVE  worker'[e] = "cleaning"
    BY <1>1, <2>2 DEF RemoveOwn
  <2> QED
    BY <1>1, <1>3, <2>1, <2>2, TreeEffect
<1>4. ASSUME project.bound, ~tree.exists
      PROVE  \/ sweep'.at \in {"removed", "unbinding"}
             \/ \E e \in Epochs : worker'[e] = "cleaning"
             \/ harm'.stopped \/ harm'.robbed # {} \/ harm'.crossed
  <2>1. CASE sweep.at \in {"removed", "unbinding"}
    <3>1. /\ FailConfirmed => sweep'.at = "unbinding"
          /\ StopSweep => harm'.stopped
          /\ Unbind => ~project'.bound
      BY <1>1, <2>1, ReaperTypes DEF FailConfirmed, StopSweep, Unbind, Sweeps, Harms, Projects
    <3>2. /\ ~StartSweep /\ ~ReadProject /\ ~LookAtTree /\ ~LookAgain /\ ~RemoveTree
          /\ \A e \in Epochs : Prepare(e) \/ Bind(e) \/ Change(e) => sweep'.at = sweep.at
          /\ Claim \/ Rework => sweep'.at = sweep.at
      BY <1>1, <2>1 DEF StartSweep, ReadProject, LookAtTree, LookAgain, RemoveTree, Prepare, Bind,
                        Change, Claim, Rework, Sweeps
    <3> QED
      BY <2>1, <3>1, <3>2, SweepFrames
  <2>2. ASSUME NEW e \in Epochs, worker[e] = "cleaning"
        PROVE  worker'[e] = "cleaning" \/ harm'.stopped
    <3>1. /\ UnbindRemoved(e) => ~project'.bound
          /\ Vanish(e) => harm'.stopped
      BY <1>1, <2>2, ReaperTypes DEF UnbindRemoved, Vanish, Harms, Projects
    <3> QED
      BY <1>1, <2>2, <3>1, WorkerEffect
  <2> QED
    BY <1>1, <1>4, <2>1, <2>2, HarmEffect DEF BoundTreeExists
<1> QED
  BY <1>1, <1>2, <1>3, <1>4, ProjectEffect

\* How a cleanup gets where it is.
LEMMA SweepEffect ==
    ASSUME ReaperTypeOK, [ReaperNext]_reaperVars
    PROVE  \/ StartSweep \/ ReadProject \/ LookAtTree \/ LookAgain \/ RemoveTree
           \/ sweep'.at \in {"unbinding", "done"}
           \/ /\ sweep'.at = sweep.at /\ sweep'.confirmed = sweep.confirmed
              /\ sweep'.minAge = sweep.minAge /\ sweep.late \subseteq sweep'.late
              /\ \A e \in sweep'.late \ sweep.late : e = job.epoch + 1 /\ Claim
              /\ sweep.stale => sweep'.stale \/ ~Sweeping
              /\ sweep.behind => sweep'.behind
<1>1. sweep \in Sweeps /\ sweep.stale \in BOOLEAN /\ sweep.behind \in BOOLEAN
  BY ReaperTypes DEF Sweeps
<1>2. CASE sweep' = sweep
  BY <1>2
<1>3. CASE Claim
  BY <1>1, <1>3 DEF Claim, Sweeps
<1>4. CASE Rework \/ \E e \in Epochs : Bind(e)
  <2> DEFINE b == Sweeping
  <2>1. sweep' = [sweep EXCEPT !.stale = b]
    BY <1>4 DEF Rework, Bind
  <2>2. b \in BOOLEAN /\ (b <=> Sweeping)
    BY DEF Sweeping
  <2> HIDE DEF b
  <2> QED
    BY <1>1, <2>1, <2>2 DEF Sweeps
<1>5. ASSUME NEW e \in Epochs, Prepare(e)
      PROVE  \/ sweep' = sweep
             \/ \E b \in BOOLEAN : sweep' = [sweep EXCEPT !.stale = b] /\ (sweep.stale => b)
  BY <1>1, <1>5 DEF Prepare
<1>6. ASSUME NEW e \in Epochs, Change(e)
      PROVE  \E b \in BOOLEAN : sweep' = [sweep EXCEPT !.behind = b] /\ (sweep.behind => b)
  BY <1>1, <1>6 DEF Change
<1>7. FailConfirmed \/ Unbind \/ StopSweep => sweep'.at \in {"unbinding", "done"}
  BY <1>1 DEF FailConfirmed, Unbind, StopSweep, NoSweep, Sweeps
<1>8. \A b \in BOOLEAN : /\ [sweep EXCEPT !.stale = b] = [sweep EXCEPT !.stale = b]
                         /\ [sweep EXCEPT !.stale = b].at = sweep.at
                         /\ [sweep EXCEPT !.stale = b].confirmed = sweep.confirmed
                         /\ [sweep EXCEPT !.stale = b].minAge = sweep.minAge
                         /\ [sweep EXCEPT !.stale = b].late = sweep.late
                         /\ [sweep EXCEPT !.stale = b].behind = sweep.behind
                         /\ [sweep EXCEPT !.stale = b].stale = b
                         /\ [sweep EXCEPT !.behind = b].at = sweep.at
                         /\ [sweep EXCEPT !.behind = b].confirmed = sweep.confirmed
                         /\ [sweep EXCEPT !.behind = b].minAge = sweep.minAge
                         /\ [sweep EXCEPT !.behind = b].late = sweep.late
                         /\ [sweep EXCEPT !.behind = b].stale = sweep.stale
                         /\ [sweep EXCEPT !.behind = b].behind = b
  BY <1>1 DEF Sweeps
<1> QED
  BY <1>2, <1>3, <1>4, <1>5, <1>6, <1>7, <1>8, SweepFrames

\* What a cleanup that has read the project knows at that moment.
LEMMA ReadEffect ==
    ASSUME ReaperTypeOK, ReadProject
    PROVE  /\ sweep.at = "checked" /\ project' = project
           /\ \/ sweep'.at = "done"
              \/ /\ sweep'.at = "read" /\ sweep'.late = sweep.late
                 /\ ~Protected(sweep'.confirmed)
<1>1. PICK c \in {0} \cup Epochs :
         sweep' = IF Protected(c) THEN NoSweep("done")
                  ELSE [sweep EXCEPT
                         !.at = "read", !.confirmed = c, !.stale = FALSE,
                         !.active = c # 0 /\ project.run[c] \in ActiveRuns]
  BY DEF ReadProject
<1>2. sweep \in Sweeps /\ NoSweep("done").at = "done"
  BY ReaperTypes DEF NoSweep
<1>3. CASE Protected(c)
  BY <1>1, <1>2, <1>3 DEF ReadProject
<1>4. CASE ~Protected(c)
  <2> DEFINE d == c # 0 /\ project.run[c] \in ActiveRuns
  <2>1. d \in BOOLEAN /\ sweep' =
           [sweep EXCEPT !.at = "read", !.confirmed = c, !.stale = FALSE, !.active = d]
    BY <1>1, <1>4
  <2> HIDE DEF d
  <2>2. sweep'.at = "read" /\ sweep'.late = sweep.late /\ sweep'.confirmed = c
    BY <1>2, <2>1 DEF Sweeps
  <2> QED
    BY <1>4, <2>2 DEF ReadProject
<1> QED
  BY <1>3, <1>4

\* Between the second look and the removal nothing but a worker dirties the worktree.
LEMMA LockedIsCleanKept ==
    ASSUME ReaperInv, [ReaperNext]_reaperVars
    PROVE  LockedIsClean' /\ DirtyTreeIsKept'
<1>1. /\ ReaperTypeOK /\ LockedIsClean /\ DirtyTreeIsKept
      /\ harm \in Harms /\ sweep \in Sweeps /\ tree \in Trees
  BY ReaperTypes DEF ReaperInv
<1>2. ASSUME sweep'.at = "locked"
      PROVE  tree'.exists /\ (tree'.dirty => sweep'.behind)
  <2>1. ASSUME NEW e \in Epochs, Change(e), sweep.at = "locked"
        PROVE  sweep'.behind
    BY <1>1, <2>1 DEF Change, Sweeps
  <2>2. CASE LookAgain
    BY <1>1, <1>2, <2>2 DEF LookAgain, Rechecked, NoSweep
  <2>3. CASE ~LookAgain
    <3>1. ~StartSweep /\ ~LookAtTree /\ ~RemoveTree
      <4>1. LookAtTree => sweep' = NoSweep("done") \/ sweep' = [sweep EXCEPT !.at = "looked"]
        BY DEF LookAtTree
      <4>2. StartSweep => sweep'.at = "checked"
        BY <1>1 DEF StartSweep, Sweeps
      <4>3. RemoveTree => sweep'.at = "removed"
        BY <1>1 DEF RemoveTree, Sweeps
      <4>4. [sweep EXCEPT !.at = "looked"].at = "looked" /\ NoSweep("done").at = "done"
        BY <1>1 DEF NoSweep, Sweeps
      <4> QED
        BY <1>2, <4>1, <4>2, <4>3, <4>4
    <3>2. ~ReadProject
      BY <1>1, <1>2, ReadEffect
    <3>3. sweep.at = "locked" /\ (sweep.behind => sweep'.behind)
      BY <1>1, <1>2, <2>3, <3>1, <3>2, SweepEffect
    <3>4. \A e \in Epochs : ~RemoveOwn(e)
      BY <3>3 DEF RemoveOwn
    <3> QED
      BY <1>1, <1>2, <2>1, <3>1, <3>3, <3>4, TreeEffect DEF LockedIsClean
  <2> QED
    BY <2>2, <2>3
<1>3. ~harm'.lost
  <2>1. RemoveTree => ~harm'.lost
    BY <1>1 DEF RemoveTree, Harms, LockedIsClean, DirtyTreeIsKept
  <2> QED
    BY <1>1, <2>1, HarmEffect DEF DirtyTreeIsKept
<1> QED
  BY <1>2, <1>3 DEF LockedIsClean, DirtyTreeIsKept

\* What makes the reading of a cleanup wrong is recorded in it as stale.
LEMMA SweepKnowsKept ==
    ASSUME ReaperInv, [ReaperNext]_reaperVars
    PROVE  SweepKnows'
<1>1. /\ ReaperTypeOK /\ ClaimsPrecede /\ SweepKnows
      /\ sweep \in Sweeps /\ tree \in Trees /\ job \in Rows /\ project \in Projects
  BY ReaperTypes DEF ReaperInv
<1>2. ASSUME Sweeping', job'.live
      PROVE  job'.epoch \in sweep'.late
  <2>1. ~StartSweep
    BY <1>2 DEF StartSweep
  <2>2. CASE Claim
    BY <1>1, <1>2, <2>2 DEF Claim, Sweeping, Sweeps, Rows
  <2>3. CASE ~Claim
    <3>1. job'.epoch = job.epoch /\ job.live
      BY <1>1, <1>2, <2>3, JobEffect
    <3>2. Sweeping /\ sweep.late \subseteq sweep'.late
      <4>0. LookAtTree \/ LookAgain => Sweeping /\ sweep'.late = sweep.late
        BY <1>1, <1>2 DEF LookAtTree, LookAgain, Sweeping, NoSweep, Sweeps
      <4>1. ReadProject => Sweeping /\ sweep'.late = sweep.late
        BY <1>1, <1>2, ReadEffect DEF Sweeping
      <4>2. ~RemoveTree /\ sweep'.at \notin {"unbinding", "done"}
        BY <1>1, <1>2 DEF RemoveTree, Sweeping, Sweeps
      <4>3. sweep'.at = sweep.at => Sweeping
        BY <1>2 DEF Sweeping
      <4> QED
        BY <1>1, <2>1, <4>0, <4>1, <4>2, <4>3, SweepEffect
    <3> QED
      BY <1>1, <3>1, <3>2 DEF SweepKnows
  <2> QED
    BY <2>2, <2>3
<1>3. ASSUME sweep'.at \in {"read", "looked", "locked"}, sweep'.confirmed = 0, ~sweep'.stale
      PROVE  ~(project'.bound /\ project'.task \in ActiveTasks)
  <2>1. CASE ReadProject
    <3>1. ~Protected(0) /\ project' = project
      BY <1>1, <1>3, <2>1, ReadEffect
    <3> QED
      BY <3>1 DEF Protected
  <2>2. CASE LookAtTree \/ LookAgain
    <3>1. /\ sweep.at \in {"read", "looked"} /\ sweep.confirmed = 0 /\ ~sweep.stale
          /\ project' = project
      BY <1>1, <1>3, <2>2 DEF LookAtTree, LookAgain, NoSweep, Sweeps
    <3> QED
      BY <1>1, <3>1 DEF SweepKnows
  <2>3. CASE ~ReadProject /\ ~LookAtTree /\ ~LookAgain
    <3>1. ~StartSweep /\ ~RemoveTree
      BY <1>1, <1>3 DEF StartSweep, RemoveTree, Sweeps
    <3>2. /\ sweep.at = sweep'.at /\ sweep.confirmed = 0 /\ ~sweep.stale /\ Sweeping
      BY <1>1, <1>3, <2>3, <3>1, SweepEffect DEF Sweeping
    <3>3. ~Rework /\ \A e \in Epochs : ~Bind(e)
      <4>1. Rework \/ (\E e \in Epochs : Bind(e)) => sweep'.stale
        BY <1>1, <3>2 DEF Rework, Bind, Sweeps
      <4> QED
        BY <1>3, <4>1
    <3> QED
      BY <1>1, <1>3, <3>2, <3>3, ProjectEffect DEF SweepKnows
  <2> QED
    BY <2>1, <2>2, <2>3
<1>4. ASSUME sweep'.at \in {"looked", "locked"}, sweep'.minAge > 0, ~sweep'.stale
      PROVE  ~tree'.young
  <2>1. CASE LookAtTree
    BY <1>1, <1>4, <2>1 DEF LookAtTree, NoSweep, Sweeps
  <2>2. CASE LookAgain
    <3>1. sweep.at = "looked" /\ sweep.minAge > 0 /\ ~sweep.stale /\ tree' = tree
      BY <1>1, <1>4, <2>2 DEF LookAgain, NoSweep, Sweeps
    <3> QED
      BY <1>1, <3>1 DEF SweepKnows
  <2>3. CASE ~LookAtTree /\ ~LookAgain
    <3>1. ~StartSweep /\ ~RemoveTree /\ ~ReadProject
      BY <1>1, <1>4, ReadEffect DEF StartSweep, RemoveTree, Sweeps
    <3>2. sweep.at = sweep'.at /\ sweep.minAge > 0 /\ ~sweep.stale
      BY <1>1, <1>4, <2>3, <3>1, SweepEffect DEF Sweeping
    <3>3. ASSUME NEW e \in Epochs, Prepare(e), ~tree.exists
          PROVE  tree' = tree
      BY <1>1, <1>4, <3>2, <3>3 DEF Prepare, Sweeps
    <3> QED
      BY <1>1, <1>4, <3>2, <3>3, TreeEffect DEF SweepKnows
  <2> QED
    BY <2>1, <2>2, <2>3
<1> QED
  BY <1>2, <1>3, <1>4 DEF SweepKnows

\* A worker that came after the cleanup began is young, bound or was unbound by another.
LEMMA LateIsSeenKept ==
    ASSUME ReaperInv, [ReaperNext]_reaperVars
    PROVE  LateIsSeen'
<1>1. /\ ReaperTypeOK /\ ClaimsPrecede /\ LateIsSeen /\ worker \in [Epochs -> Places]
      /\ sweep \in Sweeps /\ tree \in Trees /\ job \in Rows /\ harm \in Harms
  BY ReaperTypes DEF ReaperInv
<1> SUFFICES ASSUME Sweeping', tree'.exists, NEW e \in sweep'.late, worker'[e] \in Busy
             PROVE  tree'.young \/ project'.bound \/ harm'.unbound
  BY DEF LateIsSeen
<1>2. e \in Epochs
  BY ReaperTypesKept, <1>1 DEF ReaperTypeOK
<1>3. /\ Sweeping /\ e \in sweep.late /\ ~Unbind /\ ~GrowOld /\ ~RemoveTree
  <2>1. ~StartSweep
    BY <1>1 DEF StartSweep, Sweeps
  <2>2. ~RemoveTree /\ ~Unbind /\ sweep'.at \notin {"unbinding", "done"}
    BY <1>1 DEF RemoveTree, Unbind, NoSweep, Sweeping, Sweeps
  <2>3. /\ LookAtTree \/ LookAgain => Sweeping /\ sweep'.late = sweep.late
        /\ ReadProject => Sweeping /\ sweep'.late = sweep.late
    <3>1. LookAtTree \/ LookAgain => Sweeping /\ sweep'.late = sweep.late
      BY <1>1 DEF LookAtTree, LookAgain, Sweeping, NoSweep, Sweeps
    <3>2. ReadProject => Sweeping /\ sweep'.late = sweep.late
      BY <1>1, ReadEffect DEF Sweeping
    <3> QED
      BY <3>1, <3>2
  <2>4. ~(Claim /\ e = job.epoch + 1)
    BY <1>1, <1>2 DEF Claim, Busy
  <2>5. sweep'.at = sweep.at => Sweeping
    BY DEF Sweeping
  <2>6. Sweeping /\ e \in sweep.late
    BY <1>1, <2>1, <2>2, <2>3, <2>4, <2>5, SweepEffect
  <2>7. ~GrowOld
    BY <2>6 DEF GrowOld, Sweeping
  <2> QED
    BY <2>2, <2>6, <2>7
<1>4. CASE Prepare(e)
  BY <1>4 DEF Prepare
<1>5. CASE worker[e] \in Busy /\ tree.exists
  <2>1. tree.young \/ project.bound \/ harm.unbound
    BY <1>1, <1>3, <1>5 DEF LateIsSeen
  <2>2. ASSUME NEW d \in Epochs, UnbindRemoved(d)
        PROVE  harm'.unbound
    BY <1>1, <1>5, <2>2 DEF UnbindRemoved, Harms
  <2> QED
    BY <1>1, <1>3, <2>1, <2>2, TreeEffect, ProjectEffect, HarmEffect
<1>6. CASE ~tree.exists
  BY <1>1, <1>6, TreeEffect
<1> QED
  BY <1>1, <1>2, <1>4, <1>5, <1>6, WorkerEffect

\* The removal of containers never acts on a row newer than the fence.
LEMMA PurgeKept ==
    ASSUME ReaperInv, [ReaperNext]_reaperVars
    PROVE  PurgeKnows' /\ LiveContainerIsKept'
<1>1. /\ ReaperTypeOK /\ ClaimsPrecede /\ PurgeKnows /\ LiveContainerIsKept
      /\ purge \in Purges /\ job \in Rows /\ harm \in Harms
      /\ containers \subseteq Epochs /\ Epochs \subseteq Nat
  BY ReaperTypes, ReaperAssumption DEF ReaperInv, Epochs
<1>2. /\ purge.listed \subseteq Nat /\ purge.row \in Rows /\ purge.row.epoch \in Nat
      /\ job.epoch \in Nat /\ job.live \in BOOLEAN
  <2>1. purge.listed \subseteq Epochs /\ purge.row \in Rows
    BY <1>1 DEF Purges
  <2>2. \A r \in Rows : r.epoch \in Nat /\ r.live \in BOOLEAN
    BY ReaperAssumption DEF Rows
  <2> QED
    BY <1>1, <2>1, <2>2
<1>3. CASE ListContainers
  <2>1. purge'.at = "listed" /\ purge'.listed = containers /\ job' = job
    BY <1>1, <1>3 DEF ListContainers, Purges
  <2> QED
    BY <1>1, <1>3, <2>1, HarmEffect DEF PurgeKnows, ClaimsPrecede, LiveContainerIsKept, ListContainers
<1>4. CASE ReadJobs
  <2>1. /\ purge.at = "listed" /\ purge'.at = "jobs" /\ purge'.listed = purge.listed
        /\ purge'.row = job /\ job' = job /\ harm' = harm
    BY <1>1, <1>4 DEF ReadJobs, Purges
  <2> QED
    BY <1>1, <1>2, <2>1 DEF PurgeKnows, ClaimsPrecede, LiveContainerIsKept
<1>5. CASE ReadFence
  <2>1. /\ purge.at = "jobs" /\ purge'.at = "fence" /\ purge'.listed = purge.listed
        /\ purge'.row = purge.row /\ job' = job /\ harm' = harm
    BY <1>1, <1>5 DEF ReadFence, Purges
  <2> QED
    BY <1>1, <1>2, <2>1 DEF PurgeKnows, LiveContainerIsKept
<1>6. CASE RemoveContainers
  <2>1. purge.at = "fence" /\ purge'.at = "done"
    BY <1>6 DEF RemoveContainers, NoPurge
  <2>2. PICK expired \in BOOLEAN :
           harm' = [harm EXCEPT !.killed = harm.killed \cup
                      {e \in {x \in purge.listed : Removable(x, expired)} :
                          worker[e] \in Busy /\ Owns(e) /\ e # purge.confirmed}]
    BY <1>6 DEF RemoveContainers
  <2>3. ASSUME NEW e \in purge.listed, Removable(e, expired), Owns(e), e # purge.confirmed
        PROVE  FALSE
    <3>1. purge.row.state # "leased"
      BY <2>3 DEF Removable
    <3>2. e <= purge.row.epoch /\ purge.row.epoch <= job.epoch /\ job.epoch = e /\ job.live
      BY <1>1, <2>1, <2>3 DEF PurgeKnows, Owns
    <3>3. job.epoch = purge.row.epoch
      BY <1>2, <2>3, <3>2
    <3> QED
      BY <1>1, <2>1, <3>1, <3>2, <3>3 DEF PurgeKnows
  <2>4. harm'.killed = harm.killed
    BY <1>1, <2>2, <2>3 DEF Harms
  <2> QED
    BY <1>1, <2>1, <2>4 DEF PurgeKnows, LiveContainerIsKept
<1>7. CASE ~ListContainers /\ ~ReadJobs /\ ~ReadFence /\ ~RemoveContainers
  <2>1. purge' = purge /\ harm'.killed = harm.killed
    BY <1>1, <1>7, SweepFrames, HarmEffect
  <2>2. /\ job'.epoch \in Nat /\ job'.epoch >= job.epoch
        /\ job'.epoch = job.epoch => (job'.live => job.live)
    <3>1. Claim => job'.epoch = job.epoch + 1
      BY <1>1 DEF Claim, Rows
    <3> QED
      BY <1>1, <1>2, <3>1, JobEffect
  <2> QED
    BY <1>1, <1>2, <2>1, <2>2 DEF PurgeKnows, LiveContainerIsKept
<1> QED
  BY <1>3, <1>4, <1>5, <1>6, <1>7

\* The initial states satisfy the invariant.
LEMMA ReaperInitInv ==
    ASSUME ReaperInit
    PROVE  ReaperInv
<1>1. MaxEpoch \in Nat
  BY ReaperAssumption
<1>2. /\ job = [state |-> "queued", epoch |-> 0, live |-> FALSE]
      /\ project = [task |-> "active", bound |-> FALSE, run |-> [e \in Epochs |-> "none"]]
      /\ tree = NoTree /\ worker = [e \in Epochs |-> "none"] /\ made = {} /\ containers = {}
      /\ sweep = NoSweep("idle") \/ sweep = NoSweep("done")
      /\ purge = NoPurge("done") \/ purge = NoPurge("idle")
      /\ harm = NoHarm
  BY DEF ReaperInit
<1>3. ReaperTypeOK
  <2>1. job \in Rows /\ project \in Projects /\ tree \in Trees
    BY <1>1, <1>2 DEF Rows, Projects, Trees, NoTree
  <2>2. sweep \in Sweeps
    BY <1>2, NoSweepIsSweep DEF SweepPlaces
  <2>3. purge \in Purges
    <3>1. [state |-> "ended", epoch |-> 0, live |-> FALSE] \in Rows
      BY <1>1 DEF Rows
    <3>2. \A a \in PurgePlaces : NoPurge(a) \in Purges
      BY <1>1, <3>1 DEF NoPurge, Purges
    <3> QED
      BY <1>2, <3>2 DEF PurgePlaces
  <2>4. harm \in Harms /\ worker \in [Epochs -> Places]
    BY <1>2 DEF NoHarm, Harms, Places
  <2> QED
    BY <1>2, <2>1, <2>2, <2>3, <2>4, ReaperTypes
<1>4. sweep.at \in {"idle", "done"} /\ purge.at \in {"idle", "done"}
  BY <1>2 DEF NoSweep, NoPurge
<1>5. \A e \in Epochs : worker[e] = "none"
  BY <1>2
<1>6. ClaimsPrecede /\ BusyHasTree /\ BoundTreeExists /\ LockedIsClean
  BY <1>2, <1>4, <1>5 DEF ClaimsPrecede, BusyHasTree, Busy, BoundTreeExists, LockedIsClean
<1>7. DirtyTreeIsKept /\ LiveContainerIsKept
  BY <1>2 DEF DirtyTreeIsKept, LiveContainerIsKept, NoHarm
<1>8. SweepKnows /\ LateIsSeen /\ PurgeKnows
  BY <1>4 DEF SweepKnows, LateIsSeen, PurgeKnows, Sweeping
<1> QED
  BY <1>3, <1>6, <1>7, <1>8 DEF ReaperInv

\* Every step keeps the invariant.
LEMMA ReaperKeeps ==
    ASSUME ReaperInv, [ReaperNext]_reaperVars
    PROVE  ReaperInv'
<1>1. ReaperTypeOK'
  BY ReaperTypesKept DEF ReaperInv
<1> QED
  BY <1>1, ClaimsPrecedeKept, BusyHasTreeKept, BoundTreeKept, LockedIsCleanKept, SweepKnowsKept,
     LateIsSeenKept, PurgeKept DEF ReaperInv

\* A worker that the cleanup robs while it holds its fence.
LEMMA RobbedLate ==
    ASSUME ReaperInv, [ReaperNext]_reaperVars, NEW e \in harm'.robbed \ harm.robbed,
           Owns(e), project.task = "active"
    PROVE  /\ e \in sweep.late
           /\ sweep.confirmed = 0 /\ sweep.minAge > 0 => sweep.stale \/ harm.unbound
<1>1. /\ ReaperTypeOK /\ SweepKnows /\ LateIsSeen /\ harm \in Harms
  BY ReaperTypes DEF ReaperInv
<1>2. RemoveTree
  BY <1>1, HarmEffect
<1>3. sweep.at = "locked" /\ worker[e] \in Busy /\ e \in Epochs
  BY <1>1, <1>2 DEF RemoveTree, Harms
<1>4. e \in sweep.late
  BY <1>1, <1>3 DEF SweepKnows, Sweeping, Owns
<1>5. ASSUME sweep.confirmed = 0, sweep.minAge > 0, ~sweep.stale
      PROVE  harm.unbound
  <2>1. ~project.bound /\ ~tree.young
    BY <1>1, <1>3, <1>5 DEF SweepKnows, ActiveTasks
  <2>2. tree.exists
    BY <1>3 DEF ReaperInv, LockedIsClean
  <2> QED
    BY <1>1, <1>3, <1>4, <2>1, <2>2 DEF LateIsSeen, Sweeping
<1> QED
  BY <1>4, <1>5

-----------------------------------------------------------------------------
(***************************************************************************)
(* The long-term memory.  Who has a line in the archive has its full text  *)
(* in the first one, and who is cold, a stub or about to become one has a  *)
(* line (ArchiveInv).  The index and its file differ, and name a stub,     *)
(* only for entries that a fault has hurt, and what is not cold is in the  *)
(* index or about to enter or leave it (IndexInv).  A target that is not   *)
(* cold is never one of a cold entry (PendingInv).                         *)
(***************************************************************************)
RowRecords == [semantic : BOOLEAN, weak : BOOLEAN, policy : {"hot", "warm", "cold"},
               text : {"full", "stub"}, born : 0..LastDay, used : 0..LastDay, access : 0..2]
Lines == [id : Entries, text : {"full", "stub"}, whole : BOOLEAN]

Archived(e) == \E i \in 1..Len(archive) : archive[i].id = e
FullFirst(e) ==
    \E i \in 1..Len(archive) : /\ archive[i].id = e /\ archive[i].text = "full"
                               /\ \A j \in 1..(i - 1) : archive[j].id # e

ArchiveInv ==
    /\ \A e \in Entries : Archived(e) => FullFirst(e)
    /\ \A e \in Stored : rows[e].text = "stub" \/ rows[e].policy = "cold" => Archived(e)
    /\ doing.step \in {"unindex", "stub"} => Archived(doing.id)

IndexInv ==
    /\ index \cup saved \subseteq Stored
    /\ (saved \ index) \cup (index \ saved) \subseteq hurt
    /\ StubIsNotSearched
    /\ doing.step = "index" => rows[doing.id].text = "full"
    /\ doing.step = "stub" => doing.id \notin index
    /\ \A e \in Stored \ hurt : Searched(e) /\ rows[e].policy # "cold" =>
          e \in index \/ (doing # Idle /\ doing.id = e)

PendingInv ==
    /\ \A e \in DOMAIN pending : pending[e] # "cold" => rows[e].policy # "cold"
    /\ doing.step \in {"unindex", "stub"} => doing.id \notin DOMAIN pending

MemoryInv == MemoryTypeOK /\ ArchiveInv /\ IndexInv /\ PendingInv

\* The type invariant, variable by variable.
LEMMA MemoryTypes ==
    ASSUME MemoryTypeOK
    PROVE  /\ Stored \subseteq Entries /\ index \subseteq Entries /\ saved \subseteq Entries
           /\ hurt \subseteq Entries /\ day \in 0..LastDay /\ LastDay \in Nat /\ MaxFaults \in Nat
           /\ faults \in 0..MaxFaults /\ torn \in BOOLEAN
           /\ rows \in [Stored -> RowRecords] /\ \A e \in Stored : rows[e] \in RowRecords
           /\ archive \in Seq(Lines) /\ Len(archive) \in Nat
           /\ \A i \in 1..Len(archive) : archive[i] \in Lines
           /\ \/ doing = Idle
              \/ doing.step \in {"index", "unindex", "stub"} /\ doing.id \in Stored /\ doing # Idle
           /\ Idle.step = "none"
           /\ DOMAIN pending \subseteq Stored
           /\ \A e \in DOMAIN pending : pending[e] \in {"hot", "warm", "cold"}
<1>1. /\ Stored \subseteq Entries /\ index \subseteq Entries /\ saved \subseteq Entries
      /\ hurt \subseteq Entries /\ day \in 0..LastDay /\ LastDay \in Nat /\ MaxFaults \in Nat
      /\ faults \in 0..MaxFaults /\ torn \in BOOLEAN
      /\ DOMAIN pending \subseteq Stored
      /\ \A e \in DOMAIN pending : pending[e] \in {"hot", "warm", "cold"}
  BY MemoryAssumption DEF MemoryTypeOK
<1>2. rows \in [Stored -> RowRecords]
  BY DEF MemoryTypeOK, RowRecords
<1>3. archive \in Seq(Lines)
  BY DEF MemoryTypeOK, Lines
<1>4. Len(archive) \in Nat /\ \A i \in 1..Len(archive) : archive[i] \in Lines
  BY <1>3
<1>5. Idle.step = "none"
  BY DEF Idle
<1>6. \/ doing = Idle
      \/ doing.step \in {"index", "unindex", "stub"} /\ doing.id \in Stored /\ doing # Idle
  BY <1>5 DEF MemoryTypeOK
<1> QED
  BY <1>1, <1>2, <1>3, <1>4, <1>5, <1>6

\* The fields of a row.
LEMMA RowFields ==
    ASSUME NEW r \in RowRecords
    PROVE  /\ r.policy \in {"hot", "warm", "cold"} /\ r.text \in {"full", "stub"}
           /\ r.semantic \in BOOLEAN /\ r.access \in 0..2
BY DEF RowRecords

\* A row with another policy or another text.
LEMMA PolicyUpdates ==
    ASSUME NEW r \in RowRecords, NEW p \in {"hot", "warm", "cold"}
    PROVE  /\ [r EXCEPT !.policy = p] \in RowRecords
           /\ [r EXCEPT !.policy = p].policy = p /\ [r EXCEPT !.policy = p].text = r.text
           /\ [r EXCEPT !.policy = p].semantic = r.semantic
BY DEF RowRecords

LEMMA TextUpdates ==
    ASSUME NEW r \in RowRecords, NEW t \in {"full", "stub"}
    PROVE  /\ [r EXCEPT !.text = t] \in RowRecords
           /\ [r EXCEPT !.text = t].policy = r.policy /\ [r EXCEPT !.text = t].text = t
           /\ [r EXCEPT !.text = t].semantic = r.semantic
BY DEF RowRecords

\* A row with one more use.
LEMMA UseUpdates ==
    ASSUME NEW r \in RowRecords, NEW d \in 0..LastDay
    PROVE  LET q == [r EXCEPT !.used = d, !.access = IF @ < 2 THEN @ + 1 ELSE @] IN
           /\ q \in RowRecords /\ q.policy = r.policy /\ q.text = r.text
           /\ q.semantic = r.semantic
<1>1. r.access \in 0..2
  BY RowFields
<1> DEFINE a == IF r.access < 2 THEN r.access + 1 ELSE r.access
<1>2. a \in 0..2
  BY <1>1
<1> HIDE DEF a
<1>3. LET q == [r EXCEPT !.used = d, !.access = a] IN
      /\ q \in RowRecords /\ q.policy = r.policy /\ q.text = r.text
      /\ q.semantic = r.semantic
  BY <1>2 DEF RowRecords
<1>4. [r EXCEPT !.used = d, !.access = IF @ < 2 THEN @ + 1 ELSE @] =
      [r EXCEPT !.used = d, !.access = a]
  BY DEF a, RowRecords
<1> QED
  BY <1>3, <1>4

\* What the actions do to the rows.
LEMMA AddEntryRows ==
    ASSUME MemoryTypeOK, NEW e \in Entries, NEW semantic \in BOOLEAN, NEW weak \in BOOLEAN,
           AddEntry(e, semantic, weak)
    PROVE  /\ Stored' = Stored \cup {e} /\ e \notin Stored
           /\ rows' \in [Stored' -> RowRecords]
           /\ \A x \in Stored : rows'[x] = rows[x]
           /\ rows'[e].text = "full" /\ rows'[e].policy = "hot"
           /\ rows'[e].semantic = semantic
<1>0. /\ rows \in [Stored -> RowRecords] /\ \A x \in Stored : rows[x] \in RowRecords
      /\ day \in 0..LastDay
  BY MemoryTypes
<1> DEFINE new == [semantic |-> semantic, weak |-> weak, policy |-> "hot", text |-> "full",
                   born |-> day, used |-> day, access |-> 0]
<1>1. /\ new \in RowRecords /\ new.text = "full" /\ new.policy = "hot"
      /\ new.semantic = semantic
  BY <1>0 DEF RowRecords
<1>2. rows' = [x \in Stored \cup {e} |-> IF x \in Stored THEN rows[x] ELSE new] /\ e \notin Stored
  BY DEF AddEntry
<1> HIDE DEF new
<1> QED
  BY <1>0, <1>1, <1>2 DEF Stored

LEMMA RetrieveRows ==
    ASSUME MemoryTypeOK, NEW hits \in SUBSET Entries, Retrieve(hits)
    PROVE  /\ Stored' = Stored /\ rows' \in [Stored' -> RowRecords]
           /\ \A x \in Stored : /\ rows'[x].text = rows[x].text
                                /\ rows'[x].policy = rows[x].policy
                                /\ rows'[x].semantic = rows[x].semantic
<1>0. /\ rows \in [Stored -> RowRecords] /\ \A x \in Stored : rows[x] \in RowRecords
      /\ day \in 0..LastDay
  BY MemoryTypes
<1> DEFINE use(r) == [r EXCEPT !.used = day, !.access = IF @ < 2 THEN @ + 1 ELSE @]
<1>1. \A r \in RowRecords : /\ use(r) \in RowRecords /\ use(r).policy = r.policy
                            /\ use(r).text = r.text /\ use(r).semantic = r.semantic
  BY <1>0, UseUpdates
<1>2. rows' = [e \in Stored |-> IF e \in hits THEN use(rows[e]) ELSE rows[e]]
  BY DEF Retrieve
<1> HIDE DEF use
<1>3. Stored' = Stored
  BY <1>2 DEF Stored
<1> QED
  BY <1>0, <1>1, <1>2, <1>3

LEMMA SetRetentionRows ==
    ASSUME MemoryTypeOK, NEW e \in Entries, SetRetention(e)
    PROVE  /\ Stored' = Stored /\ rows' \in [Stored' -> RowRecords]
           /\ \A x \in Stored : /\ rows'[x].text = rows[x].text
                                /\ x # e => rows'[x].policy = rows[x].policy
                                /\ rows'[x].semantic = rows[x].semantic
           /\ rows'[e].policy = pending[e]
<1>0. /\ rows \in [Stored -> RowRecords] /\ \A x \in Stored : rows[x] \in RowRecords
      /\ day \in 0..LastDay
  BY MemoryTypes
<1>1. e \in Stored /\ pending[e] \in {"hot", "warm", "cold"}
  BY MemoryTypes DEF SetRetention
<1> DEFINE q == [rows[e] EXCEPT !.policy = pending[e]]
<1>2. /\ q \in RowRecords /\ q.policy = pending[e] /\ q.text = rows[e].text
      /\ q.semantic = rows[e].semantic
  BY <1>0, <1>1, PolicyUpdates
<1>3. rows' = [rows EXCEPT ![e] = q]
  BY DEF SetRetention
<1> HIDE DEF q
<1>4. Stored' = Stored
  BY <1>0, <1>3 DEF Stored
<1> QED
  BY <1>0, <1>1, <1>2, <1>3, <1>4

LEMMA MakeStubRows ==
    ASSUME MemoryTypeOK, MakeStub
    PROVE  /\ Stored' = Stored /\ rows' \in [Stored' -> RowRecords]
           /\ \A x \in Stored \ {doing.id} : rows'[x] = rows[x]
           /\ rows'[doing.id].text = "stub" /\ rows'[doing.id].policy = "cold"
<1>0. /\ rows \in [Stored -> RowRecords] /\ \A x \in Stored : rows[x] \in RowRecords
      /\ day \in 0..LastDay
  BY MemoryTypes
<1>1. doing.id \in Stored
  BY MemoryTypes DEF MakeStub
<1> DEFINE q == [rows[doing.id] EXCEPT !.text = "stub"]
           r == [q EXCEPT !.policy = "cold"]
<1>2. q \in RowRecords /\ q.text = "stub"
  BY <1>0, <1>1, TextUpdates
<1>3. r \in RowRecords /\ r.text = "stub" /\ r.policy = "cold"
  <2> HIDE DEF q
  <2> QED
    BY <1>2, PolicyUpdates
<1>4. rows' = [rows EXCEPT ![doing.id] = r]
  BY <1>0, <1>1 DEF MakeStub
<1> HIDE DEF r
<1>5. Stored' = Stored
  BY <1>0, <1>4 DEF Stored
<1> QED
  BY <1>0, <1>1, <1>3, <1>4, <1>5

LEMMA RestoreRows ==
    ASSUME MemoryTypeOK, NEW e \in Entries, NEW i \in FirstOf(e), e \in Stored,
           rows' = [rows EXCEPT ![e].text = archive[i].text, ![e].policy = "warm"]
    PROVE  /\ Stored' = Stored /\ rows' \in [Stored' -> RowRecords]
           /\ \A x \in Stored \ {e} : rows'[x] = rows[x]
           /\ rows'[e].text = archive[i].text /\ rows'[e].policy = "warm"
           /\ rows'[e].semantic = rows[e].semantic
<1>0. /\ rows \in [Stored -> RowRecords] /\ \A x \in Stored : rows[x] \in RowRecords
      /\ day \in 0..LastDay
  BY MemoryTypes
<1>1. archive[i].text \in {"full", "stub"}
  BY MemoryTypes DEF FirstOf, Lines
<1> DEFINE q == [rows[e] EXCEPT !.text = archive[i].text]
           r == [q EXCEPT !.policy = "warm"]
<1>2. q \in RowRecords /\ q.text = archive[i].text /\ q.semantic = rows[e].semantic
  <2>1. rows[e] \in RowRecords
    BY <1>0
  <2> QED
    BY <1>1, <2>1, TextUpdates
<1>3. /\ r \in RowRecords /\ r.text = archive[i].text /\ r.policy = "warm"
      /\ r.semantic = rows[e].semantic
  <2> HIDE DEF q
  <2> QED
    BY <1>2, PolicyUpdates
<1>4. rows' = [rows EXCEPT ![e] = r]
  BY <1>0
<1> HIDE DEF r
<1>5. Stored' = Stored
  BY <1>0, <1>4 DEF Stored
<1> QED
  BY <1>0, <1>3, <1>4, <1>5

\* The types, variable by variable.
LEMMA MemoryTypesFrom ==
    ASSUME day' \in 0..LastDay, faults' \in 0..MaxFaults, torn' \in BOOLEAN,
           Stored' \subseteq Entries, {index', saved', hurt'} \subseteq SUBSET Entries,
           rows' \in [Stored' -> RowRecords], archive' \in Seq(Lines),
           doing' = Idle \/ doing' \in [step : {"index", "unindex", "stub"}, id : Stored'],
           DOMAIN pending' \subseteq Stored',
           \A e \in DOMAIN pending' : pending'[e] \in {"hot", "warm", "cold"}
    PROVE  MemoryTypeOK'
BY DEF MemoryTypeOK, RowRecords, Lines, Idle

\* Every action keeps the types.
LEMMA MemoryTypesKept ==
    ASSUME MemoryTypeOK, [MemoryNext]_memoryVars
    PROVE  MemoryTypeOK'
<1>0. /\ Stored \subseteq Entries /\ index \subseteq Entries /\ saved \subseteq Entries
      /\ hurt \subseteq Entries /\ day \in 0..LastDay /\ LastDay \in Nat /\ MaxFaults \in Nat
      /\ faults \in 0..MaxFaults /\ torn \in BOOLEAN
      /\ rows \in [Stored -> RowRecords] /\ \A e \in Stored : rows[e] \in RowRecords
      /\ archive \in Seq(Lines)
      /\ DOMAIN pending \subseteq Stored
      /\ \A e \in DOMAIN pending : pending[e] \in {"hot", "warm", "cold"}
      /\ \/ doing = Idle
         \/ doing.step \in {"index", "unindex", "stub"} /\ doing.id \in Stored
  BY MemoryTypes
<1>a. doing = Idle \/ doing \in [step : {"index", "unindex", "stub"}, id : Stored]
  BY DEF MemoryTypeOK
<1>b. DOMAIN <<>> = {}
  OBVIOUS
<1>1. ASSUME NEW e \in Entries, NEW semantic \in BOOLEAN, NEW weak \in BOOLEAN,
             AddEntry(e, semantic, weak)
      PROVE  MemoryTypeOK'
  <2>1. Stored' = Stored \cup {e} /\ rows' \in [Stored' -> RowRecords]
    BY <1>1, AddEntryRows
  <2>2. /\ UNCHANGED <<archive, torn, faults, day, index, saved, pending, hurt>>
        /\ doing' = Idle \/ doing' = [step |-> "index", id |-> e]
    BY <1>1 DEF AddEntry, Quiet
  <2> QED
    BY <1>0, <2>1, <2>2, MemoryTypesFrom
<1>2. ASSUME NEW hits \in SUBSET Entries, Retrieve(hits)
      PROVE  MemoryTypeOK'
  <2>1. Stored' = Stored /\ rows' \in [Stored' -> RowRecords]
    BY <1>2, RetrieveRows
  <2>2. UNCHANGED <<archive, torn, faults, day, index, saved, doing, pending, hurt>>
    BY <1>2 DEF Retrieve, Quiet
  <2> QED
    BY <1>0, <1>a, <2>1, <2>2, MemoryTypesFrom
<1>3. ASSUME NEW run \in SUBSET Stored, ArchiveOldRuns(run)
      PROVE  MemoryTypeOK'
  <2>1. /\ UNCHANGED <<archive, torn, faults, day, rows, index, saved, doing, hurt>>
        /\ DOMAIN pending' \subseteq Stored /\ \A x \in DOMAIN pending' : pending'[x] = "cold"
    BY <1>3 DEF ArchiveOldRuns, Quiet
  <2>2. Stored' = Stored
    BY <2>1 DEF Stored
  <2> QED
    BY <1>0, <1>a, <2>1, <2>2, MemoryTypesFrom
<1>4. CASE ApplyRetention
  <2>1. /\ UNCHANGED <<archive, torn, faults, day, rows, index, saved, doing, hurt>>
        /\ DOMAIN pending' \subseteq Stored
        /\ \A x \in DOMAIN pending' : pending'[x] = Target(x)
    BY <1>4 DEF ApplyRetention, Quiet
  <2>2. \A x : Target(x) \in {"hot", "warm", "cold"}
    BY DEF Target
  <2>3. Stored' = Stored
    BY <2>1 DEF Stored
  <2> QED
    BY <1>0, <1>a, <2>1, <2>2, <2>3, MemoryTypesFrom
<1>5. ASSUME NEW e \in Entries, SetRetention(e)
      PROVE  MemoryTypeOK'
  <2>1. Stored' = Stored /\ rows' \in [Stored' -> RowRecords]
    BY <1>5, SetRetentionRows
  <2>2. /\ UNCHANGED <<archive, torn, faults, day, index, saved, doing, hurt>>
        /\ DOMAIN pending' \subseteq DOMAIN pending
        /\ \A x \in DOMAIN pending' : pending'[x] = pending[x]
    BY <1>5 DEF SetRetention, Quiet, Without
  <2> QED
    BY <1>0, <1>a, <2>1, <2>2, MemoryTypesFrom
<1>6. ASSUME NEW e \in Entries, ArchiveLine(e) \/ ArchiveWriteFails(e)
      PROVE  MemoryTypeOK'
  <2>1. /\ UNCHANGED <<day, rows, index, saved, hurt>> /\ Stored' = Stored /\ e \in Stored
        /\ DOMAIN pending' \subseteq DOMAIN pending
        /\ \A x \in DOMAIN pending' : pending'[x] = pending[x]
    BY <1>0, <1>6 DEF ArchiveLine, ArchiveWriteFails, Without, Stored
  <2>2. doing' = Idle \/ doing' \in [step : {"index", "unindex", "stub"}, id : Stored]
    <3>1. CASE ArchiveWriteFails(e)
      BY <1>a, <3>1 DEF ArchiveWriteFails
    <3>2. CASE ArchiveLine(e)
      BY <2>1, <3>2 DEF ArchiveLine
    <3> QED
      BY <1>6, <3>1, <3>2
  <2>3. faults' \in 0..MaxFaults /\ torn' \in BOOLEAN
    <3>1. CASE ArchiveWriteFails(e)
      <4>1. faults < MaxFaults /\ faults' = faults + 1 /\ torn' \in {torn, TRUE}
        BY <3>1 DEF ArchiveWriteFails
      <4>2. faults' \in 0..MaxFaults
        BY <1>0, <4>1
      <4> QED
        BY <1>0, <4>1, <4>2, Zenon
    <3>2. CASE ArchiveLine(e)
      BY <1>0, <3>2 DEF ArchiveLine
    <3> QED
      BY <1>6, <3>1, <3>2
  <2>4. archive' \in Seq(Lines)
    <3>1. CASE ArchiveWriteFails(e)
      BY <1>0, <3>1 DEF ArchiveWriteFails
    <3>2. CASE ArchiveLine(e)
      <4>1. [id |-> e, text |-> rows[e].text, whole |-> ~torn] \in Lines
        <5>1. rows[e].text \in {"full", "stub"} /\ (~torn) \in BOOLEAN
          BY <1>0, <2>1, RowFields
        <5> QED
          BY <5>1 DEF Lines
      <4> QED
        BY <1>0, <3>2, <4>1 DEF ArchiveLine
    <3> QED
      BY <1>6, <3>1, <3>2
  <2> QED
    BY <1>0, <2>1, <2>2, <2>3, <2>4, MemoryTypesFrom
<1>7. ASSUME NEW e \in Entries, RestoreFromCold(e)
      PROVE  MemoryTypeOK'
  <2>1. Stored' = Stored /\ rows' \in [Stored' -> RowRecords] /\ e \in Stored
    BY <1>7, RestoreRows DEF RestoreFromCold
  <2>2. /\ UNCHANGED <<archive, torn, faults, day, index, saved, pending, hurt>>
        /\ doing' = Idle \/ doing' = [step |-> "index", id |-> e]
    BY <1>7 DEF RestoreFromCold, Quiet
  <2> QED
    BY <1>0, <2>1, <2>2, MemoryTypesFrom
<1>8. CASE IndexEntry
  <2>1. /\ UNCHANGED <<archive, torn, faults, day, rows, pending>> /\ doing' = Idle
        /\ {index', saved', hurt'} \subseteq SUBSET Entries
    BY <1>0, <1>8, MemoryTypes DEF IndexEntry, Quiet
  <2>2. Stored' = Stored
    BY <2>1 DEF Stored
  <2> QED
    BY <1>0, <2>1, <2>2, MemoryTypesFrom
<1>9. CASE Unindex
  <2>1. /\ UNCHANGED <<archive, torn, faults, day, rows, pending, hurt>>
        /\ {index', saved'} \subseteq SUBSET Entries
    BY <1>0, <1>9 DEF Unindex, Quiet
  <2>2. doing' \in [step : {"index", "unindex", "stub"}, id : Stored]
    <3>1. doing \in [step : {"index", "unindex", "stub"}, id : Stored]
      BY <1>a, <1>9, MemoryTypes DEF Unindex
    <3> QED
      BY <1>9, <3>1 DEF Unindex
  <2>3. Stored' = Stored
    BY <2>1 DEF Stored
  <2> QED
    BY <1>0, <2>1, <2>2, <2>3, MemoryTypesFrom
<1>10. CASE MakeStub
  <2>1. Stored' = Stored /\ rows' \in [Stored' -> RowRecords]
    BY <1>10, MakeStubRows
  <2>2. /\ UNCHANGED <<archive, torn, faults, day, index, saved, pending, hurt>> /\ doing' = Idle
    BY <1>10 DEF MakeStub, Quiet
  <2> QED
    BY <1>0, <2>1, <2>2, MemoryTypesFrom
<1>11. CASE SaveFails \/ Crash
  <2>1. /\ UNCHANGED <<day, rows, saved, archive>> /\ faults' \in 0..MaxFaults
        /\ doing' = Idle /\ pending' = <<>> /\ torn' \in BOOLEAN
    <3>1. /\ UNCHANGED <<day, rows, saved, archive>> /\ faults < MaxFaults /\ faults' = faults + 1
          /\ doing' = Idle /\ pending' = <<>>
      BY <1>11 DEF SaveFails, Crash
    <3>2. torn' \in {torn, TRUE}
      <4>1. CASE SaveFails
        BY <4>1 DEF SaveFails
      <4>2. CASE Crash
        BY <4>2 DEF Crash
      <4> QED
        BY <1>11, <4>1, <4>2
    <3>3. torn' \in BOOLEAN
      BY <1>0, <3>2, Zenon
    <3>4. faults' \in 0..MaxFaults
      BY <1>0, <3>1
    <3> QED
      BY <3>1, <3>3, <3>4
  <2>2. {index', hurt'} \subseteq SUBSET Entries
    <3>1. CASE SaveFails
      BY <1>0, <3>1, MemoryTypes DEF SaveFails
    <3>2. CASE Crash
      BY <1>0, <3>2 DEF Crash
    <3> QED
      BY <1>11, <3>1, <3>2
  <2>3. Stored' = Stored
    BY <2>1 DEF Stored
  <2> QED
    BY <1>0, <1>b, <2>1, <2>2, <2>3, MemoryTypesFrom
<1>12. CASE NextDay
  <2>1. /\ UNCHANGED <<archive, torn, faults, rows, index, saved, doing, pending, hurt>>
        /\ day' \in 0..LastDay
    BY <1>0, <1>12 DEF NextDay, Quiet
  <2>2. Stored' = Stored
    BY <2>1 DEF Stored
  <2> QED
    BY <1>0, <1>a, <2>1, <2>2, MemoryTypesFrom
<1>13. CASE UNCHANGED memoryVars
  BY <1>13 DEF memoryVars, MemoryTypeOK, Stored
<1> QED
  BY <1>1, <1>2, <1>3, <1>4, <1>5, <1>6, <1>7, <1>8, <1>9, <1>10, <1>11, <1>12, <1>13
     DEF MemoryNext


\* The line that a restore takes is the entry's first, which has the full text.
LEMMA FirstIsFull ==
    ASSUME MemoryTypeOK, ArchiveInv, NEW e \in Entries
    PROVE  /\ \A i \in FirstOf(e) : archive[i].text = "full"
           /\ \A i \in FirstOf(e) : Archived(e)
<1>1. ASSUME NEW i \in FirstOf(e)
      PROVE  Archived(e) /\ archive[i].text = "full"
  <2>1. /\ i \in 1..Len(archive) /\ archive[i].id = e
        /\ \A j \in 1..(i - 1) : archive[j].id # e
    BY DEF FirstOf
  <2>2. Archived(e)
    BY <2>1 DEF Archived
  <2>3. PICK k \in 1..Len(archive) :
            /\ archive[k].id = e /\ archive[k].text = "full"
            /\ \A j \in 1..(k - 1) : archive[j].id # e
    BY <2>2 DEF ArchiveInv, FullFirst
  <2>4. k = i
    <3>1. Len(archive) \in Nat
      BY MemoryTypes
    <3>2. i \notin 1..(k - 1) /\ k \notin 1..(i - 1)
      BY <2>1, <2>3
    <3> QED
      BY <2>1, <2>3, <3>1, <3>2
  <2> QED
    BY <2>2, <2>3, <2>4
<1> QED
  BY <1>1

\* An archive that does not change keeps its first lines.
LEMMA ArchiveStays ==
    ASSUME ArchiveInv, archive' = archive
    PROVE  /\ \A e : Archived(e)' <=> Archived(e)
           /\ \A e \in Entries : Archived(e)' => FullFirst(e)'
BY DEF ArchiveInv, Archived, FullFirst

\* A line that is appended is the first of its entry, and then has its full text, or comes
\* after the first.
LEMMA ArchiveGrows ==
    ASSUME MemoryTypeOK, ArchiveInv, NEW e \in Entries, ArchiveLine(e)
    PROVE  /\ \A x : Archived(x) => Archived(x)'
           /\ Archived(e)'
           /\ \A x \in Entries : Archived(x)' => FullFirst(x)'
<1>0. archive \in Seq(Lines) /\ Len(archive) \in Nat /\ e \in Stored /\ rows[e] \in RowRecords
  BY MemoryTypes DEF ArchiveLine
<1> DEFINE line == [id |-> e, text |-> rows[e].text, whole |-> ~torn]
<1>1. archive' = Append(archive, line) /\ line.id = e /\ line.text = rows[e].text
  BY DEF ArchiveLine
<1>2. line \in Lines
  <2>1. rows[e].text \in {"full", "stub"} /\ (~torn) \in BOOLEAN
    BY <1>0, RowFields
  <2> QED
    BY <2>1 DEF Lines
<1> HIDE DEF line
<1>3. /\ Len(archive') = Len(archive) + 1 /\ archive'[Len(archive) + 1] = line
      /\ \A i \in 1..Len(archive) : archive'[i] = archive[i]
  BY <1>0, <1>1, <1>2
<1>4. \A x : Archived(x) => Archived(x)'
  BY <1>0, <1>3 DEF Archived
<1>5. Archived(e)'
  BY <1>0, <1>1, <1>3 DEF Archived
<1>6. \A x : FullFirst(x) => FullFirst(x)'
  <2>1. SUFFICES ASSUME NEW x, NEW k \in 1..Len(archive),
                        archive[k].id = x, archive[k].text = "full",
                        \A j \in 1..(k - 1) : archive[j].id # x
                 PROVE  FullFirst(x)'
    BY DEF FullFirst
  <2>2. k \in 1..Len(archive') /\ archive'[k].id = x /\ archive'[k].text = "full"
    BY <1>0, <1>3, <2>1
  <2>3. \A j \in 1..(k - 1) : archive'[j].id # x
    BY <1>0, <1>3, <2>1
  <2> QED
    BY <2>2, <2>3 DEF FullFirst
<1>7. \A x : Archived(x)' => Archived(x) \/ x = e
  BY <1>0, <1>1, <1>3 DEF Archived
<1>8. ~Archived(e) => FullFirst(e)'
  <2>1. SUFFICES ASSUME ~Archived(e) PROVE FullFirst(e)'
    OBVIOUS
  <2>2. rows[e].text = "full"
    BY <1>0, <2>1, RowFields DEF ArchiveInv
  <2>3. \A j \in 1..((Len(archive) + 1) - 1) : archive'[j].id # e
    BY <1>0, <1>3, <2>1 DEF Archived
  <2>4. Len(archive) + 1 \in 1..Len(archive')
    BY <1>0, <1>3
  <2> QED
    BY <1>1, <1>3, <2>2, <2>3, <2>4 DEF FullFirst
<1>9. ASSUME NEW x \in Entries, Archived(x)'
      PROVE  FullFirst(x)'
  BY <1>6, <1>7, <1>8, <1>9 DEF ArchiveInv
<1> QED
  BY <1>4, <1>5, <1>9

\* Each action keeps the invariant: a new entry is full and about to be indexed.
LEMMA AddEntryKeeps ==
    ASSUME MemoryInv, NEW e \in Entries, NEW semantic \in BOOLEAN, NEW weak \in BOOLEAN,
           AddEntry(e, semantic, weak)
    PROVE  (ArchiveInv /\ IndexInv /\ PendingInv)'
<1>0. MemoryTypeOK /\ ArchiveInv /\ IndexInv /\ PendingInv /\ DOMAIN <<>> = {}
  BY DEF MemoryInv
<1>1. /\ Stored' = Stored \cup {e} /\ e \notin Stored
      /\ \A x \in Stored : rows'[x] = rows[x]
      /\ rows'[e].text = "full" /\ rows'[e].policy = "hot"
      /\ rows'[e].semantic = semantic
  BY <1>0, AddEntryRows
<1>2. /\ doing = Idle /\ pending = <<>>
      /\ doing' = IF semantic THEN [step |-> "index", id |-> e] ELSE Idle
      /\ UNCHANGED <<archive, index, saved, pending, hurt>>
  BY DEF AddEntry, AtRest, Quiet
<1>3. /\ semantic => doing'.step = "index" /\ doing'.id = e /\ doing' # Idle
      /\ ~semantic => doing' = Idle /\ doing'.step = "none"
  BY <1>2 DEF Idle
<1>4. ArchiveInv'
  BY <1>0, <1>1, <1>2, <1>3, ArchiveStays DEF ArchiveInv
<1>5. IndexInv'
  <2>1. /\ index' \cup saved' \subseteq Stored'
        /\ (saved' \ index') \cup (index' \ saved') \subseteq hurt'
        /\ StubIsNotSearched'
    BY <1>0, <1>1, <1>2 DEF IndexInv, StubIsNotSearched
  <2>2. /\ doing'.step = "index" => rows'[doing'.id].text = "full"
        /\ doing'.step # "stub"
    BY <1>1, <1>3
  <2>3. \A x \in Stored' \ hurt' : Searched(x)' /\ rows'[x].policy # "cold" =>
            x \in index' \/ (doing' # Idle /\ doing'.id = x)
    BY <1>0, <1>1, <1>2, <1>3 DEF IndexInv, Searched
  <2> QED
    BY <2>1, <2>2, <2>3 DEF IndexInv
<1>6. PendingInv'
  BY <1>0, <1>2, <1>3 DEF PendingInv
<1> QED
  BY <1>4, <1>5, <1>6

\* A use of entries keeps it.
LEMMA RetrieveKeeps ==
    ASSUME MemoryInv, NEW hits \in SUBSET Entries, Retrieve(hits)
    PROVE  (ArchiveInv /\ IndexInv /\ PendingInv)'
<1>0. /\ MemoryTypeOK /\ ArchiveInv /\ IndexInv /\ PendingInv /\ DOMAIN <<>> = {}
      /\ DOMAIN pending \subseteq Stored
  BY MemoryTypes DEF MemoryInv
<1>1. /\ Stored' = Stored
      /\ \A x \in Stored : /\ rows'[x].text = rows[x].text
                           /\ rows'[x].policy = rows[x].policy
                           /\ rows'[x].semantic = rows[x].semantic
  BY <1>0, RetrieveRows
<1>2. doing = Idle /\ UNCHANGED <<archive, index, saved, doing, pending, hurt>>
  BY DEF Retrieve, AtRest, Quiet
<1>3. doing'.step = "none"
  BY <1>2 DEF Idle
<1>4. ArchiveInv'
  BY <1>0, <1>1, <1>2, <1>3, ArchiveStays DEF ArchiveInv
<1>5. IndexInv'
  BY <1>0, <1>1, <1>2, <1>3 DEF IndexInv, StubIsNotSearched, Searched
<1>6. PendingInv'
  BY <1>0, <1>1, <1>2, <1>3 DEF PendingInv
<1> QED
  BY <1>4, <1>5, <1>6

\* The targets never take an entry out of the cold.
LEMMA RetentionPlansKeep ==
    ASSUME MemoryInv, ApplyRetention \/ \E run \in SUBSET Stored : ArchiveOldRuns(run)
    PROVE  (ArchiveInv /\ IndexInv /\ PendingInv)'
<1>0. MemoryTypeOK /\ ArchiveInv /\ IndexInv /\ PendingInv
  BY DEF MemoryInv
<1>1. doing = Idle /\ UNCHANGED <<archive, rows, index, saved, doing, hurt>>
  BY DEF ApplyRetention, ArchiveOldRuns, AtRest, Quiet
<1>2. doing'.step = "none" /\ Stored' = Stored
  BY <1>1 DEF Idle, Stored
<1>3. \A x \in DOMAIN pending' : pending'[x] # "cold" => rows'[x].policy # "cold"
  <2>1. CASE ApplyRetention
    <3>1. \A x \in DOMAIN pending' : pending'[x] = Target(x)
      BY <2>1 DEF ApplyRetention
    <3>2. \A x : rows[x].policy = "cold" => Target(x) = "cold"
      BY DEF Target
    <3> QED
      BY <1>1, <3>1, <3>2
  <2>2. CASE \E run \in SUBSET Stored : ArchiveOldRuns(run)
    BY <2>2 DEF ArchiveOldRuns
  <2> QED
    BY <2>1, <2>2
<1>4. ArchiveInv'
  BY <1>0, <1>1, <1>2, ArchiveStays DEF ArchiveInv
<1>5. IndexInv'
  BY <1>0, <1>1, <1>2 DEF IndexInv, StubIsNotSearched, Searched
<1>6. PendingInv'
  BY <1>2, <1>3 DEF PendingInv
<1> QED
  BY <1>4, <1>5, <1>6

\* The policy of an entry that is not cold keeps it.
LEMMA SetRetentionKeeps ==
    ASSUME MemoryInv, NEW e \in Entries, SetRetention(e)
    PROVE  (ArchiveInv /\ IndexInv /\ PendingInv)'
<1>0. /\ MemoryTypeOK /\ ArchiveInv /\ IndexInv /\ PendingInv
      /\ DOMAIN pending \subseteq Stored
  BY MemoryTypes DEF MemoryInv
<1>1. /\ Stored' = Stored /\ rows'[e].policy = pending[e]
      /\ \A x \in Stored : /\ rows'[x].text = rows[x].text
                           /\ x # e => rows'[x].policy = rows[x].policy
                           /\ rows'[x].semantic = rows[x].semantic
  BY <1>0, SetRetentionRows
<1>2. /\ doing = Idle /\ UNCHANGED <<archive, index, saved, doing, hurt>>
      /\ e \in DOMAIN pending /\ pending[e] # "cold"
      /\ DOMAIN pending' = DOMAIN pending \ {e}
      /\ \A x \in DOMAIN pending' : pending'[x] = pending[x]
  BY DEF SetRetention, Quiet, Without
<1>3. doing'.step = "none" /\ rows[e].policy # "cold"
  BY <1>0, <1>2 DEF Idle, PendingInv
<1>4. ArchiveInv'
  BY <1>0, <1>1, <1>2, <1>3, ArchiveStays DEF ArchiveInv
<1>5. IndexInv'
  <2>1. /\ index' \cup saved' \subseteq Stored'
        /\ (saved' \ index') \cup (index' \ saved') \subseteq hurt'
        /\ StubIsNotSearched'
    BY <1>0, <1>1, <1>2 DEF IndexInv, StubIsNotSearched
  <2>2. \A x \in Stored' \ hurt' : Searched(x)' /\ rows'[x].policy # "cold" =>
            x \in index' \/ (doing' # Idle /\ doing'.id = x)
    BY <1>0, <1>1, <1>2, <1>3 DEF IndexInv, Searched
  <2> QED
    BY <1>3, <2>1, <2>2 DEF IndexInv
<1>6. PendingInv'
  BY <1>0, <1>1, <1>2, <1>3 DEF PendingInv
<1> QED
  BY <1>4, <1>5, <1>6

\* The line comes before the stub, whether it is written or not.
LEMMA ArchiveWritesKeep ==
    ASSUME MemoryInv, NEW e \in Entries, ArchiveLine(e) \/ ArchiveWriteFails(e)
    PROVE  (ArchiveInv /\ IndexInv /\ PendingInv)'
<1>0. MemoryTypeOK /\ ArchiveInv /\ IndexInv /\ PendingInv
  BY DEF MemoryInv
<1>1. /\ doing = Idle /\ UNCHANGED <<rows, index, saved, hurt>>
      /\ DOMAIN pending' = DOMAIN pending \ {e}
      /\ \A x \in DOMAIN pending' : pending'[x] = pending[x]
  BY DEF ArchiveLine, ArchiveWriteFails, Without
<1>2. Stored' = Stored
  BY <1>1 DEF Stored
<1>3. \/ doing' = Idle /\ doing'.step = "none"
      \/ doing'.step = "unindex" /\ doing'.id = e
  <2>1. CASE ArchiveLine(e)
    BY <2>1 DEF ArchiveLine
  <2>2. CASE ArchiveWriteFails(e)
    BY <1>1, <2>2 DEF ArchiveWriteFails, Idle
  <2> QED
    BY <2>1, <2>2
<1>4. ArchiveInv'
  <2>1. CASE ArchiveLine(e)
    BY <1>0, <1>1, <1>2, <1>3, <2>1, ArchiveGrows DEF ArchiveInv
  <2>2. CASE ArchiveWriteFails(e)
    <3>1. archive' = archive /\ doing' = Idle
      BY <1>1, <2>2 DEF ArchiveWriteFails
    <3>2. doing'.step = "none"
      BY <3>1 DEF Idle
    <3> QED
      BY <1>0, <1>1, <1>2, <3>1, <3>2, ArchiveStays DEF ArchiveInv
  <2> QED
    BY <2>1, <2>2
<1>5. IndexInv'
  BY <1>0, <1>1, <1>2, <1>3 DEF IndexInv, StubIsNotSearched, Searched
<1>6. PendingInv'
  BY <1>0, <1>1, <1>3 DEF PendingInv
<1> QED
  BY <1>4, <1>5, <1>6

\* What is restored is the full text, which the index gets back.
LEMMA RestoreKeeps ==
    ASSUME MemoryInv, NEW e \in Entries, RestoreFromCold(e)
    PROVE  (ArchiveInv /\ IndexInv /\ PendingInv)'
<1>0. MemoryTypeOK /\ ArchiveInv /\ IndexInv /\ PendingInv /\ DOMAIN <<>> = {}
  BY DEF MemoryInv
<1>1. PICK i \in FirstOf(e) : rows' = [rows EXCEPT ![e].text = archive[i].text,
                                                   ![e].policy = "warm"]
  BY DEF RestoreFromCold
<1>2. /\ doing = Idle /\ pending = <<>> /\ e \in Stored
      /\ doing' = IF Searched(e) THEN [step |-> "index", id |-> e] ELSE Idle
      /\ UNCHANGED <<archive, index, saved, pending, hurt>>
  BY DEF RestoreFromCold, AtRest, Quiet
<1>3. Archived(e) /\ archive[i].text = "full"
  BY <1>0, FirstIsFull
<1>4. /\ Stored' = Stored /\ \A x \in Stored \ {e} : rows'[x] = rows[x]
      /\ rows'[e].text = "full" /\ rows'[e].policy = "warm"
      /\ rows'[e].semantic = rows[e].semantic
  BY <1>0, <1>1, <1>2, <1>3, RestoreRows
<1>5. /\ Searched(e) => doing'.step = "index" /\ doing'.id = e /\ doing' # Idle
      /\ ~Searched(e) => doing' = Idle /\ doing'.step = "none"
  BY <1>2 DEF Idle
<1>6. ArchiveInv'
  BY <1>0, <1>2, <1>3, <1>4, <1>5, ArchiveStays DEF ArchiveInv
<1>7. IndexInv'
  <2>1. /\ index' \cup saved' \subseteq Stored'
        /\ (saved' \ index') \cup (index' \ saved') \subseteq hurt'
        /\ StubIsNotSearched'
    BY <1>0, <1>2, <1>4 DEF IndexInv, StubIsNotSearched
  <2>2. /\ doing'.step = "index" => rows'[doing'.id].text = "full"
        /\ doing'.step # "stub"
    BY <1>4, <1>5
  <2>3. \A x \in Stored' \ hurt' : Searched(x)' /\ rows'[x].policy # "cold" =>
            x \in index' \/ (doing' # Idle /\ doing'.id = x)
    BY <1>0, <1>2, <1>4, <1>5 DEF IndexInv, Searched
  <2> QED
    BY <2>1, <2>2, <2>3 DEF IndexInv
<1>8. PendingInv'
  BY <1>0, <1>2, <1>5 DEF PendingInv
<1> QED
  BY <1>6, <1>7, <1>8

\* An id enters the index with its full text, and leaves it before the stub comes.
LEMMA IndexStepsKeep ==
    ASSUME MemoryInv, IndexEntry \/ Unindex
    PROVE  (ArchiveInv /\ IndexInv /\ PendingInv)'
<1>a. MemoryTypeOK /\ ArchiveInv /\ IndexInv /\ PendingInv
  BY DEF MemoryInv
<1>0. /\ MemoryTypeOK /\ ArchiveInv /\ IndexInv /\ PendingInv
      /\ \/ doing = Idle
         \/ doing.step \in {"index", "unindex", "stub"} /\ doing.id \in Stored /\ doing # Idle
      /\ Idle.step = "none"
  BY <1>a, MemoryTypes
<1>1. UNCHANGED <<archive, rows, pending>>
  BY DEF IndexEntry, Unindex, Quiet
<1>2. Stored' = Stored
  BY <1>1 DEF Stored
<1>3. CASE IndexEntry
  <2>1. /\ doing.step = "index" /\ doing.id \in Stored /\ doing' = Idle
        /\ index' = index \cup {doing.id} /\ saved' = index' /\ hurt' = hurt \ {doing.id}
    BY <1>0, <1>3 DEF IndexEntry
  <2>2. ArchiveInv'
    BY <1>0, <1>1, <1>2, <2>1, ArchiveStays DEF ArchiveInv
  <2>3. IndexInv'
    BY <1>0, <1>1, <1>2, <2>1 DEF IndexInv, StubIsNotSearched, Searched
  <2>4. PendingInv'
    BY <1>0, <1>1, <2>1 DEF PendingInv
  <2> QED
    BY <2>2, <2>3, <2>4
<1>4. CASE Unindex
  <2>1. /\ doing.step = "unindex" /\ doing.id \in Stored /\ doing # Idle
        /\ index' = index \ {doing.id} /\ hurt' = hurt
        /\ saved' = IF doing.id \in index THEN index' ELSE saved
    BY <1>0, <1>4 DEF Unindex
  <2>2. doing' = [step |-> "stub", id |-> doing.id]
    <3>1. doing \in [step : {"index", "unindex", "stub"}, id : Stored]
      BY <1>0, <2>1 DEF MemoryTypeOK
    <3> QED
      BY <1>4, <3>1 DEF Unindex
  <2>3. doing'.step = "stub" /\ doing'.id = doing.id /\ doing' # Idle
    BY <1>0, <2>2
  <2>4. ArchiveInv'
    BY <1>0, <1>1, <1>2, <2>1, <2>3, ArchiveStays DEF ArchiveInv
  <2>5. IndexInv'
    BY <1>0, <1>1, <1>2, <2>1, <2>3 DEF IndexInv, StubIsNotSearched, Searched
  <2>6. PendingInv'
    BY <1>0, <1>1, <2>1, <2>3 DEF PendingInv
  <2> QED
    BY <2>4, <2>5, <2>6
<1> QED
  BY <1>3, <1>4

\* The stub is of an entry that the index has lost, or whose removal was not saved.
LEMMA MakeStubKeeps ==
    ASSUME MemoryInv, MakeStub
    PROVE  (ArchiveInv /\ IndexInv /\ PendingInv)'
<1>0. /\ MemoryTypeOK /\ ArchiveInv /\ IndexInv /\ PendingInv
      /\ DOMAIN pending \subseteq Stored
  BY MemoryTypes DEF MemoryInv
<1>1. /\ Stored' = Stored /\ \A x \in Stored \ {doing.id} : rows'[x] = rows[x]
      /\ rows'[doing.id].text = "stub" /\ rows'[doing.id].policy = "cold"
  BY <1>0, MakeStubRows
<1>2. /\ doing.step = "stub" /\ doing' = Idle
      /\ UNCHANGED <<archive, index, saved, pending, hurt>>
  BY DEF MakeStub, Quiet
<1>3. doing'.step = "none"
  BY <1>2 DEF Idle
<1>4. ArchiveInv'
  BY <1>0, <1>1, <1>2, <1>3, ArchiveStays DEF ArchiveInv
<1>5. IndexInv'
  <2>1. doing.id \notin index
    BY <1>0, <1>2 DEF IndexInv
  <2>2. /\ index' \cup saved' \subseteq Stored'
        /\ (saved' \ index') \cup (index' \ saved') \subseteq hurt'
        /\ StubIsNotSearched'
    BY <1>0, <1>1, <1>2, <2>1 DEF IndexInv, StubIsNotSearched
  <2>3. \A x \in Stored' \ hurt' : Searched(x)' /\ rows'[x].policy # "cold" =>
            x \in index' \/ (doing' # Idle /\ doing'.id = x)
    BY <1>0, <1>1, <1>2 DEF IndexInv, Searched
  <2> QED
    BY <1>3, <2>2, <2>3 DEF IndexInv
<1>6. PendingInv'
  BY <1>0, <1>1, <1>2, <1>3 DEF PendingInv
<1> QED
  BY <1>4, <1>5, <1>6

\* A fault hurts only the entry in hand and what the index and its file disagree on.
LEMMA FaultsKeep ==
    ASSUME MemoryInv, SaveFails \/ Crash
    PROVE  (ArchiveInv /\ IndexInv /\ PendingInv)'
<1>a. MemoryTypeOK /\ ArchiveInv /\ IndexInv /\ PendingInv /\ DOMAIN <<>> = {}
  BY DEF MemoryInv
<1>0. /\ MemoryTypeOK /\ ArchiveInv /\ IndexInv /\ PendingInv /\ DOMAIN <<>> = {}
      /\ Stored \subseteq Entries
      /\ \/ doing = Idle
         \/ doing.step \in {"index", "unindex", "stub"} /\ doing.id \in Stored /\ doing # Idle
      /\ Idle.step = "none"
  BY <1>a, MemoryTypes
<1>1. UNCHANGED <<archive, rows, saved>> /\ doing' = Idle /\ pending' = <<>>
  BY DEF SaveFails, Crash
<1>2. Stored' = Stored
  BY <1>1 DEF Stored
<1>3. ArchiveInv'
  BY <1>0, <1>1, <1>2, ArchiveStays DEF ArchiveInv
<1>4. PendingInv'
  BY <1>0, <1>1 DEF PendingInv
<1>5. IndexInv'
  <2>1. CASE SaveFails
    <3>1. /\ doing.step \in {"index", "unindex"} /\ doing.id \in Stored
          /\ index' \in {index \cup {doing.id}, index \ {doing.id}}
          /\ hurt' = hurt \cup {doing.id}
      BY <1>0, <2>1 DEF SaveFails
    <3> QED
      BY <1>0, <1>1, <1>2, <3>1 DEF IndexInv, StubIsNotSearched, Searched
  <2>2. CASE Crash
    <3>1. /\ index' = saved
          /\ hurt \cup (index \ saved) \subseteq hurt'
          /\ \A x \in Entries : doing # Idle /\ doing.id = x => x \in hurt'
      BY <2>2 DEF Crash
    <3> QED
      BY <1>0, <1>1, <1>2, <3>1 DEF IndexInv, StubIsNotSearched, Searched
  <2> QED
    BY <2>1, <2>2
<1> QED
  BY <1>3, <1>4, <1>5

\* Time and the steps of other parts keep it.
LEMMA RestKeeps ==
    ASSUME MemoryInv, NextDay \/ UNCHANGED memoryVars
    PROVE  (ArchiveInv /\ IndexInv /\ PendingInv)'
<1>1. UNCHANGED <<archive, rows, index, saved, doing, pending, hurt>>
  BY DEF NextDay, Quiet, memoryVars
<1>2. Stored' = Stored
  BY <1>1 DEF Stored
<1> QED
  BY <1>1, <1>2 DEF MemoryInv, ArchiveInv, Archived, FullFirst, IndexInv, StubIsNotSearched,
                    Searched, PendingInv

\* Every step keeps the invariant.
LEMMA MemoryKeeps ==
    ASSUME MemoryInv, [MemoryNext]_memoryVars
    PROVE  MemoryInv'
<1>1. MemoryTypeOK'
  BY MemoryTypesKept DEF MemoryInv
<1>2. (ArchiveInv /\ IndexInv /\ PendingInv)'
  BY AddEntryKeeps, RetrieveKeeps, RetentionPlansKeep, SetRetentionKeeps, ArchiveWritesKeep,
     RestoreKeeps, IndexStepsKeep, MakeStubKeeps, FaultsKeep, RestKeeps DEF MemoryNext
<1> QED
  BY <1>1, <1>2 DEF MemoryInv

\* The initial states satisfy the invariant.
LEMMA MemoryInitInv ==
    ASSUME MemoryInit
    PROVE  MemoryInv
<1>1. DOMAIN rows = {} /\ Len(archive) = 0 /\ doing.step = "none" /\ doing = Idle
      /\ DOMAIN pending = {}
  BY DEF MemoryInit, Idle
<1>2. MemoryTypeOK
  <2>1. rows = [x \in {} |-> x]
    BY DEF MemoryInit
  <2> QED
    <3>1. day \in 0..LastDay /\ faults \in 0..MaxFaults /\ torn \in BOOLEAN
      <4>1. LastDay \in Nat /\ MaxFaults \in Nat
        BY MemoryAssumption
      <4>2. day = 0 /\ faults = 0 /\ torn = FALSE
        BY DEF MemoryInit
      <4>3. day \in 0..LastDay /\ faults \in 0..MaxFaults
        BY <4>1, <4>2
      <4> QED
        BY <4>2, <4>3, Zenon
    <3>2. archive \in Seq(Lines)
      BY DEF MemoryInit
    <3>3. rows \in [Stored -> RowRecords]
      BY <1>1, <2>1 DEF Stored
    <3> QED
      BY <1>1, <3>1, <3>2, <3>3 DEF MemoryInit, MemoryTypeOK, Stored, RowRecords, Lines
<1>3. ArchiveInv
  BY <1>1 DEF ArchiveInv, Archived, Stored
<1>4. IndexInv
  BY <1>1 DEF IndexInv, StubIsNotSearched, Stored, MemoryInit
<1>5. PendingInv
  BY <1>1 DEF PendingInv
<1> QED
  BY <1>2, <1>3, <1>4, <1>5 DEF MemoryInv

\* What the invariant says about the memory.
LEMMA MemoryIsRight ==
    ASSUME MemoryInv
    PROVE  TextIsKept /\ ColdIsRestorable /\ StubIsNotSearched /\ IndexIsComplete
<1>0. /\ MemoryTypeOK /\ ArchiveInv /\ IndexInv /\ Stored \subseteq Entries
      /\ \A e \in Stored : rows[e] \in RowRecords
  BY MemoryTypes DEF MemoryInv
<1>1. TextIsKept
  <2>1. SUFFICES ASSUME NEW e \in Stored, rows[e].text # "full"
                 PROVE  \E i \in 1..Len(archive) : archive[i].id = e /\ archive[i].text = "full"
    BY DEF TextIsKept
  <2>2. rows[e].text = "stub"
    BY <1>0, <2>1, RowFields
  <2> QED
    BY <1>0, <2>2 DEF ArchiveInv, FullFirst
<1>2. ColdIsRestorable
  <2>1. SUFFICES ASSUME \A i \in 1..Len(archive) : archive[i].whole,
                        NEW e \in Stored, rows[e].policy = "cold"
                 PROVE  \E i \in FirstOf(e) : archive[i].text = "full"
    BY DEF ColdIsRestorable
  <2>2. PICK k \in 1..Len(archive) : /\ archive[k].id = e /\ archive[k].text = "full"
                                     /\ \A j \in 1..(k - 1) : archive[j].id # e
    BY <1>0, <2>1 DEF ArchiveInv, FullFirst
  <2>3. Len(archive) \in Nat
    BY <1>0, MemoryTypes
  <2>4. k \in FirstOf(e)
    <3>1. \A j \in 1..(k - 1) : j \in 1..Len(archive)
      BY <2>3
    <3> QED
      BY <2>1, <2>2, <3>1 DEF FirstOf
  <2> QED
    BY <2>2, <2>4
<1>3. StubIsNotSearched
  BY <1>0 DEF IndexInv
<1>4. IndexIsComplete
  BY <1>0 DEF IndexInv, IndexIsComplete
<1> QED
  BY <1>1, <1>2, <1>3, <1>4

-----------------------------------------------------------------------------

(***************************************************************************)
(* Scopes.  What the comparisons of texts say, character by character: a   *)
(* path that matches a scope whose wildcards begin names is under the      *)
(* scope's anchor (AnchorCovers), so that two scopes it matches have       *)
(* anchors one of which is under the other (AnchorsMeet).                  *)
(***************************************************************************)
Chars == Letters \cup {Wildcard, Separator}

Under(p, d) ==
    /\ Len(d) < Len(p) /\ p[Len(d) + 1] = Separator
    /\ \A i \in 1..Len(d) : p[i] = d[i]

\* The characters of a text.
LEMMA PatternChars ==
    ASSUME NEW s \in Patterns
    PROVE  /\ s \in Seq(Chars) /\ Len(s) \in 1..MaxLength /\ DOMAIN s = 1..Len(s)
           /\ \A i \in 1..Len(s) : s[i] \in Chars
           /\ s[1] # Separator /\ s[Len(s)] # Separator
           /\ \A i \in 2..Len(s) : s[i] = Separator => s[i - 1] # Separator
<1>1. PICK n \in 1..MaxLength : s \in [1..n -> Chars]
  BY DEF Patterns, TextsOver, Chars
<1>2. n \in Nat /\ MaxLength \in Nat /\ n <= MaxLength
  BY ScopesAssumption
<1>3. s \in Seq(Chars) /\ Len(s) = n
  BY <1>1, <1>2, SeqDef
<1>4. /\ s[1] # Separator /\ s[Len(s)] # Separator
      /\ \A i \in 2..Len(s) : Separator \in {s[i - 1], s[i]} => s[i - 1] # s[i]
  BY DEF Patterns, TextsOver
<1> QED
  BY <1>1, <1>2, <1>3, <1>4

\* A path is a text without a wildcard.
LEMMA PathChars ==
    /\ Paths = {s \in Patterns : ~IsWild(s)}
    /\ \A p \in Paths : \A i \in 1..Len(p) : p[i] # Wildcard
<1>0. Wildcard \notin Letters /\ Wildcard # Separator
  BY ScopesAssumption DEF Wildcard, Separator
<1>1. ASSUME NEW p \in Paths
      PROVE  p \in Patterns /\ \A i \in 1..Len(p) : p[i] # Wildcard
  <2>1. PICK n \in 1..MaxLength : p \in [1..n -> Letters \cup {Separator}]
    BY DEF Paths, TextsOver
  <2>2. p \in [1..n -> (Letters \cup {Wildcard}) \cup {Separator}]
    BY <2>1
  <2>3. n \in Nat
    BY ScopesAssumption
  <2>4. Len(p) = n
    BY <2>1, <2>3
  <2> QED
    BY <1>0, <2>1, <2>2, <2>4 DEF Paths, Patterns, TextsOver
<1>2. ASSUME NEW s \in Patterns, ~IsWild(s)
      PROVE  s \in Paths
  <2>1. PICK n \in 1..MaxLength : s \in [1..n -> (Letters \cup {Wildcard}) \cup {Separator}]
    BY DEF Patterns, TextsOver
  <2>2. n \in Nat
    BY ScopesAssumption
  <2>3. Len(s) = n
    BY <2>1, <2>2
  <2>4. \A i \in 1..n : s[i] \in Letters \cup {Separator}
    BY <1>2, <2>1, <2>3 DEF IsWild
  <2>5. s \in [1..n -> Letters \cup {Separator}]
    BY <2>1, <2>4
  <2> QED
    BY <2>5 DEF Paths, Patterns, TextsOver
<1> QED
  BY <1>1, <1>2 DEF IsWild

\* What Below says.
LEMMA BelowIsUnder ==
    ASSUME NEW p \in Seq(Chars), NEW d \in Seq(Chars)
    PROVE  Below(p, d) <=> p = d \/ Under(p, d)
<1> DEFINE e == Append(d, Separator)
<1>0. Len(p) \in Nat /\ Len(d) \in Nat
  OBVIOUS
<1>1. e \in Seq(Chars) /\ Len(e) = Len(d) + 1
      /\ \A i \in 1..Len(e) : e[i] = IF i = Len(e) THEN Separator ELSE d[i]
  <2>1. Separator \in Chars
    BY DEF Chars
  <2> QED
    BY <2>1
<1> HIDE DEF e
<1>2. Seqs!IsPrefix(e, p) <=> Len(e) <= Len(p) /\ \A i \in 1..Len(e) : e[i] = p[i]
  <2>1. SubSeq(e, 1, Len(e)) = e
    BY <1>1, SubSeqFull
  <2>2. ASSUME Len(e) <= Len(p)
        PROVE  /\ SubSeq(p, 1, Len(e)) \in Seq(Chars) /\ Len(SubSeq(p, 1, Len(e))) = Len(e)
               /\ \A i \in 1..Len(e) : SubSeq(p, 1, Len(e))[i] = p[i]
    <3>1. \A i \in 1..Len(e) : p[i] \in Chars
      BY <2>2, <1>0, <1>1, ElementOfSeq
    <3>2. Len(e) \in Int /\ 1 <= Len(e)
      BY <1>0, <1>1
    <3> QED
      BY <3>1, <3>2, SubSeqProperties
  <2>3. ASSUME Len(e) <= Len(p), \A i \in 1..Len(e) : e[i] = p[i]
        PROVE  SubSeq(e, 1, Len(e)) = SubSeq(p, 1, Len(e))
    BY <1>1, <2>1, <2>2, <2>3, SeqEqual
  <2>4. ASSUME Len(e) <= Len(p), SubSeq(e, 1, Len(e)) = SubSeq(p, 1, Len(e))
        PROVE  \A i \in 1..Len(e) : e[i] = p[i]
    BY <2>1, <2>2, <2>4
  <2> QED
    BY <2>3, <2>4 DEF Seqs!IsPrefix
<1>3. Seqs!IsPrefix(e, p) <=> Under(p, d)
  BY <1>0, <1>1, <1>2 DEF Under
<1> QED
  BY <1>3 DEF Below, e

\* What IsRecursive says.
LEMMA RecursiveChars ==
    ASSUME NEW s \in Patterns
    PROVE  IsRecursive(s) <=>
               /\ Len(s) > 3 /\ s[Len(s) - 2] = Separator
               /\ s[Len(s) - 1] = Wildcard /\ s[Len(s)] = Wildcard
<1>0. s \in Seq(Chars) /\ Len(s) \in Nat /\ \A i \in 1..Len(s) : s[i] \in Chars
  BY PatternChars
<1> SUFFICES ASSUME Len(s) > 3
             PROVE  Seqs!IsSuffix(Recursively, s) <=>
                        /\ s[Len(s) - 2] = Separator
                        /\ s[Len(s) - 1] = Wildcard /\ s[Len(s)] = Wildcard
  BY DEF IsRecursive
<1> DEFINE e == Seqs!Reverse(Recursively)
           r == Seqs!Reverse(s)
<1>1. Len(e) = 3 /\ e \in Seq(Chars) /\ e[1] = Wildcard /\ e[2] = Wildcard /\ e[3] = Separator
  <2>1. Recursively \in Seq(Chars) /\ Len(Recursively) = 3
        /\ Recursively[1] = Separator /\ Recursively[2] = Wildcard /\ Recursively[3] = Wildcard
    BY DEF Recursively, Chars
  <2>2. e = [i \in 1..3 |-> Recursively[(3 - i) + 1]]
    BY <2>1 DEF Seqs!Reverse
  <2>3. e \in [1..3 -> Chars] /\ e[1] = Wildcard /\ e[2] = Wildcard /\ e[3] = Separator
    BY <2>1, <2>2 DEF Chars
  <2> HIDE DEF e
  <2> QED
    <3>1. e \in Seq(Chars)
      BY <2>3, SeqDef
    <3>2. Len(e) = 3
      BY <2>3
    <3> QED
      BY <2>3, <3>1, <3>2
<1>2. Len(r) = Len(s) /\ r \in Seq(Chars) /\ \A i \in 1..Len(s) : r[i] = s[(Len(s) - i) + 1]
  <2>1. r = [i \in 1..Len(s) |-> s[(Len(s) - i) + 1]]
    BY DEF Seqs!Reverse
  <2>2. r \in [1..Len(s) -> Chars]
    BY <1>0, <2>1
  <2> QED
    BY <1>0, <2>1, <2>2, SeqDef
<1> HIDE DEF e, r
<1>3. SubSeq(e, 1, Len(e)) = e
  BY <1>1, SubSeqFull
<1>4. SubSeq(r, 1, 3) \in Seq(Chars) /\ Len(SubSeq(r, 1, 3)) = 3
      /\ \A i \in 1..3 : SubSeq(r, 1, 3)[i] = r[i]
  <2>1. \A i \in 1..3 : r[i] \in Chars
    BY <1>0, <1>2
  <2> QED
    BY <2>1, SubSeqProperties
<1>5. Seqs!IsPrefix(e, r) <=> e[1] = r[1] /\ e[2] = r[2] /\ e[3] = r[3]
  <2>1. ASSUME e[1] = r[1], e[2] = r[2], e[3] = r[3]
        PROVE  e = SubSeq(r, 1, 3)
    <3>1. \A i \in 1..3 : e[i] = SubSeq(r, 1, 3)[i]
      <4> SUFFICES ASSUME NEW i \in 1..3 PROVE e[i] = SubSeq(r, 1, 3)[i]
        OBVIOUS
      <4>1. i = 1 \/ i = 2 \/ i = 3
        OBVIOUS
      <4> QED
        BY <1>4, <2>1, <4>1
    <3> QED
      BY <1>1, <1>4, <3>1, SeqEqual
  <2>2. ASSUME e = SubSeq(r, 1, 3)
        PROVE  e[1] = r[1] /\ e[2] = r[2] /\ e[3] = r[3]
    BY <1>4, <2>2
  <2> QED
    BY <1>1, <1>2, <1>3, <2>1, <2>2 DEF Seqs!IsPrefix
<1>6. r[1] = s[Len(s)] /\ r[2] = s[Len(s) - 1] /\ r[3] = s[Len(s) - 2]
  BY <1>0, <1>2
<1>7. Seqs!IsSuffix(Recursively, s) <=> Seqs!IsPrefix(e, r)
  BY DEF Seqs!IsSuffix, e, r
<1> QED
  BY <1>1, <1>5, <1>6, <1>7

\* The least of a set of numbers.
LEMMA LeastExists ==
    ASSUME NEW T \in SUBSET Nat, T # {}
    PROVE  \E x \in T : \A y \in T : x <= y
<1> DEFINE less == {ss \in Nat \X Nat : ss[1] < ss[2]}
<1>1. IsWellFoundedOn(less, Nat)
  BY NatLessThanWellFounded DEF OpToRel
<1>2. PICK x \in T : \A y \in T : ~(<<y, x>> \in less)
  <2> HIDE DEF less
  <2> QED
    BY <1>1, WFMin
<1>3. \A y \in T : ~(y < x)
  BY <1>2
<1> QED
  BY <1>3

\* The anchor of a scope.
LEMMA AnchorChars ==
    ASSUME NEW s \in Patterns
    PROVE  /\ ScopeAnchor(s) \in Seq(Chars)
           /\ ~IsWild(s) => ScopeAnchor(s) = s
           /\ IsWild(s) =>
                \E f \in 1..Len(s) :
                   /\ s[f] = Wildcard /\ \A k \in 1..(f - 1) : s[k] # Wildcard
                   /\ Len(ScopeAnchor(s)) = IF f > 1 /\ s[f - 1] = Separator THEN f - 2 ELSE f - 1
                   /\ \A i \in 1..Len(ScopeAnchor(s)) : ScopeAnchor(s)[i] = s[i]
<1>0. s \in Seq(Chars) /\ Len(s) \in Nat /\ \A i \in 1..Len(s) : s[i] \in Chars
  BY PatternChars
<1>1. CASE ~IsWild(s)
  BY <1>0, <1>1 DEF ScopeAnchor
<1>2. CASE IsWild(s)
  <2> DEFINE First(i) == s[i] = Wildcard /\ \A k \in 1..(i - 1) : s[k] # Wildcard
             f == CHOOSE i \in 1..Len(s) : First(i)
             last == IF f > 1 /\ s[f - 1] = Separator THEN f - 2 ELSE f - 1
  <2>1. \E i \in 1..Len(s) : First(i)
    <3> DEFINE T == {i \in 1..Len(s) : s[i] = Wildcard}
    <3>1. T \in SUBSET Nat /\ T # {}
      BY <1>0, <1>2 DEF IsWild
    <3>2. PICK i \in T : \A j \in T : i <= j
      BY <3>1, LeastExists
    <3>3. \A k \in 1..(i - 1) : k \in 1..Len(s) /\ ~(i <= k)
      BY <1>0
    <3> QED
      BY <3>2, <3>3
  <2>2. f \in 1..Len(s) /\ First(f)
    BY <2>1
  <2>3. ScopeAnchor(s) = SubSeq(s, 1, last)
    BY <1>2 DEF ScopeAnchor
  <2> HIDE DEF f
  <2>4. last \in Nat /\ last <= Len(s)
    BY <1>0, <2>2
  <2> HIDE DEF last
  <2>5. \A i \in 1..last : s[i] \in Chars
    BY <1>0, <2>4
  <2>6. /\ SubSeq(s, 1, last) \in Seq(Chars) /\ Len(SubSeq(s, 1, last)) = last
        /\ \A i \in 1..last : SubSeq(s, 1, last)[i] = s[i]
    BY <2>4, <2>5, SubSeqProperties
  <2> QED
    BY <1>2, <2>2, <2>3, <2>4, <2>6 DEF last
<1> QED
  BY <1>1, <1>2

\* What precedes every wildcard of a pattern, a path it matches begins with.
LEMMA LiteralPrefix ==
    ASSUME NEW p \in Paths, NEW s \in Patterns, FnMatch(p, s)
    PROVE  /\ \A i \in 1..Len(s) : (\A k \in 1..i : s[k] # Wildcard) => i <= Len(p) /\ p[i] = s[i]
           /\ ~IsWild(s) => p = s
<1> DEFINE wild == {i \in 1..Len(s) : s[i] = Wildcard}
           last(i) == CHOOSE w \in wild \cup {0} : w <= i /\ \A v \in wild : v <= i => v <= w
<1>0. /\ p \in Seq(Chars) /\ s \in Seq(Chars) /\ Len(p) \in Nat /\ Len(s) \in Nat /\ Len(s) >= 1
  BY PatternChars, PathChars
<1>1. PICK end \in [wild \cup {0} -> 0..Len(p)] :
          LET spot(i) == end[last(i)] + (i - last(i))
          IN /\ end[0] = 0 /\ spot(Len(s)) = Len(p)
             /\ \A i \in 1..Len(s) :
                   IF i \in wild THEN spot(i - 1) <= spot(i)
                   ELSE spot(i) <= Len(p) /\ p[spot(i)] = s[i]
  BY DEF FnMatch
<1> DEFINE spot(i) == end[last(i)] + (i - last(i))
<1>2. ASSUME NEW i \in 1..Len(s), \A k \in 1..i : s[k] # Wildcard
      PROVE  spot(i) = i /\ i \notin wild
  <2>1. \A v \in wild : ~(v <= i)
    BY <1>0, <1>2
  <2>2. last(i) = 0
    BY <1>0, <2>1
  <2> HIDE DEF last
  <2> QED
    BY <1>0, <1>1, <1>2, <2>2
<1>3. \A i \in 1..Len(s) : i \notin wild => spot(i) <= Len(p) /\ p[spot(i)] = s[i]
  BY <1>1
<1>4. spot(Len(s)) = Len(p)
  BY <1>1
<1> HIDE DEF spot, wild
<1>5. ASSUME NEW i \in 1..Len(s), \A k \in 1..i : s[k] # Wildcard
      PROVE  i <= Len(p) /\ p[i] = s[i]
  BY <1>2, <1>3, <1>5
<1>6. ASSUME ~IsWild(s)
      PROVE  p = s
  <2>1. \A i \in 1..Len(s) : \A k \in 1..i : s[k] # Wildcard
    BY <1>0, <1>6 DEF IsWild
  <2>2. Len(p) = Len(s)
    BY <1>0, <1>2, <1>4, <2>1
  <2> QED
    BY <1>0, <1>5, <2>1, <2>2, SeqEqual
<1> QED
  BY <1>5, <1>6

\* A recursive scope is wild, and the text before its "/**" is its directory.
LEMMA RecursiveScope ==
    ASSUME NEW s \in Patterns, IsRecursive(s)
    PROVE  LET d == SubSeq(s, 1, Len(s) - 3)
           IN /\ IsWild(s) /\ d \in Seq(Chars) /\ Len(d) = Len(s) - 3 /\ Len(d) >= 1
              /\ \A i \in 1..Len(d) : d[i] = s[i]
              /\ ~IsWild(d) => ScopeAnchor(s) = d /\ d \in Paths
<1> DEFINE d == SubSeq(s, 1, Len(s) - 3)
<1>0. /\ s \in Seq(Chars) /\ Len(s) \in Nat /\ \A i \in 1..Len(s) : s[i] \in Chars
      /\ s \in Patterns
  BY PatternChars
<1>1. /\ Len(s) > 3 /\ s[Len(s) - 2] = Separator
      /\ s[Len(s) - 1] = Wildcard /\ s[Len(s)] = Wildcard
  BY RecursiveChars
<1>2. d \in Seq(Chars) /\ Len(d) = Len(s) - 3 /\ \A i \in 1..Len(d) : d[i] = s[i]
  <2>1. \A i \in 1..(Len(s) - 3) : s[i] \in Chars
    BY <1>0, <1>1
  <2> QED
    BY <1>0, <1>1, <2>1, SubSeqProperties
<1> HIDE DEF d
<1>3. Len(d) >= 1 /\ IsWild(s)
  BY <1>0, <1>1, <1>2 DEF IsWild
<1>4. ASSUME ~IsWild(d)
      PROVE  ScopeAnchor(s) = d /\ d \in Paths
  <2>0. Wildcard # Separator
    BY DEF Wildcard, Separator
  <2>1. \A i \in 1..(Len(s) - 2) : s[i] # Wildcard
    BY <1>0, <1>1, <1>2, <1>4, <2>0 DEF IsWild
  <2>2. PICK f \in 1..Len(s) :
          /\ s[f] = Wildcard /\ \A k \in 1..(f - 1) : s[k] # Wildcard
          /\ Len(ScopeAnchor(s)) = IF f > 1 /\ s[f - 1] = Separator THEN f - 2 ELSE f - 1
          /\ \A i \in 1..Len(ScopeAnchor(s)) : ScopeAnchor(s)[i] = s[i]
    BY <1>3, AnchorChars
  <2>3. f = Len(s) - 1
    BY <1>0, <1>1, <2>1, <2>2
  <2>4. Len(ScopeAnchor(s)) = Len(d)
    BY <1>0, <1>1, <1>2, <2>2, <2>3
  <2>5. ScopeAnchor(s) = d
    BY <1>2, <2>2, <2>4, AnchorChars, SeqEqual
  <2>6. d \in Paths
    <3> DEFINE n == Len(s) - 3
    <3>1. n \in 1..MaxLength /\ n = Len(d) /\ n \in Nat /\ n < Len(s)
      BY <1>0, <1>1, <1>2, PatternChars, ScopesAssumption
    <3>2. \A i \in 1..n : d[i] \in Letters \cup {Separator}
      BY <1>0, <1>2, <2>1, <3>1 DEF Chars
    <3>3. d \in [1..n -> Letters \cup {Separator}]
      BY <1>2, <3>1, <3>2
    <3>4. /\ s[1] # Separator
          /\ \A i \in 2..Len(s) : s[i] = Separator => s[i - 1] # Separator
      BY PatternChars
    <3>5. d[1] # Separator /\ d[Len(d)] # Separator
      <4>1. s[Len(s) - 3] # Separator
        <5>1. Len(s) - 2 \in 2..Len(s) /\ (Len(s) - 2) - 1 = Len(s) - 3
          BY <1>0, <1>1
        <5> QED
          BY <1>1, <3>4, <5>1
      <4> QED
        BY <1>2, <1>3, <3>1, <3>4, <4>1
    <3>6. \A i \in 2..Len(d) : Separator \in {d[i - 1], d[i]} => d[i - 1] # d[i]
      BY <1>2, <3>1, <3>4
    <3> QED
      BY <3>1, <3>3, <3>5, <3>6 DEF Paths, TextsOver
  <2> QED
    BY <2>5, <2>6
<1> QED
  BY <1>2, <1>3, <1>4 DEF d

\* What a scope stands for is under its anchor.
LEMMA AnchorCovers ==
    ASSUME NEW s \in Patterns, WholeNames(s), NEW p \in FilesOf[s]
    PROVE  IF ScopeAnchor(s) = <<>> THEN ~IsRecursive(s) ELSE Below(p, ScopeAnchor(s))
<1>0. /\ s \in Seq(Chars) /\ Len(s) \in Nat /\ p \in Seq(Chars) /\ Len(p) \in Nat
      /\ p \in Paths /\ p \in Patterns /\ PathMatchesScope(p, s) /\ s[1] # Separator
      /\ \A i \in 1..Len(p) : p[i] # Wildcard
  BY PatternChars, PathChars DEF FilesOf
<1>1. CASE IsRecursive(s)
  <2> DEFINE d == SubSeq(s, 1, Len(s) - 3)
  <2>1. Below(p, d)
    BY <1>0, <1>1 DEF PathMatchesScope
  <2>2. /\ d \in Seq(Chars) /\ Len(d) >= 1
        /\ ~IsWild(d) => ScopeAnchor(s) = d
    BY <1>1, RecursiveScope
  <2> HIDE DEF d
  <2>3. \A i \in 1..Len(d) : p[i] = d[i] /\ i \in 1..Len(p)
    <3>1. p = d \/ Under(p, d)
      BY <1>0, <2>1, <2>2, BelowIsUnder
    <3>2. Len(d) \in Nat
      BY <2>2
    <3> QED
      BY <1>0, <3>1, <3>2 DEF Under
  <2>4. ~IsWild(d)
    BY <1>0, <2>3 DEF IsWild
  <2>5. ScopeAnchor(s) = d /\ d # <<>>
    BY <2>2, <2>4
  <2> QED
    BY <2>1, <2>5
<1>2. CASE ~IsRecursive(s)
  <2>1. FnMatch(p, s)
    BY <1>0, <1>2 DEF PathMatchesScope
  <2>2. CASE ~IsWild(s)
    BY <1>0, <1>2, <2>1, <2>2, LiteralPrefix, AnchorChars DEF Below
  <2>3. CASE IsWild(s)
    <3> DEFINE x == ScopeAnchor(s)
    <3>1. PICK f \in 1..Len(s) :
            /\ s[f] = Wildcard /\ \A k \in 1..(f - 1) : s[k] # Wildcard
            /\ Len(x) = IF f > 1 /\ s[f - 1] = Separator THEN f - 2 ELSE f - 1
            /\ \A i \in 1..Len(x) : x[i] = s[i]
      BY <2>3, AnchorChars
    <3>2. x \in Seq(Chars)
      BY AnchorChars
    <3> HIDE DEF x
    <3>3. CASE f = 1
      BY <1>2, <3>1, <3>2, <3>3, EmptySeq DEF x
    <3>4. CASE f # 1
      <4>1. f \in 2..Len(s) /\ s[f - 1] = Separator
        BY <1>0, <1>2, <3>1, <3>4 DEF WholeNames
      <4>2. \A i \in 1..(f - 1) : i <= Len(p) /\ p[i] = s[i]
        <5>1. \A i \in 1..(f - 1) : i \in 1..Len(s) /\ \A k \in 1..i : k \in 1..(f - 1)
          BY <1>0, <4>1
        <5> QED
          BY <1>0, <2>1, <3>1, <5>1, LiteralPrefix
      <4>3. Len(x) = f - 2 /\ f - 1 \in 1..(f - 1)
        BY <1>0, <3>1, <4>1
      <4>4. Under(p, x)
        BY <1>0, <3>1, <4>1, <4>2, <4>3 DEF Under
      <4>5. Below(p, x)
        BY <1>0, <3>2, <4>4, BelowIsUnder
      <4> QED
        BY <1>2, <4>5 DEF x
    <3> QED
      BY <3>3, <3>4
  <2> QED
    BY <2>2, <2>3
<1> QED
  BY <1>1, <1>2

\* Of two directories of one path, one is under the other.
LEMMA DirectoriesMeet ==
    ASSUME NEW p \in Seq(Chars), NEW x \in Seq(Chars), NEW y \in Seq(Chars),
           Below(p, x), Below(p, y)
    PROVE  Below(x, y) \/ Below(y, x)
<1>0. Len(p) \in Nat /\ Len(x) \in Nat /\ Len(y) \in Nat
  OBVIOUS
<1>1. (p = x \/ Under(p, x)) /\ (p = y \/ Under(p, y))
  BY BelowIsUnder
<1>2. CASE p = x \/ p = y
  BY <1>2
<1>3. CASE Under(p, x) /\ Under(p, y)
  <2>1. CASE Len(x) = Len(y)
    <3>1. \A i \in 1..Len(x) : x[i] = y[i]
      BY <1>0, <1>3, <2>1 DEF Under
    <3> QED
      BY <2>1, <3>1, SeqEqual DEF Below
  <2>2. CASE Len(x) < Len(y)
    <3>1. Under(y, x)
      BY <1>0, <1>3, <2>2 DEF Under
    <3> QED
      BY <3>1, BelowIsUnder
  <2>3. CASE Len(y) < Len(x)
    <3>1. Len(y) + 1 \in 1..Len(x) /\ \A i \in 1..Len(y) : i \in 1..Len(x)
      BY <1>0, <2>3
    <3>2. x[Len(y) + 1] = Separator /\ \A i \in 1..Len(y) : x[i] = y[i]
      BY <1>3, <3>1 DEF Under
    <3> QED
      BY <2>3, <3>2, BelowIsUnder DEF Under
  <2> QED
    BY <1>0, <2>1, <2>2, <2>3
<1> QED
  BY <1>1, <1>2, <1>3

\* Scopes that are not said to overlap share no file, for texts of every length over every
\* alphabet, if their wildcards begin names (scopes_overlap, path_matches_scope).
THEOREM OverlapIsRight ==
    ASSUME NEW a \in Patterns, NEW b \in Patterns, WholeNames(a), WholeNames(b),
           ~ScopesOverlap(a, b)
    PROVE  Apart(a, b)
<1> SUFFICES ASSUME NEW p \in FilesOf[a] \cap FilesOf[b] PROVE FALSE
  BY DEF Apart
<1> DEFINE x == ScopeAnchor(a)
           y == ScopeAnchor(b)
<1>0. p \in Paths /\ p \in Seq(Chars) /\ PathMatchesScope(p, a) /\ PathMatchesScope(p, b)
  BY PatternChars, PathChars DEF FilesOf
<1>1. /\ IF x = <<>> THEN ~IsRecursive(a) ELSE Below(p, x)
      /\ IF y = <<>> THEN ~IsRecursive(b) ELSE Below(p, y)
  BY AnchorCovers
<1>2. /\ ~IsWild(a) => ~IsRecursive(a) /\ x = a /\ p = a
      /\ ~IsWild(b) => ~IsRecursive(b) /\ y = b /\ p = b
  BY <1>0, RecursiveScope, AnchorChars, LiteralPrefix DEF PathMatchesScope
<1>3. x \in Seq(Chars) /\ y \in Seq(Chars)
  BY AnchorChars
<1>4. ~IF ~IsWild(a) /\ ~IsWild(b) THEN x = y
       ELSE IF IsRecursive(a) /\ ~IsWild(b) THEN Below(y, x)
       ELSE IF IsRecursive(b) /\ ~IsWild(a) THEN Below(x, y)
       ELSE \/ ~(IsRecursive(a) /\ IsRecursive(b)) /\ (x = <<>> \/ y = <<>>)
            \/ Below(x, y) \/ Below(y, x)
  BY DEF ScopesOverlap
<1> HIDE DEF x, y
<1>5. Below(x, y) \/ Below(y, x) \/ x = <<>> \/ y = <<>>
  BY <1>0, <1>1, <1>3, DirectoriesMeet
<1> QED
  BY <1>1, <1>2, <1>4, <1>5

\* Which scope is asked for first does not matter.
LEMMA OverlapIsSymmetric ==
    ASSUME NEW a \in Patterns, NEW b \in Patterns
    PROVE  ScopesOverlap(a, b) <=> ScopesOverlap(b, a)
<1>1. /\ ~IsWild(a) => ~IsRecursive(a)
      /\ ~IsWild(b) => ~IsRecursive(b)
  BY RecursiveScope
<1> QED
  BY <1>1 DEF ScopesOverlap

\* What a plain scope stands for.
LEMMA PlainFiles ==
    ASSUME NEW s \in Patterns, IsPlain(s)
    PROVE  /\ WholeNames(s) /\ ScopeAnchor(s) \in Paths
           /\ FilesOf[s] = IF IsRecursive(s) THEN {p \in Paths : Below(p, ScopeAnchor(s))}
                           ELSE {ScopeAnchor(s)}
           /\ ~IsRecursive(s) => ~IsWild(s)
<1>0. s \in Seq(Chars) /\ Len(s) \in Nat /\ Len(s) >= 1
  BY PatternChars
<1>1. CASE IsRecursive(s)
  <2> DEFINE d == SubSeq(s, 1, Len(s) - 3)
  <2>1. ~IsWild(d)
    BY <1>1 DEF IsPlain
  <2>2. ScopeAnchor(s) = d /\ d \in Paths
    BY <1>1, <2>1, RecursiveScope
  <2>3. FilesOf[s] = {p \in Paths : Below(p, d)}
    BY <1>1 DEF FilesOf, PathMatchesScope
  <2>4. Len(d) = Len(s) - 3 /\ \A i \in 1..Len(d) : d[i] = s[i]
    BY <1>1, RecursiveScope
  <2> HIDE DEF d
  <2>5. Len(s) > 3 /\ s[Len(s) - 2] = Separator /\ Wildcard # Separator
    BY <1>1, RecursiveChars DEF Wildcard, Separator
  <2>6. WholeNames(s)
    <3> SUFFICES ASSUME NEW i \in 2..Len(s), s[i] = Wildcard, i # Len(s)
                 PROVE  s[i - 1] = Separator
      BY <1>1 DEF WholeNames
    <3>1. i \notin 1..(Len(s) - 3)
      BY <1>0, <2>1, <2>4 DEF IsWild
    <3>2. i # Len(s) - 2
      BY <2>5
    <3>3. i = Len(s) - 1
      BY <1>0, <3>1, <3>2
    <3> QED
      BY <1>0, <2>5, <3>3
  <2> QED
    BY <1>1, <2>2, <2>3, <2>6
<1>2. CASE ~IsRecursive(s)
  <2>1. ~IsWild(s) /\ ScopeAnchor(s) = s /\ s \in Paths
    BY <1>2, AnchorChars, PathChars DEF IsPlain
  <2>2. FnMatch(s, s)
    <3> DEFINE wild == {i \in 1..Len(s) : s[i] = Wildcard}
               last(i) == CHOOSE w \in wild \cup {0} : w <= i /\ \A v \in wild : v <= i => v <= w
               end == [i \in {0} |-> 0]
    <3>1. wild = {}
      BY <2>1 DEF IsWild
    <3>2. \A i \in 0..Len(s) : last(i) = 0
      BY <1>0, <3>1
    <3>3. end \in [wild \cup {0} -> 0..Len(s)] /\ end[0] = 0
      BY <1>0, <3>1
    <3> HIDE DEF end, last
    <3> DEFINE spot(i) == end[last(i)] + (i - last(i))
    <3>4. \A i \in 0..Len(s) : spot(i) = i
      BY <1>0, <3>2, <3>3
    <3>5. /\ spot(Len(s)) = Len(s)
          /\ \A i \in 1..Len(s) : i \notin wild /\ spot(i) <= Len(s) /\ s[spot(i)] = s[i]
      BY <1>0, <3>1, <3>4
    <3> HIDE DEF wild
    <3> QED
      BY <3>3, <3>5 DEF FnMatch, last, wild
  <2>3. FilesOf[s] = {s}
    BY <1>2, <2>1, <2>2, LiteralPrefix DEF FilesOf, PathMatchesScope
  <2>4. WholeNames(s)
    BY <1>0, <2>1 DEF WholeNames, IsWild
  <2> QED
    BY <1>2, <2>1, <2>3, <2>4
<1> QED
  BY <1>1, <1>2

\* Paths of files and of directories are said to overlap exactly if they share a file, for
\* texts of every length (scopes_overlap).
THEOREM PlainOverlapIsExact ==
    ASSUME NEW a \in Patterns, NEW b \in Patterns, IsPlain(a), IsPlain(b)
    PROVE  ScopesOverlap(a, b) <=> ~Apart(a, b)
<1>1. ~ScopesOverlap(a, b) => Apart(a, b)
  BY OverlapIsRight, PlainFiles
<1>2. ASSUME ScopesOverlap(a, b)
      PROVE  \E p \in FilesOf[a] : p \in FilesOf[b]
  <2> DEFINE x == ScopeAnchor(a)
             y == ScopeAnchor(b)
  <2>1. /\ x \in Paths /\ y \in Paths
        /\ FilesOf[a] = IF IsRecursive(a) THEN {p \in Paths : Below(p, x)} ELSE {x}
        /\ FilesOf[b] = IF IsRecursive(b) THEN {p \in Paths : Below(p, y)} ELSE {y}
        /\ ~IsRecursive(a) => ~IsWild(a)
        /\ ~IsRecursive(b) => ~IsWild(b)
    BY PlainFiles
  <2>2. (IsRecursive(a) => IsWild(a)) /\ (IsRecursive(b) => IsWild(b))
    BY RecursiveScope
  <2>3. IF ~IsWild(a) /\ ~IsWild(b) THEN x = y
        ELSE IF IsRecursive(a) /\ ~IsWild(b) THEN Below(y, x)
        ELSE IF IsRecursive(b) /\ ~IsWild(a) THEN Below(x, y)
        ELSE \/ ~(IsRecursive(a) /\ IsRecursive(b)) /\ (x = <<>> \/ y = <<>>)
             \/ Below(x, y) \/ Below(y, x)
    BY <1>2 DEF ScopesOverlap
  <2> HIDE DEF x, y
  <2>4. Below(x, x) /\ Below(y, y)
    BY DEF Below
  <2> QED
    BY <2>1, <2>2, <2>3, <2>4
<1> QED
  BY <1>1, <1>2 DEF Apart

(***************************************************************************)
(* The locks: no two agents have scopes that are said to overlap.          *)
(***************************************************************************)
ScopesInv ==
    /\ fileLocks \subseteq [writer : Writers, scope : Patterns]
    /\ \A k, l \in fileLocks : k.writer # l.writer => ~ScopesOverlap(k.scope, l.scope)

LEMMA ScopesInitInv ==
    ASSUME ScopesInit
    PROVE  ScopesInv
BY DEF ScopesInit, ScopesInv, NoLocks

LEMMA ScopesKeep ==
    ASSUME ScopesInv, ScopesNext
    PROVE  ScopesInv'
<1>1. ASSUME NEW w \in Writers, ReleaseLocks(w)
      PROVE  ScopesInv'
  BY <1>1 DEF ReleaseLocks, ScopesInv
<1>2. ASSUME NEW w \in Writers, NEW scope \in Patterns, AcquireLock(w, scope)
      PROVE  ScopesInv'
  <2> DEFINE new == [writer |-> w, scope |-> scope]
  <2>1. fileLocks' = fileLocks \cup {new} /\ new \in [writer : Writers, scope : Patterns]
        /\ new.writer = w /\ new.scope = scope
    BY <1>2 DEF AcquireLock
  <2>2. \A l \in fileLocks : ~ScopesOverlap(scope, l.scope) /\ l.scope \in Patterns
    BY <1>2 DEF AcquireLock, ScopesInv
  <2>3. \A l \in fileLocks : ~ScopesOverlap(l.scope, scope)
    BY <2>2, OverlapIsSymmetric
  <2> HIDE DEF new
  <2> QED
    BY <2>1, <2>2, <2>3 DEF ScopesInv
<1> QED
  BY <1>1, <1>2 DEF ScopesNext

LEMMA ScopesAreRight ==
    ASSUME ScopesInv
    PROVE  WholeNamesAreKeptApart /\ PlainScopesAreExact
<1>1. WholeNamesAreKeptApart
  BY OverlapIsRight DEF ScopesInv, WholeNamesAreKeptApart
<1>2. PlainScopesAreExact
  BY PlainOverlapIsExact DEF ScopesInv, PlainScopesAreExact
<1> QED
  BY <1>1, <1>2

-----------------------------------------------------------------------------

(***************************************************************************)
(* The parts together.  Of the kinds of locked files only the one that     *)
(* runs has its contents in motion; the others' are as they started, so    *)
(* that nothing of theirs was confirmed.                                   *)
(***************************************************************************)
LockedKinds == {"state", "ledger", "git"}

StorePart ==
    /\ which = "state" => StoreInv
    /\ which # "state" => StoreTypes /\ confirmed = {}

LedgerPart ==
    /\ which = "ledger" => LedgerInv
    /\ which # "ledger" => LedgerTypeOK /\ ledger = NoLedger /\ acknowledged = {}

PlatformInv ==
    /\ which = "loop" => LoopInv
    /\ which = "memory" => MemoryInv
    /\ which = "reaper" => ReaperInv
    /\ which \in LockedKinds => LockInv /\ StorePart /\ LedgerPart
    /\ which = "scopes" => ScopesInv

\* The types of the state store from what the proof knows of them.
LEMMA StoreTypesOK ==
    ASSUME StoreTypes
    PROVE  StoreTypeOK
<1>1. /\ state \in States
      /\ \A p \in Processes : known[p] \in States /\ loaded[p] \in States
  BY DEF StoreTypes
<1>2. {state} \cup {known[p] : p \in Processes} \cup {loaded[p] : p \in Processes} \subseteq States
  BY <1>1
<1> QED
  BY <1>2 DEF StoreTypes, StoreTypeOK, States

\* What does not run is right because nothing of it was confirmed.
LEMMA PlatformIsRight ==
    ASSUME PlatformInv
    PROVE  /\ RunsHold /\ MemoryHolds /\ LockedFilesHold /\ CleanupHolds
           /\ ScopesHold
<1>1. RunsHold
  BY LoopIsRight DEF PlatformInv, RunsHold, LoopInv
<1>2. MemoryHolds
  BY MemoryIsRight DEF PlatformInv, MemoryHolds, MemoryInv
<1>3. CleanupHolds
  BY DEF PlatformInv, CleanupHolds, ReaperInv
<1>4. ASSUME which \in LockedKinds
      PROVE  /\ ExclusionNeedsNoFault /\ ChangesAreKept
             /\ LedgerVerifies /\ ReceiptsAreKept /\ CompleteIsPublished
             /\ LockTypeOK /\ StoreTypeOK /\ LedgerTypeOK
  <2>0. LockInv /\ StorePart /\ LedgerPart
    BY <1>4 DEF PlatformInv
  <2>1. ExclusionNeedsNoFault /\ LockTypeOK
    BY <2>0, LockIsExclusive DEF LockInv
  <2>2. StoreTypes
    BY <2>0 DEF StorePart, StoreInv
  <2>3. ChangesAreKept
    BY <2>0 DEF StorePart, StoreInv, ChangesAreKept
  <2>4. LedgerTypeOK /\ LedgerVerifies /\ ReceiptsAreKept /\ CompleteIsPublished
    <3>1. CASE which = "ledger"
      BY <2>0, <3>1, LedgerIsRight, LedgerTypesOK DEF LedgerPart
    <3>2. CASE which # "ledger"
      <4>1. LedgerTypeOK /\ ledger = NoLedger /\ acknowledged = {}
        BY <2>0, <3>2 DEF LedgerPart
      <4>2. Recorded(ledger) = {}
        BY <4>1, NoLedgerIsEmpty
      <4> QED
        BY <4>1, <4>2 DEF LedgerVerifies, ReceiptsAreKept, CompleteIsPublished
    <3> QED
      BY <3>1, <3>2
  <2> QED
    BY <2>1, <2>2, <2>3, <2>4, StoreTypesOK
<1>5. ScopesHold
  BY ScopesAreRight DEF PlatformInv, ScopesHold
<1> QED
  BY <1>1, <1>2, <1>3, <1>4, <1>5 DEF LockedFilesHold, LockedKinds

\* The initial states satisfy the invariant.
LEMMA PlatformInitInv ==
    ASSUME PlatformInit
    PROVE  PlatformInv
<1>1. LoopInv /\ MemoryInv /\ ReaperInv
  BY LoopInitInv, MemoryInitInv, ReaperInitInv DEF PlatformInit
<1>2. LockInv
  <2> DEFINE rules == IF which = "git" THEN {"owner"} ELSE {"age"}
  <2>1. rules \subseteq {"age", "owner"} /\ LockInit(rules)
    BY DEF PlatformInit
  <2> HIDE DEF rules
  <2> QED
    BY <2>1, LockInitInv
<1>3. \A p \in Processes : at[p] = "waiting"
  BY DEF PlatformInit, LockInit
<1>4. StorePart
  <2>1. StoreInit
    BY DEF PlatformInit
  <2> QED
    BY <1>2, <1>3, <2>1, StoreInitInv DEF StorePart, StoreInv, StoreInit
<1>5. LedgerPart
  <2>1. LedgerInit /\ (which # "ledger" => ledger = NoLedger)
    BY DEF PlatformInit
  <2>2. LedgerInv /\ LedgerTypeOK
    BY <1>2, <1>3, <2>1, LedgerInitInv, LedgerTypesOK
  <2> QED
    BY <2>1, <2>2 DEF LedgerPart, LedgerInit
<1>6. ScopesInv
  BY ScopesInitInv DEF PlatformInit
<1> QED
  BY <1>1, <1>2, <1>4, <1>5, <1>6 DEF PlatformInv

\* Whatever runs keeps its own part, and leaves the others alone.
LEMMA PlatformKeeps ==
    ASSUME PlatformInv, [PlatformNext]_PlatformVars
    PROVE  PlatformInv'
<1>1. which' = which
  BY DEF PlatformNext, PlatformVars
<1>2. /\ which = "loop" => [LoopNext]_loopVars
      /\ which = "memory" => [MemoryNext]_memoryVars
      /\ which = "reaper" => [ReaperNext]_reaperVars
  BY DEF PlatformNext, PlatformVars
<1>3. which = "loop" => LoopInv'
  BY <1>2, LoopKeeps DEF PlatformInv
<1>4. which = "memory" => MemoryInv'
  BY <1>2, MemoryKeeps DEF PlatformInv
<1>5. which = "reaper" => ReaperInv'
  BY <1>2, ReaperKeeps DEF PlatformInv
<1>6. ASSUME which \in LockedKinds
      PROVE  (LockInv /\ StorePart /\ LedgerPart)'
  <2>0. LockInv /\ StorePart /\ LedgerPart
    BY <1>6 DEF PlatformInv
  <2>1. \/ which = "state" /\ StoreNext
        \/ which = "ledger" /\ LedgerNext
        \/ which = "git" /\ GitLockNext
        \/ UNCHANGED lockedVars
    BY <1>6 DEF LockedKinds, PlatformNext, PlatformVars
  <2>2. LockInv'
    <3>1. CASE which = "state" /\ StoreNext
      BY <2>0, <3>1, StoreKeeps DEF StorePart
    <3>2. CASE which = "ledger" /\ LedgerNext
      BY <2>0, <3>2, LedgerKeeps DEF LedgerPart
    <3>3. CASE GitLockNext
      <4>1. ASSUME NEW p \in Processes, Work(p)
            PROVE  WorksOn(p)
        BY <4>1 DEF Work, WorksOn
      <4> QED
        BY <2>0, <3>3, <4>1, WorksOnKeeps, LockStepKeeps DEF GitLockNext
    <3>4. CASE UNCHANGED lockedVars
      BY <2>0, <3>4, LockInvStutters DEF lockedVars, lockVars
    <3> QED
      BY <2>1, <3>1, <3>2, <3>3, <3>4
  <2>3. StorePart'
    <3>1. CASE which = "state" /\ StoreNext
      BY <1>1, <2>0, <3>1, StoreKeeps DEF StorePart
    <3>2. CASE UNCHANGED <<operation, known, loaded, state, confirmed>> /\ which # "state"
      BY <1>1, <2>0, <3>2 DEF StorePart, StoreTypes
    <3>3. CASE UNCHANGED lockedVars /\ which = "state"
      BY <1>1, <2>0, <3>3
      DEF StorePart, StoreInv, StoreTypes, LoadedIsCurrent, KnownIsOlder, LoadedAsAsked,
          ConfirmedLeft, lockedVars, lockVars
    <3> QED
      BY <1>6, <3>1, <3>2, <3>3 DEF LockedKinds, PlatformNext, PlatformVars, lockedVars
  <2>4. LedgerPart'
    <3>1. CASE which = "ledger" /\ LedgerNext
      BY <1>1, <2>0, <3>1, LedgerKeeps DEF LedgerPart
    <3>2. CASE UNCHANGED <<request, content, read, ledger, acknowledged>> /\ which # "ledger"
      BY <1>1, <2>0, <3>2 DEF LedgerPart, LedgerTypeOK, Recorded
    <3>3. CASE UNCHANGED lockedVars /\ which = "ledger"
      <4>1. LedgerInv
        BY <2>0, <3>3 DEF LedgerPart
      <4>2. /\ LedgerTypes' /\ LoadedIsExtensible' /\ Written'
        BY <3>3, <4>1 DEF LedgerInv, LedgerTypes, SoundLedger, LoadedIsExtensible, Extensible,
                         Written, WrittenIn, Recorded, lockedVars, lockVars
      <4>3. ~displaced' => LoadedLedger' /\ Kept'
        BY <3>3, <4>1 DEF LedgerInv, LoadedLedger, Kept, Recorded, lockedVars, lockVars
      <4> QED
        BY <1>1, <3>3, <4>2, <4>3 DEF LedgerPart, LedgerInv
    <3> QED
      BY <1>6, <3>1, <3>2, <3>3 DEF LockedKinds, PlatformNext, PlatformVars, lockedVars
  <2> QED
    BY <2>2, <2>3, <2>4
<1>7. LockedKinds' = LockedKinds
  BY DEF LockedKinds
<1>8. which = "scopes" => ScopesInv'
  <2>1. CASE which = "scopes" /\ ScopesNext
    BY <2>1, ScopesKeep DEF PlatformInv
  <2>2. CASE which = "scopes" /\ UNCHANGED fileLocks
    BY <2>2 DEF PlatformInv, ScopesInv
  <2> QED
    BY <2>1, <2>2 DEF PlatformNext, PlatformVars
<1> QED
  BY <1>1, <1>3, <1>4, <1>5, <1>6, <1>7, <1>8 DEF PlatformInv

\* In every behaviour the part that runs has its invariant.
THEOREM PlatformIsInductive == PlatformSpec => []PlatformInv
<1>1. PlatformInit => PlatformInv
  BY PlatformInitInv
<1>2. PlatformInv /\ [PlatformNext]_PlatformVars => PlatformInv'
  BY PlatformKeeps
<1> QED
  BY <1>1, <1>2, PTL DEF PlatformSpec

\* Whatever the threads of a run do and wherever its calls run out, nothing is released that
\* its checks have not earned, a rejected plan leaves nothing, every step has one verdict, and
\* the budget holds (TankAI.run).
THEOREM RunsAreEarned == PlatformSpec => []RunsHold
<1>1. PlatformInv => RunsHold
  BY PlatformIsRight
<1> QED
  BY <1>1, PlatformIsInductive, PTL

\* However often entries go to the archive and come back, whatever fails and wherever the
\* process stops, no text is lost and no stub found for one (LongTermMemory).
THEOREM MemoryIsKept == PlatformSpec => []MemoryHolds
<1>1. PlatformInv => MemoryHolds
  BY PlatformIsRight
<1> QED
  BY <1>1, PlatformIsInductive, PTL

\* For any number of processes: who is inside is alone and what a call has confirmed stays,
\* unless a lock was taken from a process that still worked (_process_lock,
\* _git_metadata_lock); the ledger verifies even then (release_publication.py).
THEOREM LockedFilesAreSafe == PlatformSpec => []LockedFilesHold
<1>1. PlatformInv => LockedFilesHold
  BY PlatformIsRight
<1> QED
  BY <1>1, PlatformIsInductive, PTL

\* The lock file, the revisions and the replacement of the file implement the atomic changes
\* that every caller of the state store relies on, with any number of processes (create, save
\* and transaction).
THEOREM StoreIsAtomic == PlatformSpec => ImplementsAtomicState
<1>1. PlatformInit => Atomic!AtomicInit
  BY StoreStartsAtomic DEF PlatformInit, LockInit
<1>2. PlatformInv /\ [PlatformNext]_PlatformVars => [Atomic!AtomicNext]_(Atomic!atomicVars)
  <2>1. SUFFICES ASSUME PlatformInv, [PlatformNext]_PlatformVars
                 PROVE  [Atomic!AtomicNext]_(Atomic!atomicVars)
    OBVIOUS
  <2>2. CASE which = "state" /\ StoreNext
    BY <2>1, <2>2, StoreStepIsAtomic DEF PlatformInv, LockedKinds, StorePart
  <2>3. CASE UNCHANGED <<operation, known, state, confirmed>> /\ UNCHANGED displaced
    <3>1. Contents(state)' = Contents(state)
      BY <2>3 DEF Contents
    <3>2. [p \in Processes |-> Contents(known[p])]' = [p \in Processes |-> Contents(known[p])]
      BY <2>3 DEF Contents
    <3> QED
      BY <2>3, <3>1, <3>2 DEF Atomic!atomicVars
  <2>4. CASE /\ which \in {"ledger", "git"}
             /\ UNCHANGED <<operation, known, loaded, state, confirmed>>
    <3>1. LockInv
      BY <2>1, <2>4 DEF PlatformInv, LockedKinds
    <3>2. which' = which /\ LockInv'
      BY <2>1, <2>4, PlatformKeeps DEF PlatformInv, LockedKinds, PlatformNext, PlatformVars
    <3>3. \/ LockStep \/ UNCHANGED displaced
      BY <2>1, <2>4
      DEF PlatformNext, PlatformVars, lockedVars, lockVars, LedgerNext, GitLockNext, Work,
          LedgerLockStep, TakeInventory, CheckAbsent, LoadLedger, WriteLedger, Rebuild
    <3>4. displaced' \in BOOLEAN
      BY <3>2 DEF LockInv, LockTypeOK
    <3>5. displaced => displaced'
      BY <3>1, <3>3, LockStepLoadsNothing
    <3> QED
      BY <2>4, <3>1, <3>4, <3>5, LockStepIsAtomic
  <2> QED
    BY <2>1, <2>2, <2>3, <2>4 DEF PlatformNext, PlatformVars, lockedVars, lockVars
<1> QED
  BY <1>1, <1>2, PlatformIsInductive, PTL
  DEF PlatformSpec, ImplementsAtomicState, Atomic!AtomicSpec

\* The cleanups leave uncommitted work, bound worktrees and live containers alone, however
\* they interleave with any number of claims (reap_worktrees, reap_containers).
THEOREM CleanupIsSafe == PlatformSpec => []CleanupHolds
<1>1. PlatformInv => CleanupHolds
  BY PlatformIsRight
<1> QED
  BY <1>1, PlatformIsInductive, PTL

\* A worktree that the cleanup takes from a live worker was claimed after it began, and what
\* it had read was stale or undone by a predecessor (reap_worktrees).
THEOREM LiveTreesGoLate == PlatformSpec => LiveTreeIsRemovedLate
<1> DEFINE Late ==
      \A e \in harm'.robbed \ harm.robbed : Owns(e) /\ project.task = "active" =>
          /\ e \in sweep.late
          /\ sweep.confirmed = 0 /\ sweep.minAge > 0 => sweep.stale \/ harm.unbound
<1>1. PlatformInv /\ [PlatformNext]_PlatformVars => [Late]_reaperVars
  <2>1. SUFFICES ASSUME PlatformInv, [PlatformNext]_PlatformVars, ~(UNCHANGED reaperVars)
                 PROVE  Late
    OBVIOUS
  <2>2. which = "reaper" /\ [ReaperNext]_reaperVars
    BY <2>1 DEF PlatformNext, PlatformVars
  <2>3. ReaperInv
    BY <2>1, <2>2 DEF PlatformInv
  <2> QED
    BY <2>2, <2>3, RobbedLate
<1> QED
  BY <1>1, PlatformIsInductive, PTL DEF PlatformSpec, LiveTreeIsRemovedLate

\* However many agents take and give back scopes, in whatever order: no two have locks on
\* scopes with a file in common if the scopes' wildcards begin names, and for the paths of
\* files and directories nothing else is kept apart (scopes_overlap).
THEOREM ScopesAreKeptApart == PlatformSpec => []ScopesHold
<1>1. PlatformInv => ScopesHold
  BY PlatformIsRight
<1> QED
  BY <1>1, PlatformIsInductive, PTL

=============================================================================
