--------------------------- MODULE AuthStateProofs ---------------------------
(***************************************************************************)
(* Proofs about the account snapshot (auth_state.py against the Durable    *)
(* Object): what was answered as done is in the snapshot from then on, the *)
(* snapshot only grows, and it has one owner, for any containers, POSTs    *)
(* and boots.  The heart of the invariant is that whoever knows the        *)
(* object's revision has all of its changes: the container that has it,    *)
(* the PUT that carries it and the reply that brings it.                   *)
(***************************************************************************)
EXTENDS AuthState, FiniteSetTheorems, TLAPS

-----------------------------------------------------------------------------
(* The inductive invariant. *)

\* A database that is not empty has the owner of one boot.
Owned(data) == data # {} => \E b \in Boots : data \cap Boots = {b}

DatabasesOwned ==
    /\ Owned(saved.data)
    /\ \A c \in Containers : Owned(store[c]) /\ Owned(answer[c].data)
    /\ \A m \in wire : Owned(m.data)

\* A container that is up has booted, and one past bootstrap_owner has a database.
Booted ==
    \A c \in Containers :
        /\ phase[c] # "down" => boots[c] > 0
        /\ phase[c] \in {"bootstrapped", "booting", "serving"} => store[c] # {}

\* Revisions only come from the object.
RevisionsPast ==
    /\ saved.revision = 0 => saved.data = {}
    /\ \A c \in Containers :
          revision[c] <= saved.revision /\ answer[c].revision <= saved.revision
    /\ \A m \in wire : m.revision <= saved.revision
    /\ \A r \in replies : r.revision <= saved.revision

\* Whoever knows the object's revision has all of its changes.
RevisionKnowsData ==
    /\ \A c \in Containers : revision[c] = saved.revision => saved.data \subseteq store[c]
    /\ \A c \in Containers :
          answer[c].revision = saved.revision => saved.data \subseteq answer[c].data
    /\ \A m \in wire : m.revision = saved.revision => saved.data \subseteq m.data

\* Whose save a container is waiting for, and where the changes of a POST are meanwhile.
SaverWaits ==
    /\ \A c \in Containers : saving[c] # NoPost =>
          \/ /\ saving[c] \in Posts /\ at[saving[c]] = c
             /\ post[saving[c]] = "saving" /\ phase[c] = "serving"
          \/ saving[c] = Boot(c) /\ phase[c] = "booting"
    /\ \A p \in Posts : post[p] \in {"changed", "saving"} =>
          at[p] \in Containers /\ phase[at[p]] = "serving" /\ p \in store[at[p]]

\* No POST and no boot sends a second PUT.
Unsent == {"fetched", "restored", "bootstrapped"}

SentBefore(x) ==
    /\ x.by \in Posts => post[x.by] \notin {"new", "changed"}
    /\ x.by \in Boots =>
          /\ x.by[2] <= boots[x.by[1]]
          /\ phase[x.by[1]] \in Unsent => x.by[2] < boots[x.by[1]]

SentOnce == (\A m \in wire : SentBefore(m)) /\ (\A r \in replies : SentBefore(r))

\* A PUT on its way has the changes of the container that waits for it, and a good reply
\* says that they have been saved.
PutIsStore ==
    \A m \in wire :
        /\ m.by \in Posts => m.by \in m.data
        /\ \A c \in Containers : saving[c] = m.by => m.data = store[c]

ReplyIsTrue ==
    \A r \in replies : r.revision # 0 =>
        /\ r.by \in Posts => r.by \in saved.data
        /\ \A c \in Containers : saving[c] = r.by =>
              /\ store[c] \subseteq saved.data
              /\ r.revision = saved.revision => saved.data \subseteq store[c]

ServesSaved ==
    \A c \in Containers : phase[c] = "serving" => store[c] \cap Boots \subseteq saved.data

AuthStateInv ==
    /\ AuthStateTypeOK
    /\ DatabasesOwned /\ Booted /\ RevisionsPast /\ RevisionKnowsData
    /\ SaverWaits /\ SentOnce /\ PutIsStore /\ ReplyIsTrue
    /\ ServesSaved /\ AcknowledgedIsDurable

\* NoPost is nobody who sends.
LEMMA NobodySends == NoPost \notin Senders /\ Posts \cap Boots = {}
BY AuthStateAssumption DEF Senders

\* An empty object, no container up, nothing on its way.
LEMMA InitInv == AuthStateInit => AuthStateInv
BY AuthStateAssumption DEF AuthStateInit, AuthStateInv, AuthStateTypeOK, DatabasesOwned,
   Owned, Booted, RevisionsPast, RevisionKnowsData, SaverWaits, SentOnce, PutIsStore,
   ReplyIsTrue, ServesSaved, AcknowledgedIsDurable, Snapshots, Nothing, Phases

\* What Boot(c) is, and that a container about to save for its boot has not done so yet.
LEMMA BootIsPair ==
    ASSUME AuthStateInv, NEW c \in Containers, phase[c] # "down"
    PROVE  Boot(c) \in Boots /\ Boot(c)[1] = c /\ Boot(c)[2] = boots[c]
<1>1. boots[c] \in 1..MaxBoots
  BY AuthStateAssumption DEF AuthStateInv, AuthStateTypeOK, Booted
<1> QED
  BY <1>1 DEF Boot, Boots

LEMMA BootNotSent ==
    ASSUME AuthStateInv, NEW c \in Containers, phase[c] = "bootstrapped",
           NEW x \in wire \cup replies, x.by = Boot(c)
    PROVE  FALSE
<1>1. SentBefore(x)
  BY DEF AuthStateInv, SentOnce
<1>2. Boot(c) \in Boots /\ Boot(c)[1] = c /\ Boot(c)[2] = boots[c]
  BY BootIsPair
<1>3. boots[c] \in Nat
  BY DEF AuthStateInv, AuthStateTypeOK
<1> QED
  BY <1>1, <1>2, <1>3 DEF SentBefore, Unsent

LEMMA BootNotAwaited ==
    ASSUME AuthStateInv, NEW c \in Containers, phase[c] # "down",
           NEW d \in Containers, saving[d] = Boot(c), d # c
    PROVE  FALSE
<1>1. Boot(c) \in Boots /\ Boot(c)[1] = c
  BY BootIsPair
<1>2. Boot(c) # NoPost /\ Boot(c) \notin Posts
  BY <1>1, AuthStateAssumption
<1>3. saving[d] = Boot(d) /\ phase[d] # "down"
  BY <1>2 DEF AuthStateInv, SaverWaits
<1>4. Boot(d)[1] = d
  BY <1>3, BootIsPair
<1> QED
  BY <1>1, <1>3, <1>4

LEMMA PostIsNoBoot ==
    ASSUME AuthStateInv, NEW d \in Containers, saving[d] \in Posts
    PROVE  at[saving[d]] = d /\ post[saving[d]] = "saving" /\ phase[d] = "serving"
<1>1. CASE phase[d] = "down"
  BY <1>1, AuthStateAssumption DEF AuthStateInv, SaverWaits
<1>2. CASE phase[d] # "down"
  BY <1>2, BootIsPair, AuthStateAssumption DEF AuthStateInv, SaverWaits
<1> QED
  BY <1>1, <1>2

\* The end of a save (Concluded) leaves the types and the other savers alone.
LEMMA ConcludedType ==
    ASSUME AuthStateTypeOK, NEW c \in Containers, NEW by, NEW good, Concluded(c, by, good)
    PROVE  /\ saving' \in [Containers -> Senders \cup {NoPost}]
           /\ phase' \in [Containers -> Phases]
           /\ post' \in [Posts -> {"new", "changed", "saving", "acknowledged", "refused", "dropped"}]
<1>1. saving' \in [Containers -> Senders \cup {NoPost}]
  BY DEF AuthStateTypeOK, Concluded
<1>2. phase' \in [Containers -> Phases]
  BY DEF AuthStateTypeOK, Concluded, Phases
<1>3. post' \in [Posts -> {"new", "changed", "saving", "acknowledged", "refused", "dropped"}]
  BY DEF AuthStateTypeOK, Concluded
<1> QED
  BY <1>1, <1>2, <1>3

LEMMA ConcludedWaits ==
    ASSUME AuthStateInv, NEW c \in Containers, NEW good,
           saving[c] # NoPost, Concluded(c, saving[c], good), UNCHANGED <<boots, store, at>>
    PROVE  SaverWaits'
<1> DEFINE Good(d) == saving'[d] # NoPost =>
               \/ /\ saving'[d] \in Posts /\ at'[saving'[d]] = d
                  /\ post'[saving'[d]] = "saving" /\ phase'[d] = "serving"
               \/ saving'[d] = Boot(d)' /\ phase'[d] = "booting"
<1>1. saving' = [saving EXCEPT ![c] = NoPost] /\ \A d \in Containers : Boot(d)' = Boot(d)
  BY DEF Concluded, Boot
<1> USE DEF AuthStateInv
<1>2. CASE saving[c] \in Posts
  <2>1. at[saving[c]] = c /\ phase' = phase
    BY <1>2, PostIsNoBoot DEF SaverWaits, Concluded
  <2>2. \A p \in Posts : p # saving[c] => post'[p] = post[p]
    BY <1>2 DEF Concluded, AuthStateTypeOK
  <2>3. post'[saving[c]] \in {"acknowledged", "refused"}
    BY <1>2 DEF Concluded, AuthStateTypeOK
  <2>4. ASSUME NEW d \in Containers PROVE Good(d)
    BY <1>1, <2>1, <2>2 DEF SaverWaits, AuthStateTypeOK
  <2> QED
    BY <2>1, <2>2, <2>3, <2>4 DEF SaverWaits
<1>3. CASE saving[c] \notin Posts
  <2>1. phase[c] = "booting" /\ post' = post
    BY <1>3 DEF SaverWaits, Concluded
  <2>2. \A d \in Containers : d # c => phase'[d] = phase[d]
    BY <1>3 DEF Concluded, AuthStateTypeOK
  <2>3. ASSUME NEW d \in Containers PROVE Good(d)
    BY <1>1, <2>1, <2>2 DEF SaverWaits, AuthStateTypeOK
  <2>4. \A p \in Posts : post[p] \in {"changed", "saving"} => at[p] # c
    BY <2>1 DEF SaverWaits
  <2> QED
    BY <2>1, <2>2, <2>3, <2>4 DEF SaverWaits
<1> QED
  BY <1>2, <1>3

-----------------------------------------------------------------------------
(* Each step keeps every part of the invariant. *)

LEMMA FetchKeeps ==
    ASSUME AuthStateInv, NEW c \in Containers, Fetch(c)
    PROVE  AuthStateInv'
<1>1. AuthStateTypeOK'
  BY AuthStateAssumption DEF AuthStateInv, AuthStateTypeOK, Snapshots, Puts, Nothing, Senders,
     Changes, Boot, Phases, Fetch
<1>2. DatabasesOwned'
  BY DEF AuthStateInv, AuthStateTypeOK, DatabasesOwned, Owned, Fetch
<1>3. Booted'
  BY DEF AuthStateInv, AuthStateTypeOK, Booted, Fetch
<1>4. RevisionsPast'
  BY DEF AuthStateInv, AuthStateTypeOK, RevisionsPast, Fetch, Snapshots, Puts, Nothing
<1>5. RevisionKnowsData'
  BY DEF AuthStateInv, AuthStateTypeOK, RevisionKnowsData, Fetch
<1>6. SaverWaits'
  BY DEF AuthStateInv, AuthStateTypeOK, SaverWaits, Boot, Fetch
<1>7. SentOnce'
  BY DEF AuthStateInv, AuthStateTypeOK, SentOnce, SentBefore, Unsent, Fetch, Puts, Senders,
     Boots, SaverWaits, Boot
<1>8. PutIsStore'
  BY DEF AuthStateInv, AuthStateTypeOK, PutIsStore, Fetch, SaverWaits, Senders, Puts, Boot
<1>9. ReplyIsTrue'
  BY DEF AuthStateInv, AuthStateTypeOK, ReplyIsTrue, Fetch, SaverWaits, Senders, Boot
<1>10. ServesSaved'
  BY DEF AuthStateInv, AuthStateTypeOK, ServesSaved, Fetch
<1>11. AcknowledgedIsDurable'
  BY DEF AuthStateInv, AuthStateTypeOK, AcknowledgedIsDurable, Fetch
<1> QED
  BY <1>1, <1>2, <1>3, <1>4, <1>5, <1>6, <1>7, <1>8, <1>9, <1>10, <1>11 DEF AuthStateInv

LEMMA InstallSnapshotKeeps ==
    ASSUME AuthStateInv, NEW c \in Containers, InstallSnapshot(c)
    PROVE  AuthStateInv'
<1>1. AuthStateTypeOK'
  <2>1. answer[c] \in Snapshots /\ Nothing \in Snapshots
    BY DEF AuthStateInv, AuthStateTypeOK, Snapshots, Nothing
  <2>2. store' \in [Containers -> SUBSET Changes] /\ revision' \in [Containers -> Nat]
    BY <2>1 DEF AuthStateInv, AuthStateTypeOK, Snapshots, InstallSnapshot
  <2> QED
    BY <2>1, <2>2 DEF AuthStateInv, AuthStateTypeOK, Phases, InstallSnapshot
<1>2. DatabasesOwned'
  BY DEF AuthStateInv, AuthStateTypeOK, DatabasesOwned, Owned, InstallSnapshot, Nothing
<1>3. Booted'
  BY DEF AuthStateInv, AuthStateTypeOK, Booted, InstallSnapshot, Nothing
<1>4. RevisionsPast'
  BY DEF AuthStateInv, AuthStateTypeOK, RevisionsPast, InstallSnapshot, Nothing, Snapshots,
     Puts
<1>5. RevisionKnowsData'
  BY DEF AuthStateInv, AuthStateTypeOK, RevisionKnowsData, InstallSnapshot, Nothing,
     Snapshots, RevisionsPast
<1>6. SaverWaits'
  BY DEF AuthStateInv, AuthStateTypeOK, SaverWaits, Boot, InstallSnapshot, Nothing
<1>7. SentOnce'
  BY DEF AuthStateInv, AuthStateTypeOK, SentOnce, SentBefore, Unsent, InstallSnapshot,
     Nothing, Puts, Senders, Boots, SaverWaits, Boot
<1>8. PutIsStore'
  BY NobodySends DEF AuthStateInv, AuthStateTypeOK, PutIsStore, InstallSnapshot, Nothing,
     SaverWaits, Senders, Puts, Boot
<1>9. ReplyIsTrue'
  BY NobodySends DEF AuthStateInv, AuthStateTypeOK, ReplyIsTrue, InstallSnapshot, Nothing,
     SaverWaits, Senders, Boot
<1>10. ServesSaved'
  BY DEF AuthStateInv, AuthStateTypeOK, ServesSaved, InstallSnapshot, Nothing
<1>11. AcknowledgedIsDurable'
  BY DEF AuthStateInv, AuthStateTypeOK, AcknowledgedIsDurable, InstallSnapshot, Nothing
<1> QED
  BY <1>1, <1>2, <1>3, <1>4, <1>5, <1>6, <1>7, <1>8, <1>9, <1>10, <1>11 DEF AuthStateInv

LEMMA BootstrapOwnerKeeps ==
    ASSUME AuthStateInv, NEW c \in Containers, BootstrapOwner(c)
    PROVE  AuthStateInv'
<1>1. AuthStateTypeOK'
  <2>1. Boot(c) \in Changes
    BY BootIsPair DEF Changes, BootstrapOwner
  <2> QED
    BY <2>1 DEF AuthStateInv, AuthStateTypeOK, Phases, BootstrapOwner
<1>2. DatabasesOwned'
  <2>1. Boot(c) \in Boots
    BY BootIsPair DEF BootstrapOwner
  <2>2. Owned({Boot(c)})
    BY <2>1 DEF Owned
  <2>3. \A d \in Containers : store'[d] = store[d] \/ store'[d] = {Boot(c)}
    BY DEF AuthStateInv, AuthStateTypeOK, BootstrapOwner
  <2> QED
    BY <2>2, <2>3 DEF AuthStateInv, DatabasesOwned, BootstrapOwner
<1>3. Booted'
  BY DEF AuthStateInv, AuthStateTypeOK, Booted, BootstrapOwner, Boot
<1>4. RevisionsPast'
  BY DEF AuthStateInv, AuthStateTypeOK, RevisionsPast, BootstrapOwner, Boot, Snapshots, Puts,
     Nothing
<1>5. RevisionKnowsData'
  BY DEF AuthStateInv, AuthStateTypeOK, RevisionKnowsData, BootstrapOwner, Boot
<1>6. SaverWaits'
  BY DEF AuthStateInv, AuthStateTypeOK, SaverWaits, Boot, BootstrapOwner, Boot
<1>7. SentOnce'
  BY DEF AuthStateInv, AuthStateTypeOK, SentOnce, SentBefore, Unsent, BootstrapOwner, Boot,
     Puts, Senders, Boots, SaverWaits
<1>8. PutIsStore'
  BY NobodySends DEF AuthStateInv, AuthStateTypeOK, PutIsStore, BootstrapOwner, Boot,
     SaverWaits, Senders, Puts
<1>9. ReplyIsTrue'
  BY NobodySends DEF AuthStateInv, AuthStateTypeOK, ReplyIsTrue, BootstrapOwner, Boot,
     SaverWaits, Senders
<1>10. ServesSaved'
  BY DEF AuthStateInv, AuthStateTypeOK, ServesSaved, BootstrapOwner, Boot
<1>11. AcknowledgedIsDurable'
  BY DEF AuthStateInv, AuthStateTypeOK, AcknowledgedIsDurable, BootstrapOwner, Boot
<1> QED
  BY <1>1, <1>2, <1>3, <1>4, <1>5, <1>6, <1>7, <1>8, <1>9, <1>10, <1>11 DEF AuthStateInv

LEMMA StartFailsKeeps ==
    ASSUME AuthStateInv, NEW c \in Containers, StartFails(c)
    PROVE  AuthStateInv'
<1>1. AuthStateTypeOK'
  BY DEF AuthStateInv, AuthStateTypeOK, Snapshots, Puts, Nothing, Senders, Changes, Boot,
     Phases, StartFails
<1>2. DatabasesOwned'
  BY DEF AuthStateInv, AuthStateTypeOK, DatabasesOwned, Owned, StartFails
<1>3. Booted'
  BY DEF AuthStateInv, AuthStateTypeOK, Booted, StartFails
<1>4. RevisionsPast'
  BY DEF AuthStateInv, AuthStateTypeOK, RevisionsPast, StartFails, Snapshots, Puts, Nothing
<1>5. RevisionKnowsData'
  BY DEF AuthStateInv, AuthStateTypeOK, RevisionKnowsData, StartFails
<1>6. SaverWaits'
  BY DEF AuthStateInv, AuthStateTypeOK, SaverWaits, Boot, StartFails
<1>7. SentOnce'
  BY DEF AuthStateInv, AuthStateTypeOK, SentOnce, SentBefore, Unsent, StartFails, Puts,
     Senders, Boots, SaverWaits, Boot
<1>8. PutIsStore'
  BY DEF AuthStateInv, AuthStateTypeOK, PutIsStore, StartFails, SaverWaits, Senders, Puts,
     Boot
<1>9. ReplyIsTrue'
  BY DEF AuthStateInv, AuthStateTypeOK, ReplyIsTrue, StartFails, SaverWaits, Senders, Boot
<1>10. ServesSaved'
  BY DEF AuthStateInv, AuthStateTypeOK, ServesSaved, StartFails
<1>11. AcknowledgedIsDurable'
  BY DEF AuthStateInv, AuthStateTypeOK, AcknowledgedIsDurable, StartFails
<1> QED
  BY <1>1, <1>2, <1>3, <1>4, <1>5, <1>6, <1>7, <1>8, <1>9, <1>10, <1>11 DEF AuthStateInv

LEMMA BootSaveKeeps ==
    ASSUME AuthStateInv, NEW c \in Containers, BootSave(c)
    PROVE  AuthStateInv'
<1>1. AuthStateTypeOK'
  <2>1. Boot(c) \in Senders
    BY BootIsPair DEF Senders, BootSave
  <2>2. [by |-> Boot(c), revision |-> revision[c], data |-> store[c]] \in Puts
    BY <2>1 DEF AuthStateInv, AuthStateTypeOK, Puts
  <2> QED
    BY <2>1, <2>2 DEF AuthStateInv, AuthStateTypeOK, Phases, BootSave, SendPut
<1>2. DatabasesOwned'
  BY DEF AuthStateInv, AuthStateTypeOK, DatabasesOwned, Owned, BootSave, SendPut, Boot
<1>3. Booted'
  BY DEF AuthStateInv, AuthStateTypeOK, Booted, BootSave, SendPut, Boot
<1>4. RevisionsPast'
  BY DEF AuthStateInv, AuthStateTypeOK, RevisionsPast, BootSave, SendPut, Boot, Snapshots,
     Puts, Nothing
<1>5. RevisionKnowsData'
  BY DEF AuthStateInv, AuthStateTypeOK, RevisionKnowsData, BootSave, SendPut, Boot
<1>6. SaverWaits'
  BY DEF AuthStateInv, AuthStateTypeOK, SaverWaits, Boot, BootSave, SendPut, Boot
<1>7. SentOnce'
  <2> DEFINE put == [by |-> Boot(c), revision |-> revision[c], data |-> store[c]]
  <2>1. Boot(c) \in Boots /\ Boot(c)[1] = c /\ Boot(c)[2] = boots[c] /\ boots[c] \in Nat
    BY BootIsPair DEF BootSave, AuthStateInv, AuthStateTypeOK
  <2>2. ASSUME NEW x, SentBefore(x) PROVE SentBefore(x)'
    BY <2>2 DEF AuthStateInv, AuthStateTypeOK, SentBefore, Unsent, Boots, BootSave
  <2>3. ASSUME NEW x, x.by = Boot(c) PROVE SentBefore(x)'
    BY <2>1, <2>3, NobodySends DEF AuthStateInv, AuthStateTypeOK, SentBefore, Unsent, BootSave
  <2>4. wire' = wire \cup {put} /\ replies' = replies
    BY DEF BootSave, SendPut
  <2> QED
    BY <2>2, <2>3, <2>4 DEF AuthStateInv, SentOnce
<1>8. PutIsStore'
  <2> DEFINE put == [by |-> Boot(c), revision |-> revision[c], data |-> store[c]]
  <2>1. wire' = wire \cup {put} /\ store' = store /\ saving' = [saving EXCEPT ![c] = Boot(c)]
    BY DEF BootSave, SendPut
  <2>2. ASSUME NEW m \in wire, m.by = Boot(c) PROVE FALSE
    BY <2>2, BootNotSent DEF BootSave
  <2>3. ASSUME NEW d \in Containers, saving[d] = Boot(c), d # c PROVE FALSE
    BY <2>3, BootNotAwaited DEF BootSave
  <2>4. put.by \notin Posts
    BY BootIsPair, NobodySends DEF BootSave
  <2> QED
    BY <2>1, <2>2, <2>3, <2>4 DEF AuthStateInv, AuthStateTypeOK, PutIsStore
<1>9. ReplyIsTrue'
  <2>1. replies' = replies /\ store' = store /\ saved' = saved
        /\ saving' = [saving EXCEPT ![c] = Boot(c)]
    BY DEF BootSave, SendPut
  <2>2. ASSUME NEW r \in replies, r.by = Boot(c) PROVE FALSE
    BY <2>2, BootNotSent DEF BootSave
  <2> QED
    BY <2>1, <2>2 DEF AuthStateInv, AuthStateTypeOK, ReplyIsTrue
<1>10. ServesSaved'
  BY DEF AuthStateInv, AuthStateTypeOK, ServesSaved, BootSave, SendPut, Boot
<1>11. AcknowledgedIsDurable'
  BY DEF AuthStateInv, AuthStateTypeOK, AcknowledgedIsDurable, BootSave, SendPut, Boot
<1> QED
  BY <1>1, <1>2, <1>3, <1>4, <1>5, <1>6, <1>7, <1>8, <1>9, <1>10, <1>11 DEF AuthStateInv

LEMMA CommitChangeKeeps ==
    ASSUME AuthStateInv, NEW p \in Posts, NEW c \in Containers, CommitChange(p, c)
    PROVE  AuthStateInv'
<1>1. AuthStateTypeOK'
  BY DEF AuthStateInv, AuthStateTypeOK, Snapshots, Puts, Nothing, Senders, Changes, Boot,
     Phases, CommitChange
<1>2. DatabasesOwned'
  <2>1. PICK b \in Boots : store[c] \cap Boots = {b}
    BY DEF AuthStateInv, DatabasesOwned, Owned, Booted, CommitChange
  <2>2. (store[c] \cup {p}) \cap Boots = {b}
    BY <2>1, NobodySends
  <2>3. Owned(store[c] \cup {p})
    BY <2>2 DEF Owned
  <2>4. \A d \in Containers : store'[d] = store[d] \/ store'[d] = store[c] \cup {p}
    BY DEF AuthStateInv, AuthStateTypeOK, CommitChange
  <2> QED
    BY <2>3, <2>4 DEF AuthStateInv, DatabasesOwned, CommitChange
<1>3. Booted'
  BY DEF AuthStateInv, AuthStateTypeOK, Booted, CommitChange
<1>4. RevisionsPast'
  BY DEF AuthStateInv, AuthStateTypeOK, RevisionsPast, CommitChange, Snapshots, Puts, Nothing
<1>5. RevisionKnowsData'
  BY DEF AuthStateInv, AuthStateTypeOK, RevisionKnowsData, CommitChange
<1>6. SaverWaits'
  BY DEF AuthStateInv, AuthStateTypeOK, SaverWaits, Boot, CommitChange
<1>7. SentOnce'
  BY DEF AuthStateInv, AuthStateTypeOK, SentOnce, SentBefore, Unsent, CommitChange, Puts,
     Senders, Boots, SaverWaits, Boot
<1>8. PutIsStore'
  BY NobodySends DEF AuthStateInv, AuthStateTypeOK, PutIsStore, CommitChange, SaverWaits,
     Senders, Puts, Boot
<1>9. ReplyIsTrue'
  BY NobodySends DEF AuthStateInv, AuthStateTypeOK, ReplyIsTrue, CommitChange, SaverWaits,
     Senders, Boot
<1>10. ServesSaved'
  BY NobodySends DEF AuthStateInv, AuthStateTypeOK, ServesSaved, CommitChange
<1>11. AcknowledgedIsDurable'
  BY DEF AuthStateInv, AuthStateTypeOK, AcknowledgedIsDurable, CommitChange
<1> QED
  BY <1>1, <1>2, <1>3, <1>4, <1>5, <1>6, <1>7, <1>8, <1>9, <1>10, <1>11 DEF AuthStateInv

LEMMA SaveBeforeAnswerKeeps ==
    ASSUME AuthStateInv, NEW p \in Posts, SaveBeforeAnswer(p)
    PROVE  AuthStateInv'
<1>1. AuthStateTypeOK'
  BY DEF AuthStateInv, AuthStateTypeOK, Snapshots, Puts, Nothing, Senders, Changes, Boot,
     Phases, SaveBeforeAnswer, SendPut, SaverWaits
<1>2. DatabasesOwned'
  BY DEF AuthStateInv, AuthStateTypeOK, DatabasesOwned, Owned, SaveBeforeAnswer, SendPut,
     SaverWaits, Puts
<1>3. Booted'
  BY DEF AuthStateInv, AuthStateTypeOK, Booted, SaveBeforeAnswer, SendPut, SaverWaits, Puts
<1>4. RevisionsPast'
  BY DEF AuthStateInv, AuthStateTypeOK, RevisionsPast, SaveBeforeAnswer, SendPut, Snapshots,
     Puts, Nothing, SaverWaits
<1>5. RevisionKnowsData'
  BY DEF AuthStateInv, AuthStateTypeOK, RevisionKnowsData, SaveBeforeAnswer, SendPut,
     SaverWaits, Puts
<1>6. SaverWaits'
  BY DEF AuthStateInv, AuthStateTypeOK, SaverWaits, Boot, SaveBeforeAnswer, SendPut, Puts
<1>7. SentOnce'
  BY NobodySends DEF AuthStateInv, AuthStateTypeOK, SentOnce, SentBefore, Unsent,
     SaveBeforeAnswer, SendPut, Puts, Senders, Boots, SaverWaits, Boot
<1>8. PutIsStore'
  <2> DEFINE put == [by |-> p, revision |-> revision[at[p]], data |-> store[at[p]]]
  <2>1. wire' = wire \cup {put} /\ store' = store /\ saving' = [saving EXCEPT ![at[p]] = p]
    BY DEF SaveBeforeAnswer, SendPut
  <2>2. ASSUME NEW m \in wire, m.by = p PROVE FALSE
    BY <2>2 DEF AuthStateInv, SentOnce, SentBefore, SaveBeforeAnswer
  <2>3. ASSUME NEW d \in Containers, saving[d] = p, d # at[p] PROVE FALSE
    BY <2>3, PostIsNoBoot
  <2>4. at[p] \in Containers /\ p \in store[at[p]]
    BY DEF AuthStateInv, SaverWaits, SaveBeforeAnswer
  <2> QED
    BY <2>1, <2>2, <2>3, <2>4 DEF AuthStateInv, AuthStateTypeOK, PutIsStore
<1>9. ReplyIsTrue'
  <2>1. replies' = replies /\ store' = store /\ saved' = saved
        /\ saving' = [saving EXCEPT ![at[p]] = p]
    BY DEF SaveBeforeAnswer, SendPut
  <2>2. ASSUME NEW r \in replies, r.by = p PROVE FALSE
    BY <2>2 DEF AuthStateInv, SentOnce, SentBefore, SaveBeforeAnswer
  <2> QED
    BY <2>1, <2>2 DEF AuthStateInv, AuthStateTypeOK, ReplyIsTrue
<1>10. ServesSaved'
  BY DEF AuthStateInv, AuthStateTypeOK, ServesSaved, SaveBeforeAnswer, SendPut, SaverWaits,
     Puts
<1>11. AcknowledgedIsDurable'
  BY DEF AuthStateInv, AuthStateTypeOK, AcknowledgedIsDurable, SaveBeforeAnswer, SendPut,
     SaverWaits, Puts
<1> QED
  BY <1>1, <1>2, <1>3, <1>4, <1>5, <1>6, <1>7, <1>8, <1>9, <1>10, <1>11 DEF AuthStateInv

LEMMA SnapshotTooLargeKeeps ==
    ASSUME AuthStateInv, NEW p \in Posts, SnapshotTooLarge(p)
    PROVE  AuthStateInv'
<1>1. AuthStateTypeOK'
  BY DEF AuthStateInv, AuthStateTypeOK, Snapshots, Puts, Nothing, Senders, Changes, Boot,
     Phases, SnapshotTooLarge
<1>2. DatabasesOwned'
  BY DEF AuthStateInv, AuthStateTypeOK, DatabasesOwned, Owned, SnapshotTooLarge
<1>3. Booted'
  BY DEF AuthStateInv, AuthStateTypeOK, Booted, SnapshotTooLarge
<1>4. RevisionsPast'
  BY DEF AuthStateInv, AuthStateTypeOK, RevisionsPast, SnapshotTooLarge, Snapshots, Puts,
     Nothing
<1>5. RevisionKnowsData'
  BY DEF AuthStateInv, AuthStateTypeOK, RevisionKnowsData, SnapshotTooLarge
<1>6. SaverWaits'
  BY DEF AuthStateInv, AuthStateTypeOK, SaverWaits, Boot, SnapshotTooLarge
<1>7. SentOnce'
  BY DEF AuthStateInv, AuthStateTypeOK, SentOnce, SentBefore, Unsent, SnapshotTooLarge, Puts,
     Senders, Boots, SaverWaits, Boot
<1>8. PutIsStore'
  BY DEF AuthStateInv, AuthStateTypeOK, PutIsStore, SnapshotTooLarge, SaverWaits, Senders,
     Puts, Boot
<1>9. ReplyIsTrue'
  BY DEF AuthStateInv, AuthStateTypeOK, ReplyIsTrue, SnapshotTooLarge, SaverWaits, Senders,
     Boot
<1>10. ServesSaved'
  BY DEF AuthStateInv, AuthStateTypeOK, ServesSaved, SnapshotTooLarge
<1>11. AcknowledgedIsDurable'
  BY DEF AuthStateInv, AuthStateTypeOK, AcknowledgedIsDurable, SnapshotTooLarge
<1> QED
  BY <1>1, <1>2, <1>3, <1>4, <1>5, <1>6, <1>7, <1>8, <1>9, <1>10, <1>11 DEF AuthStateInv

LEMMA DeliverPutKeeps ==
    ASSUME AuthStateInv, NEW m \in wire, DeliverPut(m)
    PROVE  AuthStateInv'
<1>1. AuthStateTypeOK'
  BY DEF AuthStateInv, AuthStateTypeOK, Snapshots, Puts, Nothing, Senders, Changes, Boot,
     Phases, DeliverPut, Accepts
<1>2. DatabasesOwned'
  <2>1. saved' = saved \/ saved'.data = m.data
    BY DEF DeliverPut
  <2> QED
    BY <2>1 DEF AuthStateInv, DatabasesOwned, Owned, DeliverPut
<1>3. Booted'
  BY DEF AuthStateInv, AuthStateTypeOK, Booted, DeliverPut, Accepts
<1>4. RevisionsPast'
  BY DEF AuthStateInv, AuthStateTypeOK, RevisionsPast, DeliverPut, Accepts, Puts, Snapshots,
     Nothing
<1>5. RevisionKnowsData'
  BY DEF AuthStateInv, AuthStateTypeOK, RevisionKnowsData, DeliverPut, Accepts, Puts,
     Snapshots, RevisionsPast
<1>6. SaverWaits'
  BY DEF AuthStateInv, AuthStateTypeOK, SaverWaits, Boot, DeliverPut, Accepts
<1>7. SentOnce'
  BY DEF AuthStateInv, AuthStateTypeOK, SentOnce, SentBefore, Unsent, DeliverPut, Accepts,
     Snapshots, Puts, Senders, Boots, SaverWaits, Boot
<1>8. PutIsStore'
  BY DEF AuthStateInv, AuthStateTypeOK, PutIsStore, DeliverPut, Accepts, SaverWaits, Senders,
     Puts, Boot
<1>9. ReplyIsTrue'
  <2>1. CASE ~Accepts(m)
    <3>1. saved' = saved /\ replies' = replies \cup {[by |-> m.by, revision |-> 0]}
      BY <2>1 DEF DeliverPut
    <3> QED
      BY <3>1 DEF AuthStateInv, ReplyIsTrue, DeliverPut
  <2>2. CASE Accepts(m)
    <3> DEFINE reply == [by |-> m.by, revision |-> saved.revision + 1]
    <3>1. saved'.data = m.data /\ saved'.revision = saved.revision + 1
          /\ replies' = replies \cup {reply}
      BY <2>2 DEF DeliverPut
    <3>2. saved.revision \in Nat /\ saved.data \subseteq m.data
      BY <2>2 DEF AuthStateInv, AuthStateTypeOK, Snapshots, RevisionKnowsData, Accepts
    <3>3. \A r \in replies : r.revision # saved'.revision /\ r.revision \in Nat
      BY <3>1, <3>2 DEF AuthStateInv, AuthStateTypeOK, RevisionsPast
    <3>4. m.by \in Posts => m.by \in m.data
      BY DEF AuthStateInv, PutIsStore
    <3>5. \A d \in Containers : saving[d] = m.by => store[d] = m.data
      BY DEF AuthStateInv, PutIsStore
    <3>6. saving' = saving /\ store' = store
      BY DEF DeliverPut
    <3> QED
      BY <3>1, <3>2, <3>3, <3>4, <3>5, <3>6 DEF AuthStateInv, ReplyIsTrue
  <2> QED
    BY <2>1, <2>2
<1>10. ServesSaved'
  BY DEF AuthStateInv, AuthStateTypeOK, ServesSaved, DeliverPut, Accepts, Puts, Snapshots,
     RevisionKnowsData
<1>11. AcknowledgedIsDurable'
  BY DEF AuthStateInv, AuthStateTypeOK, AcknowledgedIsDurable, DeliverPut, Accepts, Puts,
     Snapshots, RevisionKnowsData
<1> QED
  BY <1>1, <1>2, <1>3, <1>4, <1>5, <1>6, <1>7, <1>8, <1>9, <1>10, <1>11 DEF AuthStateInv

LEMMA ReceiveReplyKeeps ==
    ASSUME AuthStateInv, NEW c \in Containers, ReceiveReply(c)
    PROVE  AuthStateInv'
<1>1. AuthStateTypeOK'
  <2>1. PICK r \in replies : saving[c] = r.by /\ Concluded(c, r.by, r.revision # 0)
        /\ replies' = replies \ {r}
        /\ revision' = IF r.revision # 0 THEN [revision EXCEPT ![c] = r.revision] ELSE revision
    BY DEF ReceiveReply
  <2>2. r.revision \in Nat
    BY DEF AuthStateInv, AuthStateTypeOK
  <2>3. saving' \in [Containers -> Senders \cup {NoPost}] /\ phase' \in [Containers -> Phases]
        /\ post' \in [Posts -> {"new", "changed", "saving", "acknowledged", "refused", "dropped"}]
    BY ConcludedType, <2>1 DEF AuthStateInv
  <2>4. revision' \in [Containers -> Nat]
    BY <2>1, <2>2 DEF AuthStateInv, AuthStateTypeOK
  <2> QED
    BY <2>1, <2>3, <2>4 DEF AuthStateInv, AuthStateTypeOK, ReceiveReply
<1>2. DatabasesOwned'
  BY DEF AuthStateInv, DatabasesOwned, ReceiveReply
<1>3. Booted'
  BY NobodySends DEF AuthStateInv, AuthStateTypeOK, Booted, ReceiveReply, Concluded,
     SaverWaits, ReplyIsTrue, Boot, Senders
<1>4. RevisionsPast'
  BY DEF AuthStateInv, AuthStateTypeOK, RevisionsPast, ReceiveReply, Concluded, Snapshots,
     Puts, Nothing, SaverWaits, ReplyIsTrue, Boot, Senders
<1>5. RevisionKnowsData'
  BY DEF AuthStateInv, AuthStateTypeOK, RevisionKnowsData, ReceiveReply, Concluded,
     SaverWaits, ReplyIsTrue, Boot, Senders
<1>6. SaverWaits'
  <2>1. PICK r \in replies : saving[c] = r.by /\ Concluded(c, r.by, r.revision # 0)
    BY DEF ReceiveReply
  <2>2. saving[c] # NoPost
    BY <2>1, NobodySends DEF AuthStateInv, AuthStateTypeOK
  <2> QED
    BY <2>1, <2>2, ConcludedWaits DEF ReceiveReply
<1>7. SentOnce'
  BY DEF AuthStateInv, AuthStateTypeOK, SentOnce, SentBefore, Unsent, ReceiveReply, Concluded,
     Puts, Senders, Boots, SaverWaits, Boot, ReplyIsTrue
<1>8. PutIsStore'
  BY NobodySends DEF AuthStateInv, AuthStateTypeOK, PutIsStore, ReceiveReply, Concluded,
     SaverWaits, Senders, Puts, Boot, ReplyIsTrue
<1>9. ReplyIsTrue'
  BY NobodySends DEF AuthStateInv, AuthStateTypeOK, ReplyIsTrue, ReceiveReply, Concluded,
     SaverWaits, Senders, Boot
<1>10. ServesSaved'
  BY DEF AuthStateInv, AuthStateTypeOK, ServesSaved, ReceiveReply, Concluded, SaverWaits,
     ReplyIsTrue, Boot, Senders
<1>11. AcknowledgedIsDurable'
  BY DEF AuthStateInv, AuthStateTypeOK, AcknowledgedIsDurable, ReceiveReply, Concluded,
     SaverWaits, ReplyIsTrue, Boot, Senders
<1> QED
  BY <1>1, <1>2, <1>3, <1>4, <1>5, <1>6, <1>7, <1>8, <1>9, <1>10, <1>11 DEF AuthStateInv

LEMMA TimeoutKeeps ==
    ASSUME AuthStateInv, NEW c \in Containers, Timeout(c)
    PROVE  AuthStateInv'
<1>1. AuthStateTypeOK'
  <2>1. saving' \in [Containers -> Senders \cup {NoPost}] /\ phase' \in [Containers -> Phases]
        /\ post' \in [Posts -> {"new", "changed", "saving", "acknowledged", "refused", "dropped"}]
    BY ConcludedType DEF AuthStateInv, Timeout
  <2> QED
    BY <2>1 DEF AuthStateInv, AuthStateTypeOK, Timeout
<1>2. DatabasesOwned'
  BY DEF AuthStateInv, AuthStateTypeOK, DatabasesOwned, Owned, Timeout, Concluded, SaverWaits,
     Boot, Senders
<1>3. Booted'
  BY DEF AuthStateInv, AuthStateTypeOK, Booted, Timeout, Concluded, SaverWaits, Boot, Senders
<1>4. RevisionsPast'
  BY DEF AuthStateInv, AuthStateTypeOK, RevisionsPast, Timeout, Concluded, Snapshots, Puts,
     Nothing, SaverWaits, Boot, Senders
<1>5. RevisionKnowsData'
  BY DEF AuthStateInv, AuthStateTypeOK, RevisionKnowsData, Timeout, Concluded, SaverWaits,
     Boot, Senders
<1>6. SaverWaits'
  BY ConcludedWaits DEF AuthStateInv, Timeout
<1>7. SentOnce'
  BY DEF AuthStateInv, AuthStateTypeOK, SentOnce, SentBefore, Unsent, Timeout, Concluded,
     Puts, Senders, Boots, SaverWaits, Boot
<1>8. PutIsStore'
  BY NobodySends DEF AuthStateInv, AuthStateTypeOK, PutIsStore, Timeout, Concluded,
     SaverWaits, Senders, Puts, Boot
<1>9. ReplyIsTrue'
  BY NobodySends DEF AuthStateInv, AuthStateTypeOK, ReplyIsTrue, Timeout, Concluded,
     SaverWaits, Senders, Boot
<1>10. ServesSaved'
  BY DEF AuthStateInv, AuthStateTypeOK, ServesSaved, Timeout, Concluded, SaverWaits, Boot,
     Senders
<1>11. AcknowledgedIsDurable'
  BY DEF AuthStateInv, AuthStateTypeOK, AcknowledgedIsDurable, Timeout, Concluded, SaverWaits,
     Boot, Senders
<1> QED
  BY <1>1, <1>2, <1>3, <1>4, <1>5, <1>6, <1>7, <1>8, <1>9, <1>10, <1>11 DEF AuthStateInv

LEMMA StopContainerKeeps ==
    ASSUME AuthStateInv, NEW c \in Containers, StopContainer(c)
    PROVE  AuthStateInv'
<1>1. AuthStateTypeOK'
  BY DEF AuthStateInv, AuthStateTypeOK, Snapshots, Puts, Nothing, Senders, Changes, Boot,
     Phases, StopContainer, Nothing
<1>2. DatabasesOwned'
  BY DEF AuthStateInv, AuthStateTypeOK, DatabasesOwned, Owned, StopContainer, Nothing
<1>3. Booted'
  BY DEF AuthStateInv, AuthStateTypeOK, Booted, StopContainer, Nothing
<1>4. RevisionsPast'
  BY DEF AuthStateInv, AuthStateTypeOK, RevisionsPast, StopContainer, Nothing, Snapshots, Puts
<1>5. RevisionKnowsData'
  BY DEF AuthStateInv, AuthStateTypeOK, RevisionKnowsData, StopContainer, Nothing, Snapshots,
     RevisionsPast
<1>6. SaverWaits'
  BY DEF AuthStateInv, AuthStateTypeOK, SaverWaits, Boot, StopContainer, Nothing
<1>7. SentOnce'
  BY DEF AuthStateInv, AuthStateTypeOK, SentOnce, SentBefore, Unsent, StopContainer, Nothing,
     Puts, Senders, Boots, SaverWaits, Boot
<1>8. PutIsStore'
  BY NobodySends DEF AuthStateInv, AuthStateTypeOK, PutIsStore, StopContainer, Nothing,
     SaverWaits, Senders, Puts, Boot
<1>9. ReplyIsTrue'
  BY NobodySends DEF AuthStateInv, AuthStateTypeOK, ReplyIsTrue, StopContainer, Nothing,
     SaverWaits, Senders, Boot
<1>10. ServesSaved'
  BY DEF AuthStateInv, AuthStateTypeOK, ServesSaved, StopContainer, Nothing
<1>11. AcknowledgedIsDurable'
  BY DEF AuthStateInv, AuthStateTypeOK, AcknowledgedIsDurable, StopContainer, Nothing
<1> QED
  BY <1>1, <1>2, <1>3, <1>4, <1>5, <1>6, <1>7, <1>8, <1>9, <1>10, <1>11 DEF AuthStateInv

-----------------------------------------------------------------------------
(* The theorems. *)

LEMMA StutterKeeps == AuthStateInv /\ UNCHANGED authStateVars => AuthStateInv'
BY DEF authStateVars, AuthStateInv, AuthStateTypeOK, DatabasesOwned, Booted, RevisionsPast,
   RevisionKnowsData, SaverWaits, Boot, SentOnce, SentBefore, PutIsStore, ReplyIsTrue,
   ServesSaved, AcknowledgedIsDurable

LEMMA NextKeeps == AuthStateInv /\ [AuthStateNext]_authStateVars => AuthStateInv'
<1> SUFFICES ASSUME AuthStateInv, [AuthStateNext]_authStateVars
             PROVE  AuthStateInv'
  OBVIOUS
<1>1. ASSUME NEW c \in Containers,
             \/ Fetch(c) \/ InstallSnapshot(c) \/ BootstrapOwner(c) \/ StartFails(c)
             \/ BootSave(c) \/ ReceiveReply(c) \/ Timeout(c) \/ StopContainer(c)
      PROVE  AuthStateInv'
  BY <1>1, FetchKeeps, InstallSnapshotKeeps, BootstrapOwnerKeeps, StartFailsKeeps,
     BootSaveKeeps, ReceiveReplyKeeps, TimeoutKeeps, StopContainerKeeps
<1>2. ASSUME NEW p \in Posts, (\E c \in Containers : CommitChange(p, c))
                              \/ SaveBeforeAnswer(p) \/ SnapshotTooLarge(p)
      PROVE  AuthStateInv'
  BY <1>2, CommitChangeKeeps, SaveBeforeAnswerKeeps, SnapshotTooLargeKeeps
<1>3. ASSUME NEW m \in wire, DeliverPut(m)
      PROVE  AuthStateInv'
  BY <1>3, DeliverPutKeeps
<1>4. CASE UNCHANGED authStateVars
  BY <1>4, StutterKeeps
<1> QED
  BY <1>1, <1>2, <1>3, <1>4 DEF AuthStateNext

\* The types and everything the snapshot's story rests on hold in every state
\* (auth_state.py, the boot and the POST handlers of server.py, cloudflare.ts).
THEOREM AuthStateCorrect == AuthStateSpec => []AuthStateInv
<1> QED
  BY InitInv, NextKeeps, PTL DEF AuthStateSpec

\* No acknowledged POST is ever missing from the Durable Object's snapshot (_json after save).
THEOREM AcknowledgedIsDurableCorrect == AuthStateSpec => []AcknowledgedIsDurable
<1>1. AuthStateInv => AcknowledgedIsDurable
  BY DEF AuthStateInv
<1> QED
  BY <1>1, AuthStateCorrect, PTL

LEMMA OwnedOnce ==
    ASSUME NEW data, Owned(data)
    PROVE  Cardinality(data \cap Boots) <= 1
<1>1. CASE data = {}
  BY <1>1, FS_EmptySet
<1>2. ASSUME NEW b \in Boots, data \cap Boots = {b}
      PROVE  Cardinality(data \cap Boots) <= 1
  <2>1. Cardinality({b}) = 1
    BY FS_Singleton
  <2> QED
    BY <1>2, <2>1
<1> QED
  BY <1>1, <1>2 DEF Owned

LEMMA InvOneOwner == AuthStateInv => OneOwner
<1> SUFFICES ASSUME AuthStateInv
             PROVE  OneOwner
  OBVIOUS
<1>1. Cardinality(saved.data \cap Boots) <= 1
  BY OwnedOnce DEF AuthStateInv, DatabasesOwned
<1>2. ASSUME NEW c \in Containers, phase[c] = "serving"
      PROVE  saved.data \cap Boots = store[c] \cap Boots /\ saved.data \cap Boots # {}
  <2>1. PICK b \in Boots : store[c] \cap Boots = {b}
    BY <1>2 DEF AuthStateInv, DatabasesOwned, Owned, Booted
  <2>2. b \in saved.data
    BY <1>2, <2>1 DEF AuthStateInv, ServesSaved
  <2>3. PICK a \in Boots : saved.data \cap Boots = {a}
    BY <2>2 DEF AuthStateInv, DatabasesOwned, Owned
  <2> QED
    BY <2>1, <2>2, <2>3
<1> QED
  BY <1>1, <1>2 DEF OneOwner

\* The accounts have one origin, which every serving container knows (bootstrap_owner).
THEOREM OneOwnerCorrect == AuthStateSpec => []OneOwner
BY AuthStateCorrect, InvOneOwner, PTL

LEMMA StepGrows ==
    ASSUME AuthStateInv, [AuthStateNext]_authStateVars
    PROVE  saved' = saved \/ saved.data \subseteq saved'.data
<1>1. ASSUME NEW m \in wire, DeliverPut(m)
      PROVE  saved' = saved \/ saved.data \subseteq saved'.data
  BY <1>1 DEF AuthStateInv, RevisionKnowsData, DeliverPut, Accepts
<1> QED
  BY <1>1 DEF AuthStateNext, authStateVars, Fetch, InstallSnapshot, BootstrapOwner,
     StartFails, BootSave, ReceiveReply, Timeout, StopContainer, CommitChange,
     SaveBeforeAnswer, SnapshotTooLarge

\* No accepted write undoes another: If-Match lets only a snapshot through that has all of
\* the saved one's changes.
THEOREM SnapshotOnlyGrowsCorrect == AuthStateSpec => SnapshotOnlyGrows
<1>1. AuthStateInv /\ [AuthStateNext]_authStateVars => [saved.data \subseteq saved'.data]_saved
  BY StepGrows
<1> QED
  BY <1>1, AuthStateCorrect, PTL DEF AuthStateSpec, SnapshotOnlyGrows

=============================================================================
