------------------------------ MODULE AuthState ------------------------------
(***************************************************************************)
(* AuthState (tankai/web/auth_state.py), the boot of the web server and    *)
(* its POST handlers (tankai/web/server.py), against the Durable Object    *)
(* that keeps the snapshot (src/cloudflare.ts).                            *)
(*                                                                         *)
(* A container's disk is lost with it: accounts live in one snapshot that  *)
(* a container reads when it boots and writes back, whole, before it       *)
(* answers any POST.  The object takes a write only if If-Match names its  *)
(* revision.  A request or a reply may be late, and so late that nobody    *)
(* waits for it: one that is lost is one that is never delivered.  A       *)
(* deployment may have two containers alive at once.                       *)
(*                                                                         *)
(* A database is the set of the changes that made it: one per POST, and    *)
(* one for the owner that a container puts into an empty database.         *)
(***************************************************************************)
EXTENDS Naturals, FiniteSets

CONSTANTS Containers,
          NoContainer,
          Posts,         \* the POST requests, each with the change it makes
          NoPost,
          MaxSnapshot,   \* MAX_SNAPSHOT, counted in changes
          MaxBoots       \* bound on the boots of a container

Boots == Containers \X (1..MaxBoots)

ASSUME AuthStateAssumption ==
    /\ NoPost \notin Posts /\ NoContainer \notin Containers
    /\ (Posts \cup {NoPost}) \cap Boots = {}
    /\ MaxSnapshot \in Nat
    /\ MaxBoots \in Nat

VARIABLES saved,         \* the Durable Object: its revision (0: no snapshot) and the snapshot
          phase,         \* how far each container is
          boots,         \* how often it has booted
          answer,        \* restore: the reply to its GET
          store,         \* its auth.db
          revision,      \* AuthState.revision
          saving,        \* the save that holds AuthState.lock and AuthStore._lock
          wire,          \* the PUTs on their way to the object
          replies,       \* the object's replies on their way back
          post,          \* what has become of each POST
          at             \* the container that serves it

authStateVars == <<saved, phase, boots, answer, store, revision, saving, wire, replies, post, at>>

Senders == Posts \cup Boots          \* a save is made by a POST or by a boot
Changes == Posts \cup Boots          \* a boot's change is the owner it creates
Snapshots == [revision : Nat, data : SUBSET Changes]
Nothing == [revision |-> 0, data |-> {}]

\* The PUTs of save, each tagged with who waits for its reply.
Puts == [by : Senders, revision : Nat, data : SUBSET Changes]

Boot(c) == <<c, boots[c]>>

AuthStateInit ==
    /\ saved = Nothing
    /\ phase = [c \in Containers |-> "down"]
    /\ boots = [c \in Containers |-> 0]
    /\ answer = [c \in Containers |-> Nothing]
    /\ store = [c \in Containers |-> {}]
    /\ revision = [c \in Containers |-> 0]
    /\ saving = [c \in Containers |-> NoPost]
    /\ wire = {}
    /\ replies = {}
    /\ post = [p \in Posts |-> "new"]
    /\ at = [p \in Posts |-> NoContainer]

(***************************************************************************)
(* Booting: restore, bootstrap_owner, and a save that must succeed.        *)
(***************************************************************************)

\* restore: the GET.  The container keeps whatever its disk still has.
Fetch(c) ==
    /\ phase[c] = "down" /\ boots[c] < MaxBoots
    /\ boots' = [boots EXCEPT ![c] = @ + 1]
    /\ answer' = [answer EXCEPT ![c] = saved]
    /\ phase' = [phase EXCEPT ![c] = "fetched"]
    /\ UNCHANGED <<saved, store, revision, saving, wire, replies, post, at>>

\* restore: a snapshot replaces the database; with 404 nothing changes.
InstallSnapshot(c) ==
    /\ phase[c] = "fetched"
    /\ IF answer[c] = Nothing
       THEN UNCHANGED <<store, revision>>
       ELSE /\ store' = [store EXCEPT ![c] = answer[c].data]
            /\ revision' = [revision EXCEPT ![c] = answer[c].revision]
    /\ phase' = [phase EXCEPT ![c] = "restored"]
    /\ answer' = [answer EXCEPT ![c] = Nothing]
    /\ UNCHANGED <<saved, boots, saving, wire, replies, post, at>>

\* bootstrap_owner: only in a database without a user.
BootstrapOwner(c) ==
    /\ phase[c] = "restored"
    /\ store' = [store EXCEPT ![c] = IF @ = {} THEN {Boot(c)} ELSE @]
    /\ phase' = [phase EXCEPT ![c] = "bootstrapped"]
    /\ UNCHANGED <<saved, boots, answer, revision, saving, wire, replies, post, at>>

\* main: whatever raises during the start leaves a server that answers 503 only.
StartFails(c) ==
    /\ \/ phase[c] \in {"fetched", "restored"}
       \/ phase[c] = "bootstrapped" /\ Cardinality(store[c]) > MaxSnapshot
    /\ phase' = [phase EXCEPT ![c] = "diagnostic"]
    /\ UNCHANGED <<saved, boots, answer, store, revision, saving, wire, replies, post, at>>

(***************************************************************************)
(* AuthState.save holds AuthStore._lock from the backup of the database to *)
(* the reply: no change is committed in between.                           *)
(***************************************************************************)
SendPut(c, by) ==
    /\ saving[c] = NoPost
    /\ Cardinality(store[c]) <= MaxSnapshot
    /\ wire' = wire \cup {[by |-> by, revision |-> revision[c], data |-> store[c]]}
    /\ saving' = [saving EXCEPT ![c] = by]

BootSave(c) ==
    /\ phase[c] = "bootstrapped"
    /\ SendPut(c, Boot(c))
    /\ phase' = [phase EXCEPT ![c] = "booting"]
    /\ UNCHANGED <<saved, boots, answer, store, revision, replies, post, at>>

\* A POST handler commits its change, in one of AuthStore's transactions.
CommitChange(p, c) ==
    /\ post[p] = "new"
    /\ phase[c] = "serving" /\ saving[c] = NoPost
    /\ at' = [at EXCEPT ![p] = c]
    /\ store' = [store EXCEPT ![c] = @ \cup {p}]
    /\ post' = [post EXCEPT ![p] = "changed"]
    /\ UNCHANGED <<saved, phase, boots, answer, revision, saving, wire, replies>>

\* _json of a POST: the database is saved before the answer is sent.
SaveBeforeAnswer(p) ==
    /\ post[p] = "changed"
    /\ SendPut(at[p], p)
    /\ post' = [post EXCEPT ![p] = "saving"]
    /\ UNCHANGED <<saved, phase, boots, answer, store, revision, replies, at>>

\* save: the snapshot is too large, and the answer becomes 503.
SnapshotTooLarge(p) ==
    /\ post[p] = "changed"
    /\ saving[at[p]] = NoPost /\ Cardinality(store[at[p]]) > MaxSnapshot
    /\ post' = [post EXCEPT ![p] = "refused"]
    /\ UNCHANGED <<saved, phase, boots, answer, store, revision, saving, wire, replies, at>>

\* Mutation: the object takes any write that is not older than its snapshot's predecessor.
AcceptsStale(m) == m.revision + 1 >= saved.revision

\* TankAIAuthState.fetch: If-Match, else 409.
Accepts(m) == m.revision = saved.revision

DeliverPut(m) ==
    /\ wire' = wire \ {m}
    /\ IF Accepts(m)
       THEN /\ saved' = [revision |-> saved.revision + 1, data |-> m.data]
            /\ replies' = replies \cup {[by |-> m.by, revision |-> saved'.revision]}
       ELSE /\ replies' = replies \cup {[by |-> m.by, revision |-> 0]}
            /\ UNCHANGED saved
    /\ UNCHANGED <<phase, boots, answer, store, revision, saving, post, at>>

\* How the save of c ends for whoever made it: main starts to serve, or _json answers.
Concluded(c, by, good) ==
    /\ saving' = [saving EXCEPT ![c] = NoPost]
    /\ IF by \in Posts
       THEN /\ post' = [post EXCEPT ![by] = IF good THEN "acknowledged" ELSE "refused"]
            /\ UNCHANGED phase
       ELSE /\ phase' = [phase EXCEPT ![c] = IF good THEN "serving" ELSE "diagnostic"]
            /\ UNCHANGED post

ReceiveReply(c) ==
    \E r \in replies :
        /\ saving[c] = r.by
        /\ replies' = replies \ {r}
        /\ revision' = IF r.revision # 0 THEN [revision EXCEPT ![c] = r.revision] ELSE revision
        /\ Concluded(c, r.by, r.revision # 0)
        /\ UNCHANGED <<saved, boots, answer, store, wire, at>>

\* The request, or its reply, takes too long.  It may still arrive.
Timeout(c) ==
    /\ saving[c] # NoPost
    /\ Concluded(c, saving[c], FALSE)
    /\ UNCHANGED <<saved, boots, answer, store, revision, wire, replies, at>>

\* The container stops, with its disk or without; what it has sent is still on its way.
StopContainer(c) ==
    /\ phase[c] # "down"
    /\ phase' = [phase EXCEPT ![c] = "down"]
    /\ \E disk \in {store[c], {}} : store' = [store EXCEPT ![c] = disk]
    /\ revision' = [revision EXCEPT ![c] = 0]
    /\ saving' = [saving EXCEPT ![c] = NoPost]
    /\ answer' = [answer EXCEPT ![c] = Nothing]
    /\ post' = [p \in Posts |-> IF at[p] = c /\ post[p] \in {"changed", "saving"}
                                THEN "dropped" ELSE post[p]]
    /\ UNCHANGED <<saved, boots, wire, replies, at>>

AuthStateNext ==
    \/ \E c \in Containers :
          \/ Fetch(c) \/ InstallSnapshot(c) \/ BootstrapOwner(c) \/ StartFails(c)
          \/ BootSave(c) \/ ReceiveReply(c) \/ Timeout(c) \/ StopContainer(c)
    \/ \E p \in Posts : \/ \E c \in Containers : CommitChange(p, c)
                        \/ SaveBeforeAnswer(p) \/ SnapshotTooLarge(p)
    \/ \E m \in wire : DeliverPut(m)

AuthStateSpec == AuthStateInit /\ [][AuthStateNext]_authStateVars

-----------------------------------------------------------------------------
Phases == {"down", "fetched", "restored", "bootstrapped", "booting", "serving", "diagnostic"}

AuthStateTypeOK ==
    /\ saved \in Snapshots
    /\ phase \in [Containers -> Phases]
    /\ boots \in [Containers -> 0..MaxBoots]
    /\ answer \in [Containers -> Snapshots]
    /\ store \in [Containers -> SUBSET Changes]
    /\ revision \in [Containers -> Nat]
    /\ saving \in [Containers -> Senders \cup {NoPost}]
    /\ wire \subseteq Puts
    /\ replies \subseteq [by : Senders, revision : Nat]
    /\ post \in [Posts -> {"new", "changed", "saving", "acknowledged", "refused", "dropped"}]
    /\ at \in [Posts -> Containers \cup {NoContainer}]

\* A POST that was answered as done is in the Durable Object's snapshot from then on,
\* whatever container crashes, loses its disk, is replaced while its own write is still on
\* its way, or times out waiting for the reply: _json answers only after save.
AcknowledgedIsDurable ==
    \A p \in Posts : post[p] = "acknowledged" => p \in saved.data

\* No write undoes another: a container whose revision is the object's has all of the
\* object's changes, so If-Match lets only a snapshot through that extends the saved one.
SnapshotOnlyGrows ==
    [][saved.data \subseteq saved'.data]_saved

\* Two containers that boot on an empty object, or one that boots again after its first save
\* got lost, do not both become the origin of the accounts: one owner is ever bootstrapped
\* into the snapshot, and a container serves only from a database that came with it.
OneOwner ==
    /\ Cardinality(saved.data \cap Boots) <= 1
    /\ \A c \in Containers : phase[c] = "serving" =>
           saved.data \cap Boots = store[c] \cap Boots /\ saved.data \cap Boots # {}
=============================================================================
