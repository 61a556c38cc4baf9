---------------------------- MODULE StorageProofs ----------------------------
(***************************************************************************)
(* Proof, for every number of calls, servers, builds, entries and writes,  *)
(* that what is kept on disk, and what is said to be kept, is so: the yarn *)
(* marker (TinyFiles), the damaged database (CacheDatabase), the workspace *)
(* contexts (ContextCache), the deletions of the inventory                 *)
(* (CacheInventory). And that the invariants of ArtifactProofs and of      *)
(* WorkspaceProofs hold in the specification that composes their parts.    *)
(***************************************************************************)
EXTENDS MCResolution, ArtifactProofs, WorkspaceProofs, FiniteSetTheorems, SequenceTheorems, TLAPS

-----------------------------------------------------------------------------
(* Where a call of resolveTinyMappingFile may be. *)
ResolverStates ==
    [pc : {"ready", "asking", "trying", "marking", "done"}, seen : Nat, left : Seq(Nat),
     chosen : Nat, answer : Int]
IsResolver(state) ==
    state \in ResolverStates /\ (state.pc = "trying" => state.left # <<>>)

ResolverTyped ==
    /\ tinies \subseteq Nat /\ pruned \subseteq Nat /\ yarnMarker \in Nat /\ published \in Nat
    /\ resolver \in [Resolvers -> ResolverStates]
    /\ \A r \in Resolvers : IsResolver(resolver[r])

(* Who is about to write the marker has seen the file of its build in the directory. *)
MarkersBacked ==
    \A r \in Resolvers : resolver[r].pc = "marking" => resolver[r].chosen \in tinies \cup pruned

(* The invariant of the tiny files. *)
TinyInv == ResolverTyped /\ MarkersBacked /\ MarkerBacked

(* A call that goes on and is not about to write the marker, *)
LEMMA ResolverMoves ==
  ASSUME TinyInv, NEW r \in Resolvers, NEW state, IsResolver(state), state.pc # "marking",
         resolver' = [resolver EXCEPT ![r] = state], UNCHANGED <<published, tinies, pruned>>,
         yarnMarker' \in {0, yarnMarker} \/ yarnMarker' \in tinies \cup pruned
  PROVE  TinyInv'
<1>1. ResolverTyped'
  <2>1. state \in ResolverStates /\ yarnMarker' \in Nat
    <3>1. 0 \in Nat /\ yarnMarker \in Nat /\ tinies \subseteq Nat /\ pruned \subseteq Nat
      BY DEF TinyInv, ResolverTyped
    <3> QED
      BY <3>1 DEF IsResolver
  <2>2. resolver' \in [Resolvers -> ResolverStates]
    BY <2>1 DEF TinyInv, ResolverTyped
  <2>3. \A q \in Resolvers : IsResolver(resolver'[q])
    BY DEF TinyInv, ResolverTyped
  <2> QED
    BY <2>1, <2>2, <2>3 DEF TinyInv, ResolverTyped, IsResolver
<1>2. MarkersBacked' /\ MarkerBacked'
  BY DEF TinyInv, ResolverTyped, MarkersBacked, MarkerBacked
<1> QED
  BY <1>1, <1>2 DEF TinyInv

(* what it has read, *)
LEMMA ReadMarkerKeeps ==
  ASSUME TinyInv, NEW r \in Resolvers, ReadMarker(r)
  PROVE  TinyInv'
<1>1. UNCHANGED <<published, tinies, pruned, yarnMarker>> /\ yarnMarker \in Nat
  BY DEF ReadMarker, Directory, TinyInv, ResolverTyped
<1> DEFINE keeps == Serves(yarnMarker)
           asks == ResolverAt("asking", yarnMarker, 0)
<1>2. resolver' = [resolver EXCEPT ![r] = keeps] \/ resolver' = [resolver EXCEPT ![r] = asks]
  BY DEF ReadMarker, Move
<1>3. IsResolver(keeps) /\ IsResolver(asks) /\ keeps.pc = "done" /\ asks.pc = "asking"
  <2>1. /\ keeps = [pc |-> "done", seen |-> 0, left |-> <<>>, chosen |-> 0, answer |-> yarnMarker]
        /\ asks = [pc |-> "asking", seen |-> yarnMarker, left |-> <<>>, chosen |-> 0, answer |-> 0]
    BY DEF Serves, ResolverAt
  <2> HIDE DEF keeps, asks
  <2> QED
    BY <1>1, <2>1 DEF IsResolver, ResolverStates
<1> HIDE DEF keeps, asks
<1> QED
  BY <1>1, <1>2, <1>3, ResolverMoves

(* the builds it is told of, *)
LEMMA AskMetadataKeeps ==
  ASSUME TinyInv, NEW r \in Resolvers, AskMetadata(r)
  PROVE  TinyInv'
<1>1. /\ UNCHANGED <<published, tinies, pruned, yarnMarker>>
      /\ published \in Nat /\ resolver[r] \in ResolverStates /\ IsResolver(resolver[r])
      /\ resolver[r].pc = "asking" /\ resolver[r].seen \in Nat
  BY DEF AskMetadata, Directory, TinyInv, ResolverTyped, ResolverStates
<1> DEFINE offers == [i \in 1 .. (IF published < 3 THEN published ELSE 3) |-> published - i + 1]
           tries == [resolver[r] EXCEPT !.pc = "trying", !.left = offers]
           old == Serves(resolver[r].seen)
           fails == Serves(-1)
<1>2. offers \in Seq(Nat)
  BY <1>1
<1>3. \/ offers # <<>> /\ resolver' = [resolver EXCEPT ![r] = tries]
      \/ resolver' = [resolver EXCEPT ![r] = old]
      \/ resolver' = [resolver EXCEPT ![r] = fails]
  BY DEF AskMetadata, Move
<1>4. IsResolver(old) /\ IsResolver(fails) /\ old.pc = "done" /\ fails.pc = "done"
  <2>1. /\ old = [pc |-> "done", seen |-> 0, left |-> <<>>, chosen |-> 0,
                answer |-> resolver[r].seen]
        /\ fails = [pc |-> "done", seen |-> 0, left |-> <<>>, chosen |-> 0, answer |-> -1]
    BY DEF Serves, ResolverAt
  <2>2. resolver[r].seen \in Int /\ -1 \in Int
    BY <1>1
  <2> HIDE DEF old, fails
  <2> QED
    BY <2>1, <2>2 DEF IsResolver, ResolverStates
<1> HIDE DEF offers
<1>5. offers # <<>> => IsResolver(tries) /\ tries.pc = "trying"
  BY <1>1, <1>2 DEF IsResolver, ResolverStates
<1> HIDE DEF tries, old, fails
<1> QED
  BY <1>1, <1>3, <1>4, <1>5, ResolverMoves

(* a build that is stored or passed over, *)
LEMMA TryBuildKeeps ==
  ASSUME TinyInv, NEW r \in Resolvers, TryBuild(r)
  PROVE  TinyInv'
<1> DEFINE build == Head(resolver[r].left)
           marks == [resolver[r] EXCEPT !.pc = "marking", !.chosen = build]
           fails == Serves(-1)
           goes == [resolver[r] EXCEPT !.left = Tail(@)]
<1>1. /\ resolver[r] \in ResolverStates /\ resolver[r].left \in Seq(Nat)
      /\ resolver[r].pc = "trying" /\ resolver[r].left # <<>>
      /\ UNCHANGED <<published, yarnMarker>>
  BY DEF TinyInv, ResolverTyped, TryBuild, IsResolver, ResolverStates
<1>2. build \in Nat /\ Tail(resolver[r].left) \in Seq(Nat)
      /\ (Len(resolver[r].left) # 1 => Tail(resolver[r].left) # <<>>)
  <2> DEFINE left == resolver[r].left
  <2>1. left \in Seq(Nat) /\ left # <<>>
    BY <1>1
  <2> HIDE DEF left
  <2>2. Head(left) \in Nat /\ Tail(left) \in Seq(Nat) /\ Len(left) \in Nat
        /\ Len(Tail(left)) = Len(left) - 1
    BY <2>1
  <2>3. Len(left) # 1 => Len(Tail(left)) # 0
    BY <2>2
  <2>4. Len(<<>>) = 0
    OBVIOUS
  <2> QED
    BY <2>2, <2>3, <2>4 DEF left
<1>3. \/ /\ tinies' = tinies \cup {build} /\ pruned' = pruned \ {build}
         /\ resolver' = [resolver EXCEPT ![r] = marks]
      \/ /\ \/ resolver' = [resolver EXCEPT ![r] = fails]
            \/ Len(resolver[r].left) # 1 /\ resolver' = [resolver EXCEPT ![r] = goes]
         /\ UNCHANGED <<tinies, pruned>>
  BY DEF TryBuild, Stored, Move
<1> HIDE DEF build
<1>4. /\ IsResolver(marks) /\ marks.pc = "marking" /\ marks.chosen = build
      /\ IsResolver(fails) /\ fails.pc = "done"
      /\ (Len(resolver[r].left) # 1 => IsResolver(goes) /\ goes.pc = "trying")
  <2>1. fails = [pc |-> "done", seen |-> 0, left |-> <<>>, chosen |-> 0, answer |-> -1]
    BY DEF Serves, ResolverAt
  <2>2. marks.pc = "marking" /\ marks.chosen = build /\ marks \in ResolverStates
    BY <1>1, <1>2 DEF ResolverStates
  <2>3. goes.pc = "trying" /\ goes.left = Tail(resolver[r].left) /\ goes \in ResolverStates
    BY <1>1, <1>2 DEF ResolverStates
  <2>4. IsResolver(fails) /\ fails.pc = "done"
    <3>1. -1 \in Int
      OBVIOUS
    <3> HIDE DEF fails
    <3> QED
      BY <2>1, <3>1 DEF IsResolver, ResolverStates
  <2> HIDE DEF marks, goes, fails
  <2> QED
    BY <1>2, <2>2, <2>3, <2>4 DEF IsResolver
<1> HIDE DEF marks, fails, goes
<1>5. CASE /\ tinies' = tinies \cup {build} /\ pruned' = pruned \ {build}
           /\ resolver' = [resolver EXCEPT ![r] = marks]
  <2>1. ResolverTyped'
    BY <1>1, <1>2, <1>4, <1>5 DEF TinyInv, ResolverTyped, IsResolver
  <2>2. MarkersBacked' /\ MarkerBacked'
    BY <1>1, <1>4, <1>5 DEF TinyInv, ResolverTyped, MarkersBacked, MarkerBacked
  <2> QED
    BY <2>1, <2>2 DEF TinyInv
<1>6. CASE /\ \/ resolver' = [resolver EXCEPT ![r] = fails]
              \/ Len(resolver[r].left) # 1 /\ resolver' = [resolver EXCEPT ![r] = goes]
           /\ UNCHANGED <<tinies, pruned>>
  BY <1>1, <1>4, <1>6, ResolverMoves
<1> QED
  BY <1>3, <1>5, <1>6

(* the marker that is written, a server that dies; *)
LEMMA WriteMarkerKeeps ==
  ASSUME TinyInv, NEW r \in Resolvers, WriteYarnMarker(r) \/ Die(r)
  PROVE  TinyInv'
<1> DEFINE ends == Serves(resolver[r].chosen)
<1>1. /\ resolver[r] \in ResolverStates /\ resolver[r].chosen \in Nat
      /\ UNCHANGED <<published, tinies, pruned>>
  BY DEF TinyInv, ResolverTyped, WriteYarnMarker, Die, ResolverStates
<1>2. resolver' = [resolver EXCEPT ![r] = Ready] \/ resolver' = [resolver EXCEPT ![r] = ends]
  BY DEF WriteYarnMarker, Die, Move
<1>3. \/ yarnMarker' \in {0, yarnMarker}
      \/ resolver[r].pc = "marking" /\ yarnMarker' = resolver[r].chosen
  BY DEF WriteYarnMarker, Die
<1>4. yarnMarker' \in {0, yarnMarker} \/ yarnMarker' \in tinies \cup pruned
  BY <1>3 DEF TinyInv, MarkersBacked
<1>5. IsResolver(Ready) /\ IsResolver(ends) /\ Ready.pc = "ready" /\ ends.pc = "done"
  <2>1. ends = [pc |-> "done", seen |-> 0, left |-> <<>>, chosen |-> 0,
                 answer |-> resolver[r].chosen]
    BY DEF Serves, ResolverAt
  <2> HIDE DEF ends
  <2> QED
    BY <1>1, <2>1 DEF IsResolver, ResolverStates, Ready, ResolverAt
<1> HIDE DEF ends
<1> QED
  BY <1>1, <1>2, <1>4, <1>5, ResolverMoves

(* and what happens around them, leave the marker backed. *)
LEMMA TinyWorldKeeps ==
  ASSUME TinyInv, Publish \/ DayPasses \/ PruneTiny
  PROVE  TinyInv'
<1>1. resolver' = resolver /\ yarnMarker' = yarnMarker /\ tinies' \cup pruned' = tinies \cup pruned
  BY DEF Publish, DayPasses, PruneTiny
<1>2. tinies' \subseteq Nat /\ pruned' \subseteq Nat /\ published' \in Nat
  <2>1. tinies \subseteq Nat /\ pruned \subseteq Nat /\ published \in Nat
    BY DEF TinyInv, ResolverTyped
  <2>2. published' \in {published, published + 1}
    BY DEF Publish, DayPasses, PruneTiny
  <2>3. \A n \in Nat : n + 1 \in Nat
    OBVIOUS
  <2> QED
    BY <2>1, <2>2, <1>1, <2>3
<1> QED
  BY <1>1, <1>2 DEF TinyInv, ResolverTyped, MarkersBacked, MarkerBacked

(* Nothing is marked at first, *)
LEMMA TinyStarts ==
  ASSUME published \in Nat, tinies = {}, pruned = {}, yarnMarker = 0,
         resolver = [r \in Resolvers |-> Ready]
  PROVE  TinyInv
<1>1. IsResolver(Ready) /\ Ready.pc = "ready"
  BY DEF Ready, ResolverAt, IsResolver, ResolverStates
<1> QED
  BY <1>1 DEF TinyInv, ResolverTyped, MarkersBacked, MarkerBacked, IsResolver

(* and every step, of this part or of another, keeps what is marked backed. *)
LEMMA TinyKeeps ==
  ASSUME TinyInv, [TinyNext]_tinyVars
  PROVE  TinyInv'
<1>1. CASE TinyNext
  BY <1>1, ReadMarkerKeeps, AskMetadataKeeps, TryBuildKeeps, WriteMarkerKeeps, TinyWorldKeeps
     DEF TinyNext
<1>2. CASE UNCHANGED tinyVars
  BY <1>2 DEF tinyVars, TinyInv, ResolverTyped, MarkersBacked, MarkerBacked
<1> QED
  BY <1>1, <1>2

-----------------------------------------------------------------------------
(* Where a process may be, and which file it has. *)
Openers ==
    [pc : {"closed", "opening", "checking", "clearing", "rebuilding", "recreating", "serving"},
     listed : SUBSET Nat, file : Nat]

(* What is told of the files, the requests and the processes. *)
FilesTold ==
    /\ current \in 0 .. created /\ created \in 0 .. MaxDatabases
    /\ DOMAIN health = Databases /\ issued \in Nat /\ requests \subseteq 1 .. issued
    /\ known \subseteq 1 .. created /\ \A f \in known : health[f] # "good"
    /\ opener \in [Servers -> Openers]
    /\ \A p \in Servers :
          /\ opener[p].listed \subseteq 1 .. issued
          /\ opener[p].file \in 0 .. created
          /\ opener[p].pc \in {"checking", "clearing", "serving"} => opener[p].file # 0

(* A process that is about to remove request q, or will if the file that it has opened, and
   that has lost its name since, turns out to be good. *)
Removes(p, q) ==
    /\ q \in opener[p].listed
    /\ opener[p].pc = "clearing" \/ (opener[p].pc = "checking" /\ opener[p].file # current)

(* While a file that is known to be damaged is in use, there is a request that nobody
   removes before he has met the damage himself. *)
Standing(q) == q \in requests /\ \A p \in Servers : ~Removes(p, q)
DamageStands == current \in known => \E q \in Nat : Standing(q)

(* The invariant of the database. *)
OpenInv == FilesTold /\ DamageStands

(* Then the damage is remembered. *)
LEMMA DamageTold ==
  ASSUME OpenInv
  PROVE  DamageRemembered
  BY DEF OpenInv, DamageStands, Standing, DamageRemembered

(* At first nobody knows of any damage, *)
LEMMA DatabaseStarts ==
  ASSUME current \in {0, 1}, created = current, DOMAIN health = Databases,
         requests = {}, issued = 0, known = {}, opener = [p \in Servers |-> Closed]
  PROVE  OpenInv
<1>1. Closed \in Openers /\ Closed.listed = {} /\ Closed.file = 0 /\ Closed.pc = "closed"
  BY DEF Closed, Openers
<1>2. MaxDatabases \in Nat \ {0}
  BY DatabaseAssumption
<1>3. created \in {0, 1} /\ created \in 0 .. MaxDatabases
  BY <1>2
<1>4. FilesTold
  BY <1>1, <1>2, <1>3 DEF FilesTold
<1> QED
  BY <1>4 DEF OpenInv, DamageStands

(* A process may go on with a file that exists, and if it comes to remove what it has
   listed, then only with a file that is not the damaged one. *)
MayGo(p, state) ==
    /\ state \in Openers /\ state.listed \subseteq 1 .. issued /\ state.file \in 0 .. created
    /\ state.pc \in {"checking", "clearing", "serving"} => state.file # 0
    /\ current \in known =>
          \/ state.pc \notin {"clearing", "checking"}
          \/ state.pc = "checking" /\ state.file = current
          \/ /\ state.listed \subseteq opener[p].listed
             /\ opener[p].pc = "checking" /\ opener[p].file # current

(* A process that goes on so leaves the requests that stand. *)
LEMMA OpenerMoves ==
  ASSUME OpenInv, NEW p \in Servers, NEW state, MayGo(p, state),
         opener' = [opener EXCEPT ![p] = state],
         UNCHANGED <<current, created, health, requests, issued, known>>
  PROVE  OpenInv'
<1>1. FilesTold'
  BY DEF OpenInv, FilesTold, MayGo
<1>2. ASSUME current \in known, NEW q \in Nat, Standing(q)
      PROVE  Standing(q)'
  <2>1. opener'[p] = state /\ \A other \in Servers : other # p => opener'[other] = opener[other]
    BY DEF OpenInv, FilesTold
  <2>2. \A other \in Servers : ~Removes(other, q)'
    BY <1>2, <2>1 DEF Standing, Removes, MayGo
  <2> QED
    BY <1>2, <2>2 DEF Standing
<1> QED
  BY <1>1, <1>2 DEF OpenInv, DamageStands

(* A new file is in nobody's report. *)
LEMMA CreateKeeps ==
  ASSUME OpenInv, NEW p \in Servers, NEW next \in {"serving", "checking", "clearing"},
         CreateDatabase(p, next)
  PROVE  OpenInv'
<1> DEFINE state == [opener[p] EXCEPT !.pc = next, !.file = created + 1]
<1>1. /\ current' = created + 1 /\ created' = created + 1 /\ created < MaxDatabases
      /\ opener' = [opener EXCEPT ![p] = state]
      /\ UNCHANGED <<health, requests, issued, known>>
  BY DEF CreateDatabase, Go
<1>2. /\ created \in Nat /\ created + 1 \in 0 .. MaxDatabases /\ created + 1 \in Nat
      /\ opener[p] \in Openers
  BY <1>1, DatabaseAssumption DEF OpenInv, FilesTold
<1>3. /\ state \in Openers /\ state.pc = next /\ state.file = created + 1
      /\ state.listed = opener[p].listed
  BY <1>2 DEF Openers
<1> HIDE DEF state
<1>4. FilesTold'
  <2>1. opener' \in [Servers -> Openers]
    BY <1>1, <1>3 DEF OpenInv, FilesTold
  <2>2. opener'[p] = state /\ \A other \in Servers : other # p => opener'[other] = opener[other]
    BY <1>1 DEF OpenInv, FilesTold
  <2>3. \A other \in Servers :
            /\ opener'[other].listed \subseteq 1 .. issued'
            /\ opener'[other].file \in 0 .. created'
            /\ opener'[other].pc \in {"checking", "clearing", "serving"} => opener'[other].file # 0
    BY <1>1, <1>2, <1>3, <2>2 DEF OpenInv, FilesTold
  <2>4. /\ known' \subseteq 1 .. created' /\ current' \in 0 .. created'
        /\ created' \in 0 .. MaxDatabases
    BY <1>1, <1>2 DEF OpenInv, FilesTold
  <2> QED
    BY <1>1, <2>1, <2>3, <2>4 DEF OpenInv, FilesTold
<1>5. current' \notin known'
  BY <1>1, <1>2 DEF OpenInv, FilesTold
<1> QED
  BY <1>4, <1>5 DEF OpenInv, DamageStands

(* A process lists the requests, closes, or leaves; *)
LEMMA ListRequestsKeeps ==
  ASSUME OpenInv, NEW p \in Servers, ListRequests(p) \/ Leave(p)
  PROVE  OpenInv'
<1> DEFINE lists == [pc |-> "opening", listed |-> requests, file |-> 0]
<1>1. /\ UNCHANGED <<current, created, health, requests, issued, known>>
      /\ opener' = [opener EXCEPT ![p] = lists] \/ opener' = [opener EXCEPT ![p] = Closed]
  BY DEF ListRequests, Leave, OnlyOpener, Go
<1>2. /\ requests \subseteq 1 .. issued /\ issued \in Nat /\ created \in Nat
  BY DEF OpenInv, FilesTold
<1>3. lists \in Openers /\ lists.pc = "opening" /\ lists.listed = requests /\ lists.file = 0
  BY <1>2 DEF Openers
<1>4. Closed \in Openers /\ Closed.listed = {} /\ Closed.file = 0 /\ Closed.pc = "closed"
  BY DEF Closed, Openers
<1> HIDE DEF lists
<1>5. MayGo(p, lists) /\ MayGo(p, Closed)
  BY <1>2, <1>3, <1>4 DEF MayGo
<1> QED
  BY <1>1, <1>5, OpenerMoves

(* opens the database: with requests listed it is on its way to check this very file; *)
LEMMA OpenKeeps ==
  ASSUME OpenInv, NEW p \in Servers, OpenDatabase(p)
  PROVE  OpenInv'
<1> DEFINE next == IF opener[p].listed = {} THEN "serving" ELSE "checking"
           rebuilds == [opener[p] EXCEPT !.pc = "rebuilding"]
           opens == [opener[p] EXCEPT !.pc = next, !.file = current]
<1>1. next \in {"serving", "checking", "clearing"}
  OBVIOUS
<1>2. \/ CreateDatabase(p, next)
      \/ /\ current # 0 /\ UNCHANGED <<current, created, health, requests, issued, known>>
         /\ \/ opener' = [opener EXCEPT ![p] = rebuilds]
            \/ opener' = [opener EXCEPT ![p] = Closed]
            \/ opener' = [opener EXCEPT ![p] = opens]
  BY DEF OpenDatabase, Go
<1>3. CASE CreateDatabase(p, next)
  BY <1>1, <1>3, CreateKeeps
<1>4. CASE /\ current # 0 /\ UNCHANGED <<current, created, health, requests, issued, known>>
           /\ \/ opener' = [opener EXCEPT ![p] = rebuilds]
              \/ opener' = [opener EXCEPT ![p] = Closed]
              \/ opener' = [opener EXCEPT ![p] = opens]
  <2>1. /\ opener[p] \in Openers /\ opener[p].listed \subseteq 1 .. issued
        /\ opener[p].file \in 0 .. created /\ current \in 0 .. created
        /\ created \in 0 .. MaxDatabases
    BY DEF OpenInv, FilesTold
  <2>6. created \in Nat /\ current \in Nat /\ next \in {"serving", "checking"}
    BY <2>1, DatabaseAssumption
  <2> HIDE DEF next
  <2>2. /\ rebuilds \in Openers /\ rebuilds.pc = "rebuilding" /\ rebuilds.file = opener[p].file
        /\ rebuilds.listed = opener[p].listed
    BY <2>1, <2>6 DEF Openers
  <2>3. Closed \in Openers /\ Closed.listed = {} /\ Closed.file = 0 /\ Closed.pc = "closed"
    BY DEF Closed, Openers
  <2>4. /\ opens \in Openers /\ opens.pc \in {"serving", "checking"} /\ opens.file = current
        /\ opens.listed = opener[p].listed
    BY <2>1, <2>6 DEF Openers
  <2> HIDE DEF rebuilds, opens
  <2>5. MayGo(p, rebuilds) /\ MayGo(p, Closed) /\ MayGo(p, opens)
    BY <1>4, <2>1, <2>6, <2>2, <2>3, <2>4 DEF MayGo
  <2> QED
    BY <1>4, <2>5, OpenerMoves
<1> QED
  BY <1>2, <1>3, <1>4

(* checks the file it has: a good one is not the damaged one; *)
LEMMA CheckKeeps ==
  ASSUME OpenInv, NEW p \in Servers, CheckDatabase(p)
  PROVE  OpenInv'
<1> DEFINE next == IF health[opener[p].file] = "good" THEN "clearing" ELSE "rebuilding"
           state == [opener[p] EXCEPT !.pc = next]
<1>1. /\ UNCHANGED <<current, created, health, requests, issued, known>>
      /\ opener[p].pc = "checking" /\ opener' = [opener EXCEPT ![p] = state]
  BY DEF CheckDatabase, OnlyOpener, Go, At
<1>2. /\ opener[p] \in Openers /\ opener[p].listed \subseteq 1 .. issued
      /\ opener[p].file \in 0 .. created /\ opener[p].file # 0
      /\ \A f \in known : health[f] # "good"
  BY <1>1 DEF OpenInv, FilesTold
<1>3. /\ state \in Openers /\ state.pc = next /\ state.file = opener[p].file
      /\ state.listed = opener[p].listed
  BY <1>2 DEF Openers
<1>4. current \in known => next = "rebuilding" \/ opener[p].file # current
  BY <1>2
<1> HIDE DEF state
<1>5. MayGo(p, state)
  BY <1>1, <1>2, <1>3, <1>4 DEF MayGo
<1> QED
  BY <1>1, <1>5, OpenerMoves

(* clears what it has listed, which is not the request that stands; *)
LEMMA ClearKeeps ==
  ASSUME OpenInv, NEW p \in Servers, ClearRequests(p)
  PROVE  OpenInv'
<1> DEFINE state == [opener[p] EXCEPT !.pc = "serving"]
<1>1. /\ UNCHANGED <<current, created, health, issued, known>>
      /\ requests' = requests \ opener[p].listed
      /\ opener[p].pc = "clearing" /\ opener' = [opener EXCEPT ![p] = state]
  BY DEF ClearRequests, Cleared, Go, At
<1>2. /\ opener[p] \in Openers /\ opener[p].listed \subseteq 1 .. issued
      /\ opener[p].file \in 0 .. created /\ opener[p].file # 0
  BY <1>1 DEF OpenInv, FilesTold
<1>3. /\ state \in Openers /\ state.pc = "serving" /\ state.file = opener[p].file
      /\ state.listed = opener[p].listed
  BY <1>2 DEF Openers
<1> HIDE DEF state
<1>4. FilesTold'
  BY <1>1, <1>2, <1>3 DEF OpenInv, FilesTold
<1>5. ASSUME NEW q \in Nat, Standing(q)
      PROVE  Standing(q)'
  <2>1. opener'[p] = state /\ \A other \in Servers : other # p => opener'[other] = opener[other]
    BY <1>1 DEF OpenInv, FilesTold
  <2>2. q \notin opener[p].listed
    BY <1>1, <1>5 DEF Standing, Removes
  <2>3. \A other \in Servers : ~Removes(other, q)'
    BY <1>1, <1>3, <1>5, <2>1 DEF Standing, Removes
  <2> QED
    BY <1>1, <1>5, <2>2, <2>3 DEF Standing
<1> QED
  BY <1>1, <1>4, <1>5 DEF OpenInv, DamageStands

(* puts the damaged file aside, after which no file in use is known to be damaged; *)
LEMMA PutAsideKeeps ==
  ASSUME OpenInv, NEW p \in Servers, PutAside(p)
  PROVE  OpenInv'
<1> DEFINE state == [opener[p] EXCEPT !.pc = "recreating"]
<1>1. UNCHANGED <<created, health, requests, issued, known>>
  BY DEF PutAside
<1>2. \/ opener' = [opener EXCEPT ![p] = Closed] /\ current' = current
      \/ opener' = [opener EXCEPT ![p] = state] /\ current' = 0
  BY DEF PutAside, Go
<1>3. /\ opener[p] \in Openers /\ opener[p].listed \subseteq 1 .. issued
      /\ opener[p].file \in 0 .. created /\ created \in Nat
  BY DEF OpenInv, FilesTold
<1>4. Closed \in Openers /\ Closed.listed = {} /\ Closed.file = 0 /\ Closed.pc = "closed"
  BY DEF Closed, Openers
<1>5. CASE opener' = [opener EXCEPT ![p] = Closed] /\ current' = current
  <2>1. MayGo(p, Closed)
    BY <1>3, <1>4 DEF MayGo
  <2> QED
    BY <1>1, <1>5, <2>1, OpenerMoves
<1>6. CASE opener' = [opener EXCEPT ![p] = state] /\ current' = 0
  <2>1. /\ state \in Openers /\ state.pc = "recreating" /\ state.file = opener[p].file
        /\ state.listed = opener[p].listed
    BY <1>3 DEF Openers
  <2> HIDE DEF state
  <2>2. FilesTold'
    BY <1>1, <1>3, <1>6, <2>1 DEF OpenInv, FilesTold
  <2>3. current' \notin known'
    BY <1>1, <1>3, <1>6 DEF OpenInv, FilesTold
  <2> QED
    BY <2>2, <2>3 DEF OpenInv, DamageStands
<1> QED
  BY <1>2, <1>5, <1>6

(* makes a new one, or takes one that is good; *)
LEMMA RecreateKeeps ==
  ASSUME OpenInv, NEW p \in Servers, Recreate(p)
  PROVE  OpenInv'
<1> DEFINE takes == [opener[p] EXCEPT !.pc = "clearing", !.file = current]
<1>1. \/ CreateDatabase(p, "clearing")
      \/ /\ current # 0 /\ UNCHANGED <<current, created, health, requests, issued, known>>
         /\ \/ health[current] = "good" /\ opener' = [opener EXCEPT ![p] = takes]
            \/ opener' = [opener EXCEPT ![p] = Closed]
  BY DEF Recreate, Go, OnlyOpener
<1>2. CASE CreateDatabase(p, "clearing")
  BY <1>2, CreateKeeps
<1>3. CASE /\ current # 0 /\ UNCHANGED <<current, created, health, requests, issued, known>>
           /\ \/ health[current] = "good" /\ opener' = [opener EXCEPT ![p] = takes]
              \/ opener' = [opener EXCEPT ![p] = Closed]
  <2>1. /\ opener[p] \in Openers /\ opener[p].listed \subseteq 1 .. issued
        /\ current \in 0 .. created /\ created \in 0 .. MaxDatabases
        /\ \A f \in known : health[f] # "good"
    BY DEF OpenInv, FilesTold
  <2>6. created \in Nat /\ current \in Nat
    BY <2>1, DatabaseAssumption
  <2>2. Closed \in Openers /\ Closed.listed = {} /\ Closed.file = 0 /\ Closed.pc = "closed"
    BY DEF Closed, Openers
  <2>3. /\ takes \in Openers /\ takes.pc = "clearing" /\ takes.file = current
        /\ takes.listed = opener[p].listed
    BY <2>1, <2>6 DEF Openers
  <2> HIDE DEF takes
  <2>4. MayGo(p, Closed) /\ (health[current] = "good" => MayGo(p, takes))
    BY <1>3, <2>1, <2>6, <2>2, <2>3 DEF MayGo
  <2> QED
    BY <1>3, <2>4, OpenerMoves
<1> QED
  BY <1>1, <1>2, <1>3

(* runs into the damage and reports it, in a request that nobody has listed; *)
LEMMA NoticeKeeps ==
  ASSUME OpenInv, NEW p \in Servers, NoticeDamage(p)
  PROVE  OpenInv'
<1>1. /\ issued' = issued + 1 /\ requests' = requests \cup {issued + 1}
      /\ known' = known \cup {opener[p].file} /\ UNCHANGED <<current, created, health, opener>>
      /\ health[opener[p].file] # "good" /\ opener[p].pc = "serving"
  BY DEF NoticeDamage, At
<1>2. issued \in Nat /\ issued + 1 \in Nat /\ ~(issued + 1 <= issued) /\ created \in Nat
  BY DEF OpenInv, FilesTold
<1>3. opener[p].file \in 1 .. created
  BY <1>1, <1>2 DEF OpenInv, FilesTold
<1>4. FilesTold'
  <2>1. requests' \subseteq 1 .. issued' /\ issued' \in Nat
    BY <1>1, <1>2 DEF OpenInv, FilesTold
  <2>2. \A other \in Servers : opener[other].listed \subseteq 1 .. issued'
    BY <1>1, <1>2 DEF OpenInv, FilesTold
  <2>3. known' \subseteq 1 .. created /\ \A f \in known' : health[f] # "good"
    BY <1>1, <1>3 DEF OpenInv, FilesTold
  <2> QED
    BY <1>1, <2>1, <2>2, <2>3 DEF OpenInv, FilesTold
<1>5. \A other \in Servers : issued + 1 \notin opener[other].listed
  BY <1>2 DEF OpenInv, FilesTold
<1>6. PICK q \in Nat : q = issued + 1
  BY <1>2
<1>7. \A other \in Servers : ~Removes(other, q)'
  BY <1>1, <1>5, <1>6 DEF Removes
<1>8. Standing(q)'
  BY <1>1, <1>6, <1>7 DEF Standing
<1> QED
  BY <1>4, <1>8 DEF OpenInv, DamageStands

(* and a good file becomes a damaged one, which nobody knows yet. *)
LEMMA DamageKeeps ==
  ASSUME OpenInv, BecomesDamaged
  PROVE  OpenInv'
<1>1. PICK h \in {"damaged", "unreadable"} : health' = [health EXCEPT ![current] = h]
  BY DEF BecomesDamaged
<1>2. UNCHANGED <<current, created, requests, issued, known, opener>>
  BY DEF BecomesDamaged
<1>3. FilesTold'
  BY <1>1, <1>2 DEF OpenInv, FilesTold
<1>4. DamageStands'
  BY <1>2 DEF OpenInv, DamageStands, Standing, Removes
<1> QED
  BY <1>3, <1>4 DEF OpenInv

(* Every step, of this part or of another, keeps what is known from being forgotten. *)
LEMMA DatabaseKeeps ==
  ASSUME OpenInv, [DatabaseNext]_databaseVars
  PROVE  OpenInv'
<1>1. CASE DatabaseNext
  BY <1>1, ListRequestsKeeps, OpenKeeps, CheckKeeps, ClearKeeps, PutAsideKeeps, RecreateKeeps,
     NoticeKeeps, DamageKeeps
     DEF DatabaseNext
<1>2. CASE UNCHANGED databaseVars
  BY <1>2 DEF databaseVars, OpenInv, FilesTold, DamageStands, Standing, Removes
<1> QED
  BY <1>1, <1>2

-----------------------------------------------------------------------------
(* A full entry, and the detection that will make one, tell a version that was read no
   earlier than their fingerprint. *)
EntryTold(entry) ==
    /\ entry \in Contexts /\ entry.print <= edition
    /\ entry.there /\ ~entry.partial => entry.print <= entry.detected /\ entry.detected <= edition
LookupTold(l) ==
    /\ l \in Looking /\ l.print <= edition
    /\ l.pc = "workspaceRead" => l.print <= l.seen /\ l.seen <= edition

(* The invariant of the contexts: the entry and every call. *)
ContextInv ==
    /\ edition \in Nat /\ EntryTold(context)
    /\ DOMAIN lookups = Lookups /\ \A c \in Lookups : LookupTold(lookups[c])

(* Then a context is no fresher than what it tells. *)
LEMMA ContextTold ==
  ASSUME ContextInv
  PROVE  ContextFresh
<1>1. /\ edition \in Nat /\ context.print \in Nat /\ context.detected \in Nat
      /\ context.there /\ ~context.partial => context.print <= context.detected
                                              /\ context.detected <= edition
  BY DEF ContextInv, EntryTold, Contexts
<1> QED
  BY <1>1 DEF ContextFresh

(* The empty states, *)
LEMMA EmptyTold ==
  ASSUME edition \in Nat
  PROVE  /\ EntryTold(NoContext) /\ ~NoContext.there
         /\ LookupTold(NoLooking) /\ NoLooking.pc = "idle"
  BY DEF EntryTold, LookupTold, NoContext, NoLooking, Contexts, Looking

(* what a look at the cache leaves of the entry, *)
LEMMA ReadTold ==
  ASSUME ContextInv
  PROVE  EntryTold(ReadContext)
  BY EmptyTold DEF ContextInv, ReadContext

(* a call that starts or ends without a new entry, *)
LEMMA LookupMoves ==
  ASSUME ContextInv, NEW c \in Lookups, NEW l, LookupTold(l), NEW entry, EntryTold(entry),
         context' = entry, edition' = edition, lookups' = [lookups EXCEPT ![c] = l]
  PROVE  ContextInv'
<1>1. EntryTold(context)'
  BY DEF EntryTold
<1>2. ASSUME NEW d \in Lookups PROVE LookupTold(lookups[d])'
  <2>1. lookups'[d] = IF d = c THEN l ELSE lookups[d]
    BY DEF ContextInv
  <2>2. LookupTold(lookups[d])
    BY DEF ContextInv
  <2> QED
    BY <2>1, <2>2 DEF LookupTold
<1> QED
  BY <1>1, <1>2 DEF ContextInv

(* a call that begins, *)
LEMMA StartKeeps ==
  ASSUME ContextInv, NEW c \in Lookups, StartWorkspace(c) \/ StartDependency(c) \/ StartHint(c)
  PROVE  ContextInv'
<1> DEFINE looks == [pc |-> "workspace", print |-> edition, seen |-> 0,
                     kept |-> ReadContext.dependency]
           depends == [NoLooking EXCEPT !.pc = "dependency"]
           hints == [NoLooking EXCEPT !.pc = "hint"]
<1>1. /\ context' = ReadContext /\ edition' = edition
      /\ \/ lookups' = lookups
         \/ lookups' = [lookups EXCEPT ![c] = looks]
         \/ lookups' = [lookups EXCEPT ![c] = depends]
         \/ lookups' = [lookups EXCEPT ![c] = hints]
  BY DEF StartWorkspace, StartDependency, StartHint, Proceed
<1>2. EntryTold(ReadContext) /\ edition \in Nat /\ ReadContext.dependency \in Nat
  BY ReadTold DEF ContextInv, EntryTold, Contexts
<1>3. LookupTold(looks) /\ LookupTold(depends) /\ LookupTold(hints)
  <2>1. LookupTold(looks)
    BY <1>2 DEF LookupTold, Looking
  <2>2. LookupTold(depends)
    BY <1>2 DEF LookupTold, Looking, NoLooking
  <2>3. LookupTold(hints)
    BY <1>2 DEF LookupTold, Looking, NoLooking
  <2> QED
    BY <2>1, <2>2, <2>3
<1>4. CASE lookups' = lookups
  <2>1. EntryTold(context)'
    BY <1>1, <1>2 DEF EntryTold
  <2>2. \A d \in Lookups : LookupTold(lookups[d])'
    BY <1>1, <1>4 DEF ContextInv, LookupTold
  <2> QED
    BY <1>1, <1>4, <2>1, <2>2 DEF ContextInv
<1> HIDE DEF looks, depends, hints
<1> QED
  BY <1>1, <1>2, <1>3, <1>4, LookupMoves

(* the read of the files, which are those of this edition, *)
LEMMA ReadProjectKeeps ==
  ASSUME ContextInv, NEW c \in Lookups, ReadProject(c)
  PROVE  ContextInv'
<1> DEFINE next == [workspace |-> "workspaceRead", dependency |-> "dependencyRead",
                    hint |-> "hintRead"]
           l == lookups[c]
           reads == [l EXCEPT !.pc = next[@], !.seen = edition]
<1>1. /\ l.pc \in {"workspace", "dependency", "hint"} /\ context' = context /\ edition' = edition
      /\ \/ lookups' = [lookups EXCEPT ![c] = reads]
         \/ lookups' = [lookups EXCEPT ![c] = NoLooking]
  BY DEF ReadProject, Proceed
<1>2. /\ edition \in Nat /\ EntryTold(context) /\ l \in Looking /\ l.print <= edition
      /\ l.print \in Nat
  BY DEF ContextInv, LookupTold, Looking
<1>3. LookupTold(NoLooking)
  BY <1>2, EmptyTold
<1>4. next[l.pc] \in {"workspaceRead", "dependencyRead", "hintRead"}
  BY <1>1
<1> HIDE DEF next
<1>5. reads \in Looking /\ reads.print = l.print /\ reads.seen = edition
  BY <1>2, <1>4 DEF Looking
<1> HIDE DEF reads
<1>6. LookupTold(reads)
  BY <1>2, <1>5 DEF LookupTold
<1> QED
  BY <1>1, <1>2, <1>3, <1>6, LookupMoves

(* and the entries the three writers make of what they have read; *)
LEMMA FinishLookupKeeps ==
  ASSUME ContextInv, NEW c \in Lookups,
         FinishWorkspace(c) \/ FinishDependency(c) \/ FinishHint(c)
  PROVE  ContextInv'
<1> DEFINE l == lookups[c]
           kept == IF ReadContext.there THEN ReadContext.dependency ELSE l.kept
           whole == [there |-> TRUE, partial |-> FALSE, detected |-> l.seen, dependency |-> kept,
                     print |-> l.print, old |-> FALSE]
           adds == [ReadContext EXCEPT !.dependency = l.seen]
           begins == [NoContext EXCEPT !.there = TRUE, !.partial = TRUE, !.dependency = l.seen]
           hints == [NoContext EXCEPT !.there = TRUE, !.partial = TRUE, !.detected = l.seen]
<1>1. /\ edition' = edition /\ lookups' = [lookups EXCEPT ![c] = NoLooking]
      /\ \/ l.pc = "workspaceRead" /\ context' = whole
         \/ context' = adds \/ context' = begins \/ context' = hints
  BY DEF FinishWorkspace, FinishDependency, FinishHint, Fingerprint, Proceed
<1>2. /\ edition \in Nat /\ l \in Looking /\ LookupTold(l) /\ EntryTold(ReadContext)
      /\ ReadContext \in Contexts
  BY ReadTold DEF ContextInv, LookupTold, EntryTold
<1>3. LookupTold(NoLooking) /\ EntryTold(NoContext) /\ NoContext \in Contexts /\ NoContext.print = 0
  BY <1>2, EmptyTold DEF EntryTold, NoContext
<1>4. l.seen \in Nat /\ l.print \in Nat /\ kept \in Nat
  BY <1>2 DEF Looking, Contexts
<1> HIDE DEF kept
<1>5. l.pc = "workspaceRead" => EntryTold(whole)
  BY <1>2, <1>4 DEF EntryTold, LookupTold, Contexts
<1>6. EntryTold(adds)
  <2>1. adds \in Contexts /\ adds.print = ReadContext.print /\ adds.there = ReadContext.there
        /\ adds.partial = ReadContext.partial /\ adds.detected = ReadContext.detected
    BY <1>2, <1>4 DEF Contexts
  <2> HIDE DEF adds
  <2> QED
    BY <1>2, <2>1 DEF EntryTold
<1>7. EntryTold(begins) /\ EntryTold(hints)
  <2>1. /\ begins \in Contexts /\ begins.print = 0 /\ begins.partial
        /\ hints \in Contexts /\ hints.print = 0 /\ hints.partial
    BY <1>3, <1>4 DEF Contexts
  <2> HIDE DEF begins, hints
  <2> QED
    BY <1>2, <2>1 DEF EntryTold
<1> HIDE DEF l, whole, adds, begins, hints
<1> QED
  BY <1>1, <1>3, <1>5, <1>6, <1>7, LookupMoves

(* an edit leaves all of it older, and an entry may age or go. *)
LEMMA EditKeeps ==
  ASSUME ContextInv, Edit \/ Age
  PROVE  ContextInv'
<1>1. CASE Edit
  <2>1. edition' = edition + 1 /\ context' = context /\ lookups' = lookups /\ edition \in Nat
    BY <1>1 DEF Edit, ContextInv
  <2>2. EntryTold(context)'
    BY <2>1 DEF ContextInv, EntryTold, Contexts
  <2>3. ASSUME NEW c \in Lookups PROVE LookupTold(lookups[c])'
    BY <2>1 DEF ContextInv, LookupTold, Looking
  <2> QED
    BY <2>1, <2>2, <2>3 DEF ContextInv
<1>2. CASE Age
  <2> DEFINE ages == [context EXCEPT !.old = TRUE]
  <2>1. /\ edition' = edition /\ lookups' = lookups
        /\ context' = ages \/ context' = NoContext
    BY <1>2 DEF Age
  <2>2. context \in Contexts /\ EntryTold(context) /\ edition \in Nat
    BY DEF ContextInv, EntryTold
  <2>3. ages \in Contexts /\ ages.print = context.print /\ ages.there = context.there
        /\ ages.partial = context.partial /\ ages.detected = context.detected
    BY <2>2 DEF Contexts
  <2> HIDE DEF ages
  <2>4. EntryTold(ages) /\ EntryTold(NoContext)
    BY <2>2, <2>3, EmptyTold DEF EntryTold
  <2>5. EntryTold(context)'
    BY <1>2, <2>1, <2>4 DEF EntryTold, Age
  <2>6. \A c \in Lookups : LookupTold(lookups[c])'
    BY <1>2, <2>1 DEF ContextInv, LookupTold, Age
  <2> QED
    BY <1>2, <2>1, <2>2, <2>5, <2>6 DEF ContextInv, Age
<1> QED
  BY <1>1, <1>2

(* No context is kept at first, *)
LEMMA ContextStarts ==
  ASSUME ContextInit
  PROVE  ContextInv
  BY EmptyTold DEF ContextInit, ContextInv

(* and every step, of this part or of another, keeps what is told of it. *)
LEMMA ContextKeeps ==
  ASSUME ContextInv, [ContextNext]_contextVars
  PROVE  ContextInv'
<1>1. CASE ContextNext
  BY <1>1, StartKeeps, ReadProjectKeeps, FinishLookupKeeps, EditKeeps DEF ContextNext
<1>2. CASE UNCHANGED contextVars
  BY <1>2 DEF contextVars, ContextInv, EntryTold, LookupTold
<1> QED
  BY <1>1, <1>2

-----------------------------------------------------------------------------
(* The versions that a call remembers of some entries. *)
Versions == UNION {[D -> Nat] : D \in SUBSET Nat}

(* The states of a call. *)
Errands ==
    [pc : {"idle", "looking", "next page", "deleting", "checking", "done", "threw"},
     pending : SUBSET Nat, found : Versions, cursor : Nat, pages : Seq(Nat), identity : Versions,
     at : Nat, failed : SUBSET Nat, removed : SUBSET Nat]

(* Where a listing may be, and where a deletion may be. *)
Listing == errand.pc \in {"idle", "looking", "next page"}
Deleting == errand.pc \in {"deleting", "checking"}

(* The types of the shelf, of the order and of the call. *)
ShelfTyped ==
    /\ shelf \in Seq(Cell) /\ order \in Order /\ (order.task = "list" => order.limit # 0)
    /\ errand \in Errands /\ writes \in Nat /\ DOMAIN altered = {"first page", "deletions"}
    /\ DOMAIN errand.found \subseteq Keys
    /\ DOMAIN errand.identity \subseteq DOMAIN errand.found
    /\ errand.removed \subseteq DOMAIN errand.identity

(* A listing does not delete and a deletion has no second page; what a download was is
   known before the deletions begin, and not before everything was found. *)
Phases ==
    /\ order.task = "list" => ~Deleting /\ DOMAIN errand.identity = {}
    /\ order.task = "delete" => errand.pc # "next page"
    /\ errand.pc \in {"idle", "next page"} => DOMAIN errand.identity = {}
    /\ DOMAIN errand.identity # {} => errand.pending = {}
    /\ Deleting => Downloads \subseteq DOMAIN errand.identity
    /\ Listing => errand.at = 0
    /\ errand.pc = "idle" => errand.cursor = 0
    /\ errand.pc = "checking" => errand.at \in DOMAIN errand.identity

(* Versions only grow, and what is remembered is no newer than what is there. *)
VersionsGrow ==
    /\ \A k \in Keys : shelf[k].version <= Newest + writes
    /\ \A k \in DOMAIN errand.found :
          /\ errand.found[k] # 0 /\ errand.found[k] <= Newest + writes
          /\ shelf[k].version = 0 \/ errand.found[k] <= shelf[k].version
    /\ \A k \in DOMAIN errand.identity : errand.identity[k] # 0 =>
          /\ errand.found[k] <= errand.identity[k] /\ errand.identity[k] <= Newest + writes
          /\ shelf[k].version = 0 \/ errand.identity[k] <= shelf[k].version

(* What was there all along and matches, and what is listed. *)
Unaltered(k) ==
    k \in Keys \ altered["first page"] /\ shelf[k].version # 0 /\ Selected(shelf[k])
Paged(k) == \E i \in DOMAIN errand.pages : errand.pages[i] = k

(* The pages so far hold what there is up to the cursor, and the call finds the rest. *)
PagesGrow ==
    order.task = "list" =>
        /\ \A i, j \in DOMAIN errand.pages : i < j => errand.pages[i] < errand.pages[j]
        /\ Listing =>
              /\ \A i \in DOMAIN errand.pages : errand.pages[i] <= errand.cursor
              /\ \A k \in Keys : Unaltered(k) /\ k <= errand.cursor => Paged(k)
        /\ errand.pc = "looking" =>
              \A k \in Keys : Unaltered(k) => k \in errand.pending \cup DOMAIN errand.found
        /\ errand.pc = "done" => \A k \in Keys : Unaltered(k) => Paged(k)

(* What the deletion has passed and not failed to delete is gone, or is something new. *)
PassedIsGone ==
    order.task = "delete" =>
        \A k \in DOMAIN errand.found \ errand.failed :
            \/ errand.pc = "done"
            \/ Deleting /\ k <= errand.at /\ ~(errand.pc = "checking" /\ k = errand.at)
            => shelf[k].version # errand.found[k]

(* What was written since the deletions began is newer than what was identified. *)
ReplacementsNewer ==
    /\ ReplacementStays
    /\ Deleting =>
          \A k \in altered["deletions"] \cap DOMAIN errand.identity :
              shelf[k].version = 0 \/ errand.identity[k] < shelf[k].version

(* What holds of a call and of the caches it goes through. *)
ErrandInv ==
    ShelfTyped /\ Phases /\ VersionsGrow /\ PagesGrow /\ PassedIsGone /\ ReplacementsNewer

(* What a call remembers is a number for each of some entries. *)
LEMMA VersionsAre ==
  ASSUME NEW f
  PROVE  f \in Versions <=> DOMAIN f \subseteq Nat /\ f \in [DOMAIN f -> Nat]
BY DEF Versions

(* The types, spelled out. *)
LEMMA ShelfFacts ==
  ASSUME ShelfTyped
  PROVE  /\ Len(shelf) \in Nat /\ Keys = 1 .. Len(shelf) /\ IsFiniteSet(Keys) /\ Keys \subseteq Nat
         /\ \A k \in Keys : k \in Nat /\ k # 0 /\ shelf[k] \in Cell /\ shelf[k].version \in Nat
         /\ errand.found \in Versions /\ errand.identity \in Versions
         /\ DOMAIN errand.found \subseteq Keys /\ DOMAIN errand.identity \subseteq Keys
         /\ \A k \in DOMAIN errand.found : errand.found[k] \in Nat
         /\ \A k \in DOMAIN errand.identity : errand.identity[k] \in Nat
         /\ errand.at \in Nat /\ errand.cursor \in Nat /\ errand.pages \in Seq(Nat)
         /\ errand.removed \in SUBSET Nat /\ errand.failed \in SUBSET Nat
         /\ order.task \in {"list", "delete"} /\ order.limit \in Nat
         /\ writes \in Nat /\ Newest + writes \in Nat
<1>1. Len(shelf) \in Nat /\ Keys = 1 .. Len(shelf) /\ \A k \in Keys : shelf[k] \in Cell
  <2>1. shelf \in Seq(Cell)
    BY DEF ShelfTyped
  <2> QED
    BY <2>1 DEF Keys
<1>2. IsFiniteSet(Keys) /\ Keys \subseteq Nat /\ \A k \in Keys : k \in Nat /\ k # 0
  BY <1>1, FS_Interval
<1>3. \A k \in Keys : shelf[k].version \in Nat
  BY <1>1 DEF Cell
<1>4. /\ errand.found \in Versions /\ errand.identity \in Versions
      /\ errand.at \in Nat /\ errand.cursor \in Nat /\ errand.pages \in Seq(Nat)
      /\ errand.removed \in SUBSET Nat /\ errand.failed \in SUBSET Nat
  BY DEF ShelfTyped, Errands
<1>5. DOMAIN errand.found \subseteq Keys /\ DOMAIN errand.identity \subseteq Keys
  BY DEF ShelfTyped
<1>6. /\ \A k \in DOMAIN errand.found : errand.found[k] \in Nat
      /\ \A k \in DOMAIN errand.identity : errand.identity[k] \in Nat
  BY <1>4, VersionsAre
<1>7. order.task \in {"list", "delete"} /\ order.limit \in Nat
  BY DEF ShelfTyped, Order
<1>8. writes \in Nat /\ Newest + writes \in Nat
  <2>1. writes \in Nat
    BY DEF ShelfTyped
  <2> QED
    BY <2>1 DEF Newest
<1> QED
  BY <1>1, <1>2, <1>3, <1>4, <1>5, <1>6, <1>7, <1>8

(* Then the listing is complete and the deletion counts what is gone. *)
LEMMA ErrandTold ==
  ASSUME ErrandInv
  PROVE  PagesComplete /\ CountedIsGone /\ ReplacementStays
<1>1. ErrandInv /\ order.task \in {"list", "delete"}
  BY ShelfFacts DEF ErrandInv
<1>2. PagesComplete
  <2>1. ASSUME order.task = "list", errand.pc = "done", NEW k \in Keys \ altered["first page"],
               shelf[k].version # 0, Selected(shelf[k])
        PROVE  \E i \in DOMAIN errand.pages : errand.pages[i] = k
    BY <1>1, <2>1 DEF ErrandInv, PagesGrow, Unaltered, Paged
  <2>2. order.task = "list" =>
           \A i, j \in DOMAIN errand.pages : i < j => errand.pages[i] < errand.pages[j]
    BY <1>1 DEF ErrandInv, PagesGrow
  <2> QED
    BY <2>1, <2>2 DEF PagesComplete
<1>3. CountedIsGone
  BY <1>1 DEF ErrandInv, PassedIsGone, CountedIsGone
<1>4. ReplacementStays
  BY <1>1 DEF ErrandInv, ReplacementsNewer
<1> QED
  BY <1>2, <1>3, <1>4

(* A call that has not begun has told and deleted nothing. *)
NothingBegun ==
    /\ shelf \in Seq(Cell) /\ \A k \in DOMAIN shelf : shelf[k].version <= Newest
    /\ order \in Order /\ (order.task = "list" => order.limit # 0)
    /\ errand = NoErrand /\ writes = 0
    /\ altered = [since \in {"first page", "deletions"} |-> {}]

(* Then nothing that it told can be wrong. *)
LEMMA ErrandStarts ==
  ASSUME NothingBegun
  PROVE  ErrandInv
<1>1. /\ shelf \in Seq(Cell) /\ \A k \in DOMAIN shelf : shelf[k].version <= Newest
      /\ order \in Order /\ (order.task = "list" => order.limit # 0)
      /\ errand = NoErrand /\ writes = 0
      /\ altered = [since \in {"first page", "deletions"} |-> {}]
  BY DEF NothingBegun
<1>3. /\ errand.pc = "idle" /\ errand.cursor = 0 /\ errand.pages = <<>> /\ errand.at = 0
      /\ DOMAIN errand.found = {} /\ DOMAIN errand.identity = {} /\ errand.removed = {}
      /\ errand.pending = {} /\ errand.failed = {}
  BY <1>1 DEF NoErrand
<1>4. errand \in Errands
  <2> DEFINE none == [k \in {} |-> 0]
  <2>1. none \in Versions
    BY VersionsAre
  <2>2. errand = [pc |-> "idle", pending |-> {}, found |-> none, cursor |-> 0, pages |-> <<>>,
                  identity |-> none, at |-> 0, failed |-> {}, removed |-> {}]
    BY <1>1 DEF NoErrand
  <2>3. {} \in SUBSET Nat /\ <<>> \in Seq(Nat)
    OBVIOUS
  <2> HIDE DEF none
  <2> QED
    BY <2>1, <2>2, <2>3 DEF Errands
<1>5. ShelfTyped
  BY <1>1, <1>3, <1>4 DEF ShelfTyped
<1>6. Phases
  BY <1>3 DEF Phases, Deleting, Listing
<1>7. VersionsGrow
  <2>1. \A k \in Keys : shelf[k].version <= Newest + writes
    <3>1. \A k \in Keys : shelf[k].version <= Newest /\ shelf[k].version \in Nat
      BY <1>1, <1>5, ShelfFacts DEF Keys
    <3>2. Newest + writes = Newest
      <4>1. Newest + 0 = Newest
        BY DEF Newest
      <4>2. writes = 0
        BY <1>1
      <4> QED
        BY <4>1, <4>2
    <3> QED
      BY <3>1, <3>2
  <2> QED
    BY <1>3, <2>1 DEF VersionsGrow
<1>8. PagesGrow
  <2>1. DOMAIN errand.pages = {} /\ \A k \in Keys : ~(k <= errand.cursor)
    BY <1>3, <1>5, ShelfFacts
  <2> QED
    BY <1>3, <2>1 DEF PagesGrow
<1>9. PassedIsGone /\ ReplacementsNewer
  BY <1>3 DEF PassedIsGone, ReplacementsNewer, ReplacementStays, Deleting
<1> QED
  BY <1>5, <1>6, <1>7, <1>8, <1>9 DEF ErrandInv

(* What is found at once, *)
LEMMA CollectKeeps ==
  ASSUME ErrandInv, Collect
  PROVE  ErrandInv'
<1> DEFINE there == {k \in Keys : shelf[k].version # 0}
           read == {k \in there : shelf[k].kind \in Rows /\ Selected(shelf[k])}
           waiting == {k \in there : shelf[k].kind \notin Rows}
           versions == [k \in read |-> shelf[k].version]
<1>1. /\ errand.pc \in {"idle", "next page"}
      /\ errand' = [errand EXCEPT !.pc = "looking", !.found = versions, !.pending = waiting]
      /\ UNCHANGED <<shelf, order, writes, altered>>
  BY DEF Collect, Onward
<1> USE ShelfFacts DEF ErrandInv
<1>2. read \in SUBSET Keys /\ waiting \in SUBSET Keys /\ Keys \subseteq Nat
  OBVIOUS
<1>3. versions \in Versions /\ DOMAIN versions = read
      /\ \A k \in read : versions[k] = shelf[k].version /\ shelf[k].version # 0
  <2>1. versions \in [read -> Nat] /\ read \subseteq Nat
    BY <1>2
  <2> QED
    BY <2>1, VersionsAre
<1>4. \A k \in Keys : shelf[k].version # 0 /\ Selected(shelf[k]) => k \in waiting \cup read
  OBVIOUS
<1> HIDE DEF read, waiting, versions
<1>5. /\ errand'.pc = "looking" /\ errand'.found = versions /\ errand'.pending = waiting
      /\ errand'.cursor = errand.cursor /\ errand'.pages = errand.pages
      /\ errand'.identity = errand.identity /\ errand'.at = errand.at
      /\ errand'.failed = errand.failed /\ errand'.removed = errand.removed
      /\ errand' \in Errands
  BY <1>1, <1>2, <1>3 DEF ShelfTyped, Errands
<1>6. DOMAIN errand.identity = {} /\ errand.at = 0 /\ errand.removed = {}
  BY <1>1 DEF Phases, Listing, ShelfTyped
<1>7. ShelfTyped'
  BY <1>1, <1>2, <1>3, <1>5, <1>6 DEF ShelfTyped, Keys
<1>8. Phases'
  BY <1>1, <1>5, <1>6 DEF Phases, Listing, Deleting
<1>9. VersionsGrow'
  <2>1. \A k \in Keys : shelf[k].version <= Newest + writes /\ shelf[k].version \in Nat
    BY DEF VersionsGrow
  <2>2. \A k \in read : /\ versions[k] # 0 /\ versions[k] <= Newest + writes
                         /\ versions[k] <= shelf[k].version
    BY <1>2, <1>3, <2>1
  <2> QED
    BY <1>1, <1>3, <1>5, <1>6, <2>1, <2>2 DEF VersionsGrow, Keys
<1>10. PagesGrow'
  <2>1. \A k : Unaltered(k)' <=> Unaltered(k)
    BY <1>1 DEF Unaltered, Selected, Keys
  <2>2. \A k : Paged(k)' <=> Paged(k)
    BY <1>5 DEF Paged
  <2>3. \A k \in Keys : Unaltered(k) => k \in errand'.pending \cup DOMAIN errand'.found
    BY <1>3, <1>4, <1>5 DEF Unaltered
  <2> QED
    BY <1>1, <1>5, <2>1, <2>2, <2>3 DEF PagesGrow, Listing, Keys
<1>11. PassedIsGone' /\ ReplacementsNewer'
  BY <1>5, <1>6 DEF PassedIsGone, ReplacementsNewer, ReplacementStays, Deleting
<1> QED
  BY <1>7, <1>8, <1>9, <1>10, <1>11

(* A call that throws deletes and lists nothing more. *)
LEMMA ThrowKeeps ==
  ASSUME ErrandInv, errand' \in Errands, errand'.pc = "threw",
         errand'.pending = errand.pending, errand'.found = errand.found,
         errand'.pages = errand.pages, errand'.identity = errand.identity,
         errand'.removed = errand.removed,
         UNCHANGED <<shelf, order, writes, altered>>
  PROVE  ErrandInv'
<1> USE DEF ErrandInv
<1>1. ShelfTyped'
  BY DEF ShelfTyped, Keys
<1>2. Phases'
  BY DEF Phases, Listing, Deleting
<1>3. VersionsGrow'
  BY DEF VersionsGrow, Keys
<1>4. PagesGrow'
  BY DEF PagesGrow, Listing
<1>5. PassedIsGone' /\ ReplacementsNewer'
  BY DEF PassedIsGone, ReplacementsNewer, ReplacementStays, Deleting
<1> QED
  BY <1>1, <1>2, <1>3, <1>4, <1>5

(* what a look at a file adds or fails on, *)
LEMMA LookAtKeeps ==
  ASSUME ErrandInv, NEW k \in Keys, LookAt(k)
  PROVE  ErrandInv'
<1>1. /\ errand.pc = "looking" /\ k \in errand.pending
      /\ UNCHANGED <<shelf, order, writes, altered>>
      /\ errand' = IF shelf[k].version = 0 THEN [errand EXCEPT !.pc = "threw"]
                   ELSE [errand EXCEPT !.pending = @ \ {k}, !.found = Select(@, k)]
  BY DEF LookAt, Onward
<1>2. CASE shelf[k].version = 0
  <2>1. errand' = [errand EXCEPT !.pc = "threw"] /\ errand \in Errands
    BY <1>1, <1>2 DEF ErrandInv, ShelfTyped
  <2>2. /\ errand' \in Errands /\ errand'.pc = "threw"
        /\ errand'.pending = errand.pending /\ errand'.found = errand.found
        /\ errand'.pages = errand.pages /\ errand'.identity = errand.identity
        /\ errand'.removed = errand.removed
    BY <2>1 DEF Errands
  <2> QED
    BY <1>1, <2>2, ThrowKeeps
<1>3. CASE shelf[k].version # 0
  <2> DEFINE versions == Select(errand.found, k)
  <2> USE ShelfFacts DEF ErrandInv
  <2>1. errand' = [errand EXCEPT !.pending = @ \ {k}, !.found = versions] /\ errand \in Errands
    BY <1>1, <1>3 DEF ShelfTyped
  <2>2. /\ versions \in Versions /\ DOMAIN versions \subseteq Keys
        /\ DOMAIN errand.found \subseteq DOMAIN versions
        /\ Selected(shelf[k]) => k \in DOMAIN versions
        /\ \A j \in DOMAIN versions : \/ j = k /\ versions[j] = shelf[k].version
                                      \/ j \in DOMAIN errand.found /\ versions[j] = errand.found[j]
    <3>1. CASE Selected(shelf[k])
      <4>1. versions = [j \in DOMAIN errand.found \cup {k} |->
                            IF j = k THEN shelf[k].version ELSE errand.found[j]]
        BY <3>1 DEF Select
      <4>2. DOMAIN versions \subseteq Nat /\ versions \in [DOMAIN versions -> Nat]
        BY <4>1
      <4> QED
        BY <4>1, <4>2, VersionsAre
    <3>2. CASE ~Selected(shelf[k])
      BY <3>2 DEF Select
    <3> QED
      BY <3>1, <3>2
  <2> HIDE DEF versions
  <2>3. /\ errand'.pc = "looking" /\ errand'.found = versions
        /\ errand'.pending = errand.pending \ {k}
        /\ errand'.cursor = errand.cursor /\ errand'.pages = errand.pages
        /\ errand'.identity = errand.identity /\ errand'.at = errand.at
        /\ errand'.failed = errand.failed /\ errand'.removed = errand.removed
        /\ errand' \in Errands
    <3> DEFINE left == errand.pending \ {k}
    <3>1. errand' = [errand EXCEPT !.pending = left, !.found = versions]
      BY <2>1
    <3>2. left \in SUBSET Nat /\ errand \in Errands
      BY <2>1 DEF Errands
    <3> HIDE DEF left
    <3>3. /\ errand'.pc = errand.pc /\ errand'.found = versions /\ errand'.pending = left
          /\ errand'.cursor = errand.cursor /\ errand'.pages = errand.pages
          /\ errand'.identity = errand.identity /\ errand'.at = errand.at
          /\ errand'.failed = errand.failed /\ errand'.removed = errand.removed
          /\ errand' \in Errands
      BY <2>2, <3>1, <3>2 DEF Errands
    <3> QED
      BY <1>1, <3>3 DEF left
  <2>4. DOMAIN errand.identity = {} /\ errand.at = 0 /\ errand.removed = {}
    BY <1>1 DEF Phases, Listing, ShelfTyped
  <2>5. ShelfTyped'
    BY <1>1, <2>2, <2>3, <2>4 DEF ShelfTyped, Keys
  <2>6. Phases'
    BY <1>1, <2>3, <2>4 DEF Phases, Listing, Deleting
  <2>7. VersionsGrow'
    <3>1. shelf[k].version <= Newest + writes /\ shelf[k].version \in Nat
      BY DEF VersionsGrow
    <3>2. \A j \in DOMAIN versions : /\ versions[j] # 0 /\ versions[j] <= Newest + writes
                                     /\ shelf[j].version = 0 \/ versions[j] <= shelf[j].version
      <4>1. TAKE j \in DOMAIN versions
      <4>2. CASE j = k /\ versions[j] = shelf[k].version
        BY <1>3, <3>1, <4>2
      <4>3. CASE j \in DOMAIN errand.found /\ versions[j] = errand.found[j]
        BY <4>3 DEF VersionsGrow
      <4> QED
        BY <2>2, <4>2, <4>3
    <3> QED
      BY <1>1, <2>3, <2>4, <3>2 DEF VersionsGrow, Keys
  <2>8. PagesGrow'
    <3>1. \A j : Unaltered(j)' <=> Unaltered(j)
      BY <1>1 DEF Unaltered, Selected, Keys
    <3>2. \A j : Paged(j)' <=> Paged(j)
      BY <2>3 DEF Paged
    <3>3. order.task = "list" =>
             \A j \in Keys : Unaltered(j) => j \in errand'.pending \cup DOMAIN errand'.found
      BY <1>1, <2>2, <2>3 DEF Unaltered, PagesGrow
    <3> QED
      BY <1>1, <2>3, <3>1, <3>2, <3>3 DEF PagesGrow, Listing, Keys
  <2>9. PassedIsGone' /\ ReplacementsNewer'
    BY <2>3, <2>4 DEF PassedIsGone, ReplacementsNewer, ReplacementStays, Deleting
  <2> QED
    BY <2>5, <2>6, <2>7, <2>8, <2>9
<1> QED
  BY <1>2, <1>3

(* What is beyond the first of two stretches is in the second. *)
LEMMA BeyondThere ==
  ASSUME NEW here \in Nat, NEW more \in Nat, NEW i \in 1 .. here + more, ~(i <= here)
  PROVE  \E j \in 1 .. more : i = here + j
<1>1. i - here \in 1 .. more /\ i = here + (i - here)
  OBVIOUS
<1> QED
  BY <1>1

(* Two pages one after the other. *)
LEMMA PagesJoin ==
  ASSUME NEW s \in Seq(Nat), NEW t \in Seq(Nat)
  PROVE  /\ s \o t \in Seq(Nat) /\ Len(s \o t) = Len(s) + Len(t)
         /\ \A i \in 1 .. Len(s) : (s \o t)[i] = s[i]
         /\ \A i \in 1 .. Len(t) : (s \o t)[Len(s) + i] = t[i]
BY ConcatProperties

(* A page takes up the rest in the order of its keys. *)
LEMMA ListKeeps ==
  ASSUME ErrandInv, List
  PROVE  ErrandInv'
<1> DEFINE count == Cardinality(Rest)
<1>1. PICK rest \in [1 .. count -> Rest] :
        LET more == Len(rest) > order.limit
            page == IF more THEN SubSeq(rest, 1, order.limit) ELSE rest
        IN  /\ errand.pc = "looking" /\ errand.pending = {} /\ order.task = "list"
            /\ Lists(rest, Rest)
            /\ Onward([errand EXCEPT !.pages = @ \o page,
                                     !.pc = IF more THEN "next page" ELSE "done",
                                     !.cursor = IF more THEN page[order.limit] ELSE @])
            /\ UNCHANGED shelf
  BY DEF List
<1> DEFINE more == Len(rest) > order.limit
           page == IF more THEN SubSeq(rest, 1, order.limit) ELSE rest
           size == IF more THEN order.limit ELSE count
           last == IF more THEN page[order.limit] ELSE errand.cursor
           listed == errand.pages \o page
<1>2. /\ errand.pc = "looking" /\ errand.pending = {} /\ order.task = "list"
      /\ Lists(rest, Rest) /\ UNCHANGED <<shelf, order, writes, altered>>
      /\ errand' = [errand EXCEPT !.pages = listed, !.pc = IF more THEN "next page" ELSE "done",
                                  !.cursor = last]
  BY <1>1 DEF Onward
<1> USE ShelfFacts DEF ErrandInv
<1>3. count \in Nat /\ Rest \subseteq Nat /\ \A k \in Rest : k > errand.cursor
  <2>1. Rest \subseteq Keys
    BY DEF Rest
  <2>2. IsFiniteSet(Rest)
    BY <2>1, FS_Subset
  <2> QED
    BY <2>1, <2>2, FS_CardinalityType DEF Rest
<1>4. order.limit \in Nat /\ order.limit # 0
  BY <1>2 DEF ShelfTyped
<1>5. /\ rest \in Seq(Nat) /\ Len(rest) = count /\ \A i \in 1 .. count : rest[i] \in Rest
  <2>1. rest \in [1 .. count -> Rest]
    BY <1>1
  <2> HIDE DEF count
  <2>2. rest \in [1 .. count -> Nat]
    BY <1>3, <2>1
  <2> QED
    BY <1>3, <2>1, <2>2
<1>6. /\ size \in Nat /\ size <= count /\ page \in Seq(Nat) /\ Len(page) = size
      /\ \A i \in 1 .. size : page[i] = rest[i]
  <2>1. CASE more
    <3>1. size = order.limit /\ size \in 1 .. count /\ page = SubSeq(rest, 1, size)
      BY <1>3, <1>4, <1>5, <2>1
    <3>2. \A i \in 1 .. size : rest[i] \in Nat
      <4>1. \A i \in 1 .. size : i \in 1 .. count
        BY <1>3, <3>1
      <4> QED
        BY <1>3, <1>5, <4>1
    <3> QED
      BY <1>3, <1>5, <3>1, <3>2
  <2>2. CASE ~more
    BY <1>3, <1>5, <2>2
  <2> QED
    BY <2>1, <2>2
<1>7. /\ more => size \in 1 .. count /\ last = rest[size]
      /\ ~more => size = count /\ last = errand.cursor
  BY <1>3, <1>4, <1>5, <1>6
<1>8. \A i, j \in 1 .. count : i < j => rest[i] < rest[j]
  BY <1>2, <1>5 DEF Lists
<1>9. \A k \in Rest : \E i \in 1 .. count : rest[i] = k
  BY <1>2, <1>5 DEF Lists
<1> HIDE DEF page, size, last, count
<1>10. /\ listed \in Seq(Nat) /\ DOMAIN listed = 1 .. Len(errand.pages) + size
       /\ Len(errand.pages) \in Nat /\ DOMAIN errand.pages = 1 .. Len(errand.pages)
       /\ \A i \in 1 .. Len(errand.pages) : listed[i] = errand.pages[i]
       /\ \A i \in 1 .. size : listed[Len(errand.pages) + i] = rest[i]
  <2>1. errand.pages \in Seq(Nat)
    OBVIOUS
  <2>2. /\ listed \in Seq(Nat) /\ Len(listed) = Len(errand.pages) + Len(page)
        /\ \A i \in 1 .. Len(errand.pages) : listed[i] = errand.pages[i]
        /\ \A i \in 1 .. Len(page) : listed[Len(errand.pages) + i] = page[i]
    BY <1>6, <2>1, PagesJoin
  <2> QED
    BY <1>6, <2>1, <2>2
<1> HIDE DEF listed
<1>11. last \in Nat
  BY <1>3, <1>5, <1>7
<1> HIDE DEF more
<1>12. /\ errand'.pc = IF more THEN "next page" ELSE "done"
       /\ errand'.pending = errand.pending /\ errand'.found = errand.found
       /\ errand'.cursor = last /\ errand'.pages = listed
       /\ errand'.identity = errand.identity /\ errand'.at = errand.at
       /\ errand'.failed = errand.failed /\ errand'.removed = errand.removed
       /\ errand' \in Errands
  BY <1>2, <1>10, <1>11 DEF ShelfTyped, Errands
<1>13. DOMAIN errand.identity = {} /\ errand.at = 0 /\ errand.removed = {}
  BY <1>2 DEF Phases, Listing, ShelfTyped
<1>14. ShelfTyped'
  BY <1>2, <1>12 DEF ShelfTyped, Keys
<1>15. Phases'
  BY <1>2, <1>12, <1>13 DEF Phases, Listing, Deleting
<1>16. VersionsGrow'
  BY <1>2, <1>12 DEF VersionsGrow, Keys
<1>17. PagesGrow'
  <2>1. /\ \A i, j \in DOMAIN errand.pages : i < j => errand.pages[i] < errand.pages[j]
        /\ \A i \in DOMAIN errand.pages : errand.pages[i] <= errand.cursor
        /\ \A i \in DOMAIN errand.pages : errand.pages[i] \in Nat
        /\ \A k \in Keys : Unaltered(k) /\ k <= errand.cursor => Paged(k)
        /\ \A k \in Keys : Unaltered(k) => k \in DOMAIN errand.found
    BY <1>2 DEF PagesGrow, Listing
  <2>2. \A i \in DOMAIN listed :
           \/ i \in DOMAIN errand.pages /\ listed[i] = errand.pages[i]
           \/ \E j \in 1 .. size : i = Len(errand.pages) + j /\ listed[i] = rest[j]
    <3>1. TAKE i \in DOMAIN listed
    <3>2. CASE i <= Len(errand.pages)
      BY <1>10, <3>2
    <3>3. CASE ~(i <= Len(errand.pages))
      <4>1. \E j \in 1 .. size : i = Len(errand.pages) + j
        <5>1. Len(errand.pages) \in Nat /\ size \in Nat /\ i \in 1 .. Len(errand.pages) + size
          BY <1>6, <1>10
        <5> QED
          BY <3>3, <5>1, BeyondThere
      <4> QED
        BY <1>10, <4>1
    <3> QED
      BY <3>2, <3>3
  <2>3. ASSUME NEW i \in DOMAIN listed, NEW j \in DOMAIN listed, i < j
        PROVE  listed[i] < listed[j]
    <3>1. CASE i \in DOMAIN errand.pages /\ j \in DOMAIN errand.pages
      BY <1>10, <2>1, <2>3, <3>1
    <3>2. CASE i \in DOMAIN errand.pages /\ j \notin DOMAIN errand.pages
      <4>1. PICK m \in 1 .. size : listed[j] = rest[m]
        BY <2>2, <3>2
      <4>2. rest[m] \in Nat /\ rest[m] > errand.cursor
        BY <1>3, <1>5, <1>6, <4>1
      <4>3. listed[i] <= errand.cursor /\ listed[i] \in Nat
        BY <1>10, <2>1, <3>2
      <4> QED
        BY <4>1, <4>2, <4>3
    <3>3. CASE i \notin DOMAIN errand.pages /\ j \notin DOMAIN errand.pages
      <4>1. PICK m \in 1 .. size : i = Len(errand.pages) + m /\ listed[i] = rest[m]
        BY <2>2, <3>3
      <4>2. PICK n \in 1 .. size : j = Len(errand.pages) + n /\ listed[j] = rest[n]
        BY <2>2, <3>3
      <4>3. m < n /\ m \in 1 .. count /\ n \in 1 .. count
        BY <1>3, <1>6, <1>10, <2>3, <4>1, <4>2
      <4> QED
        BY <1>8, <4>1, <4>2, <4>3
    <3>4. CASE i \notin DOMAIN errand.pages /\ j \in DOMAIN errand.pages
      BY <1>6, <1>10, <2>3, <3>4
    <3> QED
      BY <3>1, <3>2, <3>3, <3>4
  <2>4. ASSUME more, NEW i \in DOMAIN listed
        PROVE  listed[i] <= last
    <3>1. size \in 1 .. count /\ last = rest[size] /\ last \in Rest
      BY <1>5, <1>7, <2>4
    <3>2. CASE i \in DOMAIN errand.pages
      <4>1. listed[i] <= errand.cursor /\ listed[i] \in Nat
        BY <1>10, <2>1, <3>2
      <4>2. last > errand.cursor
        BY <1>3, <3>1
      <4> QED
        BY <1>11, <4>1, <4>2
    <3>3. CASE i \notin DOMAIN errand.pages
      <4>1. PICK m \in 1 .. size : listed[i] = rest[m]
        BY <2>2, <3>3
      <4>2. m \in 1 .. count /\ (m = size \/ m < size)
        BY <1>3, <3>1, <4>1
      <4>3. rest[m] \in Nat /\ (m = size \/ rest[m] < rest[size])
        BY <1>3, <1>5, <1>8, <3>1, <4>2
      <4> QED
        BY <1>11, <3>1, <4>1, <4>3
    <3> QED
      BY <3>2, <3>3
  <2>5. ASSUME NEW k \in Keys, Unaltered(k), more => k <= last
        PROVE  \E i \in DOMAIN listed : listed[i] = k
    <3>1. CASE k <= errand.cursor
      <4>1. PICK i \in DOMAIN errand.pages : errand.pages[i] = k
        BY <2>1, <2>5, <3>1 DEF Paged
      <4>2. i \in 1 .. Len(errand.pages) /\ Len(errand.pages) \in Nat
        BY <1>10, <4>1
      <4>3. i \in 1 .. Len(errand.pages) + size
        BY <1>6, <4>2
      <4>4. i \in DOMAIN listed /\ listed[i] = k
        BY <1>10, <4>1, <4>2, <4>3
      <4> QED
        BY <4>4
    <3>2. CASE ~(k <= errand.cursor)
      <4>1. k \in Rest
        BY <2>1, <2>5, <3>2 DEF Rest
      <4>2. PICK m \in 1 .. count : rest[m] = k
        BY <1>9, <4>1
      <4>3. m \in 1 .. size
        <5>1. CASE more
          <6>1. size \in 1 .. count /\ last = rest[size]
            BY <1>7, <5>1
          <6>2. ~(size < m)
            <7>1. ASSUME size < m PROVE FALSE
              <8>1. rest[size] < rest[m] /\ rest[size] \in Nat /\ rest[m] \in Nat
                BY <1>3, <1>5, <1>8, <4>2, <6>1, <7>1
              <8> QED
                BY <2>5, <4>2, <5>1, <6>1, <8>1
            <7> QED
              BY <7>1
          <6> QED
            BY <1>3, <4>2, <6>1, <6>2
        <5>2. CASE ~more
          BY <1>7, <4>2, <5>2
        <5> QED
          BY <5>1, <5>2
      <4>4. Len(errand.pages) + m \in DOMAIN listed /\ listed[Len(errand.pages) + m] = k
        BY <1>6, <1>10, <4>2, <4>3
      <4> QED
        BY <4>4
    <3> QED
      BY <3>1, <3>2
  <2>6. \A k : Unaltered(k)' <=> Unaltered(k)
    BY <1>2 DEF Unaltered, Selected, Keys
  <2>7. \A k : Paged(k)' <=> \E i \in DOMAIN listed : listed[i] = k
    BY <1>12 DEF Paged
  <2> QED
    BY <1>2, <1>12, <2>3, <2>4, <2>5, <2>6, <2>7 DEF PagesGrow, Listing, Keys
<1>18. PassedIsGone' /\ ReplacementsNewer'
  BY <1>2, <1>12, <1>13 DEF PassedIsGone, ReplacementsNewer, ReplacementStays, Deleting
<1> QED
  BY <1>14, <1>15, <1>16, <1>17, <1>18

(* What a download was, which is no older than what was found of it, *)
LEMMA CaptureKeeps ==
  ASSUME ErrandInv, NEW k \in Keys, Capture(k)
  PROVE  ErrandInv'
<1> DEFINE versions == [j \in DOMAIN errand.identity \cup {k} |->
                           IF j = k THEN Identified(k) ELSE errand.identity[j]]
<1>1. /\ errand.pc = "looking" /\ errand.pending = {} /\ order.task = "delete"
      /\ k \in DOMAIN errand.found /\ UNCHANGED <<shelf, order, writes, altered>>
      /\ errand' = [errand EXCEPT !.identity = versions]
  BY DEF Capture, Onward, Downloads
<1> USE ShelfFacts DEF ErrandInv
<1>2. Identified(k) \in Nat /\ (Identified(k) # 0 => Identified(k) = shelf[k].version)
  BY DEF Identified
<1>3. /\ versions \in Versions /\ DOMAIN versions = DOMAIN errand.identity \cup {k}
      /\ \A j \in DOMAIN versions : \/ j = k /\ versions[j] = Identified(k)
                                    \/ /\ j \in DOMAIN errand.identity
                                       /\ versions[j] = errand.identity[j]
  <2>1. DOMAIN versions \subseteq Nat /\ versions \in [DOMAIN versions -> Nat]
    BY <1>2
  <2> QED
    BY <2>1, VersionsAre
<1> HIDE DEF versions
<1>4. /\ errand'.pc = errand.pc /\ errand'.pending = errand.pending
      /\ errand'.found = errand.found /\ errand'.identity = versions
      /\ errand'.cursor = errand.cursor /\ errand'.pages = errand.pages
      /\ errand'.at = errand.at /\ errand'.failed = errand.failed
      /\ errand'.removed = errand.removed /\ errand' \in Errands
  BY <1>1, <1>3 DEF ShelfTyped, Errands
<1>5. errand.at = 0
  BY <1>1 DEF Phases, Listing
<1>6. ShelfTyped'
  BY <1>1, <1>3, <1>4 DEF ShelfTyped, Keys
<1>7. Phases'
  BY <1>1, <1>4, <1>5 DEF Phases, Listing, Deleting
<1>8. VersionsGrow'
  <2>1. /\ errand.found[k] # 0 /\ (shelf[k].version = 0 \/ errand.found[k] <= shelf[k].version)
        /\ shelf[k].version <= Newest + writes
    BY <1>1 DEF VersionsGrow
  <2>2. \A j \in DOMAIN versions : versions[j] # 0 =>
           /\ errand.found[j] <= versions[j] /\ versions[j] <= Newest + writes
           /\ shelf[j].version = 0 \/ versions[j] <= shelf[j].version
    <3>1. TAKE j \in DOMAIN versions
    <3>2. CASE j = k /\ versions[j] = Identified(k)
      BY <1>1, <1>2, <2>1, <3>2
    <3>3. CASE j \in DOMAIN errand.identity /\ versions[j] = errand.identity[j]
      BY <3>3 DEF VersionsGrow
    <3> QED
      BY <1>3, <3>2, <3>3
  <2> QED
    BY <1>1, <1>4, <2>2 DEF VersionsGrow, Keys
<1>9. PagesGrow'
  BY <1>1 DEF PagesGrow
<1>10. PassedIsGone' /\ ReplacementsNewer'
  <2>1. \A j \in errand.removed : versions[j] = 0
    <3>1. errand.removed = {} \/ \A j \in errand.removed : j # k
      BY <1>1 DEF Capture, ShelfTyped
    <3> QED
      BY <1>3, <3>1 DEF ReplacementsNewer, ReplacementStays, ShelfTyped
  <2> QED
    BY <1>1, <1>4, <2>1 DEF PassedIsGone, ReplacementsNewer, ReplacementStays, Deleting
<1> QED
  BY <1>6, <1>7, <1>8, <1>9, <1>10

(* the first deletion, since which nothing was written yet, *)
LEMMA BeginKeeps ==
  ASSUME ErrandInv, Begin
  PROVE  ErrandInv'
<1>1. /\ errand.pc = "looking" /\ errand.pending = {} /\ order.task = "delete"
      /\ Downloads \subseteq DOMAIN errand.identity
      /\ errand' = [errand EXCEPT !.pc = "deleting"]
      /\ altered' = [altered EXCEPT !["deletions"] = {}] /\ UNCHANGED <<shelf, order, writes>>
  BY DEF Begin
<1> USE ShelfFacts DEF ErrandInv
<1>2. /\ errand'.pc = "deleting" /\ errand'.pending = errand.pending
      /\ errand'.found = errand.found /\ errand'.identity = errand.identity
      /\ errand'.cursor = errand.cursor /\ errand'.pages = errand.pages
      /\ errand'.at = errand.at /\ errand'.failed = errand.failed
      /\ errand'.removed = errand.removed /\ errand' \in Errands
  BY <1>1 DEF ShelfTyped, Errands
<1>3. errand.at = 0 /\ altered'["deletions"] = {} /\ DOMAIN altered' = DOMAIN altered
  BY <1>1 DEF Phases, Listing, ShelfTyped
<1>4. ShelfTyped'
  BY <1>1, <1>2, <1>3 DEF ShelfTyped, Keys
<1>5. Phases'
  BY <1>1, <1>2 DEF Phases, Listing, Deleting, Downloads
<1>6. VersionsGrow'
  BY <1>1, <1>2 DEF VersionsGrow, Keys
<1>7. PagesGrow'
  BY <1>1 DEF PagesGrow
<1>8. PassedIsGone'
  <2>1. \A k \in DOMAIN errand.found : ~(k <= errand'.at)
    BY <1>2, <1>3
  <2> QED
    BY <1>2, <2>1 DEF PassedIsGone
<1>9. ReplacementsNewer'
  BY <1>1, <1>2, <1>3 DEF ReplacementsNewer, ReplacementStays, Deleting
<1> QED
  BY <1>4, <1>5, <1>6, <1>7, <1>8, <1>9

(* the count of what failed: what is not counted is newer than what was found; *)
LEMMA CheckDeletedKeeps ==
  ASSUME ErrandInv, CheckDeleted
  PROVE  ErrandInv'
<1> DEFINE failed == errand.failed \cup CountsFailed(errand.at)
<1>1. /\ errand.pc = "checking" /\ errand' = [errand EXCEPT !.pc = "deleting", !.failed = failed]
      /\ UNCHANGED <<shelf, order, writes, altered>>
  BY DEF CheckDeleted, Onward
<1> USE ShelfFacts DEF ErrandInv
<1>2. failed \in SUBSET Nat
  BY DEF CountsFailed
<1>3. /\ errand.at \notin failed => shelf[errand.at].version # 0 /\ Replaced(errand.at)
      /\ errand.failed \subseteq failed
  BY DEF CountsFailed
<1> HIDE DEF failed
<1>4. /\ errand'.pc = "deleting" /\ errand'.pending = errand.pending
      /\ errand'.found = errand.found /\ errand'.identity = errand.identity
      /\ errand'.cursor = errand.cursor /\ errand'.pages = errand.pages
      /\ errand'.at = errand.at /\ errand'.failed = failed
      /\ errand'.removed = errand.removed /\ errand' \in Errands
  BY <1>1, <1>2 DEF ShelfTyped, Errands
<1>5. order.task = "delete" /\ errand.at \in DOMAIN errand.identity
  BY <1>1 DEF Phases, Deleting
<1>6. ShelfTyped'
  BY <1>1, <1>4 DEF ShelfTyped, Keys
<1>7. Phases'
  BY <1>1, <1>4, <1>5 DEF Phases, Listing, Deleting, Downloads
<1>8. VersionsGrow'
  BY <1>1, <1>4 DEF VersionsGrow, Keys
<1>9. PagesGrow'
  BY <1>1, <1>5 DEF PagesGrow
<1>10. PassedIsGone'
  <2>1. ASSUME NEW k \in DOMAIN errand.found \ failed, k <= errand.at
        PROVE  shelf[k].version # errand.found[k]
    <3>1. CASE k = errand.at
      <4>1. shelf[k].version # 0 /\ errand.identity[k] # 0 /\ shelf[k].version # errand.identity[k]
        BY <1>3, <3>1 DEF Replaced
      <4>2. errand.found[k] <= errand.identity[k] /\ errand.identity[k] <= shelf[k].version
        BY <1>5, <3>1, <4>1 DEF VersionsGrow
      <4>3. /\ errand.found[k] \in Nat /\ errand.identity[k] \in Nat /\ shelf[k].version \in Nat
        BY <1>5, <3>1
      <4> QED
        BY <4>1, <4>2, <4>3
    <3>2. CASE k # errand.at
      BY <1>1, <1>3, <1>5, <2>1, <3>2 DEF PassedIsGone, Deleting
    <3> QED
      BY <3>1, <3>2
  <2> QED
    BY <1>1, <1>4, <2>1 DEF PassedIsGone
<1>11. ReplacementsNewer'
  BY <1>1, <1>4 DEF ReplacementsNewer, ReplacementStays, Deleting
<1> QED
  BY <1>6, <1>7, <1>8, <1>9, <1>10, <1>11

(* and when all is passed the call is done. *)
LEMMA FinishKeeps ==
  ASSUME ErrandInv, Finish
  PROVE  ErrandInv'
<1>1. /\ errand.pc = "deleting" /\ Upcoming = {} /\ errand' = [errand EXCEPT !.pc = "done"]
      /\ UNCHANGED <<shelf, order, writes, altered>>
  BY DEF Finish, Onward
<1> USE ShelfFacts DEF ErrandInv
<1>2. /\ errand'.pc = "done" /\ errand'.pending = errand.pending
      /\ errand'.found = errand.found /\ errand'.identity = errand.identity
      /\ errand'.cursor = errand.cursor /\ errand'.pages = errand.pages
      /\ errand'.at = errand.at /\ errand'.failed = errand.failed
      /\ errand'.removed = errand.removed /\ errand' \in Errands
  BY <1>1 DEF ShelfTyped, Errands
<1>3. order.task = "delete"
  BY <1>1 DEF Phases, Deleting
<1>4. \A k \in DOMAIN errand.found : k <= errand.at
  BY <1>1 DEF Upcoming
<1>5. ShelfTyped'
  BY <1>1, <1>2 DEF ShelfTyped, Keys
<1>6. Phases' /\ VersionsGrow' /\ PagesGrow'
  BY <1>1, <1>2, <1>3 DEF Phases, Listing, Deleting, VersionsGrow, PagesGrow, Keys
<1>7. PassedIsGone'
  BY <1>1, <1>2, <1>3, <1>4 DEF PassedIsGone, Deleting
<1>8. ReplacementsNewer'
  BY <1>1, <1>2 DEF ReplacementsNewer, ReplacementStays, Deleting
<1> QED
  BY <1>5, <1>6, <1>7, <1>8

(* One entry changes and the others stay. *)
LEMMA ShelfChanged ==
  ASSUME shelf \in Seq(Cell), NEW k \in Keys, NEW cell \in Cell,
         shelf' = [shelf EXCEPT ![k] = cell]
  PROVE  /\ shelf' \in Seq(Cell) /\ Keys' = Keys /\ shelf'[k] = cell
         /\ \A j \in Keys : j # k => shelf'[j] = shelf[j]
<1>1. Keys = 1 .. Len(shelf)
  BY DEF Keys
<1>2. shelf' \in Seq(Cell) /\ Len(shelf') = Len(shelf)
  BY <1>1, ExceptSeq
<1> QED
  BY <1>1, <1>2 DEF Keys

(* One entry is passed: what is there afterwards is what was there, or nothing. *)
LEMMA PassOnKeeps ==
  ASSUME ErrandInv, NEW k, NextUp(k), NEW cell \in Cell,
         cell.kind = shelf[k].kind, cell.version \in {0, shelf[k].version},
         shelf' = [shelf EXCEPT ![k] = cell], UNCHANGED <<order, writes, altered>>,
         errand' \in Errands, errand'.at = k,
         \/ errand'.pc = "deleting" /\ cell.version = 0
         \/ errand'.pc = "checking" /\ shelf[k].kind = "downloads"
         \/ errand'.pc = "threw",
         errand'.pending = errand.pending, errand'.found = errand.found,
         errand'.cursor = errand.cursor, errand'.pages = errand.pages,
         errand'.identity = errand.identity, errand'.failed = errand.failed,
         errand'.removed = errand.removed \/
            /\ errand'.removed = errand.removed \cup {k} /\ shelf[k].kind = "downloads"
            /\ cell.version = 0 /\ ~Replaced(k) /\ Identified(k) # 0
            /\ k \in altered["deletions"]
  PROVE  ErrandInv'
<1>1. /\ errand.pc = "deleting" /\ k \in DOMAIN errand.found
      /\ \A j \in DOMAIN errand.found : j <= errand.at \/ k <= j
  <2>1. errand.pc = "deleting" /\ k \in Upcoming /\ \A j \in Upcoming : k <= j
    BY DEF NextUp
  <2>2. \A j \in DOMAIN errand.found : j \in Nat /\ errand.at \in Nat
    BY ShelfFacts DEF ErrandInv
  <2> QED
    BY <2>1, <2>2 DEF Upcoming
<1> USE ShelfFacts DEF ErrandInv
<1>2. k \in Keys /\ order.task = "delete"
  BY <1>1 DEF Phases, Deleting
<1>3. /\ shelf' \in Seq(Cell) /\ Keys' = Keys /\ shelf'[k] = cell
      /\ \A j \in Keys : j # k => shelf'[j] = shelf[j]
  BY <1>2, ShelfChanged DEF ShelfTyped
<1>4. \A j \in Keys : /\ shelf'[j].kind = shelf[j].kind
                      /\ shelf'[j].version \in {0, shelf[j].version}
  BY <1>3
<1>5. /\ shelf[k].kind = "downloads" => k \in DOMAIN errand.identity
      /\ errand'.removed \subseteq DOMAIN errand.identity
  BY <1>1 DEF Phases, Deleting, Downloads, ShelfTyped
<1>6. ShelfTyped'
  <2>1. /\ order' \in Order /\ (order'.task = "list" => order'.limit # 0) /\ writes' \in Nat
        /\ DOMAIN altered' = {"first page", "deletions"}
    BY DEF ShelfTyped
  <2>2. /\ DOMAIN errand'.found \subseteq Keys'
        /\ DOMAIN errand'.identity \subseteq DOMAIN errand'.found
    BY <1>3 DEF ShelfTyped
  <2> QED
    BY <1>3, <1>5, <2>1, <2>2 DEF ShelfTyped
<1>7. Phases'
  <2>1. Downloads' = Downloads
    BY <1>1, <1>4 DEF Downloads, ShelfTyped
  <2>2. /\ DOMAIN errand.identity # {} => errand.pending = {}
        /\ Downloads \subseteq DOMAIN errand.identity
    BY <1>1 DEF Phases, Deleting
  <2> QED
    BY <1>1, <1>2, <1>5, <2>1, <2>2 DEF Phases, Listing, Deleting
<1>8. VersionsGrow'
  <2>1. \A j \in Keys : shelf'[j].version <= Newest + writes
    BY <1>4 DEF VersionsGrow
  <2>2. \A j \in DOMAIN errand.found :
          /\ errand.found[j] # 0 /\ errand.found[j] <= Newest + writes
          /\ shelf'[j].version = 0 \/ errand.found[j] <= shelf'[j].version
    BY <1>4 DEF VersionsGrow
  <2>3. \A j \in DOMAIN errand.identity : errand.identity[j] # 0 =>
          /\ errand.found[j] <= errand.identity[j] /\ errand.identity[j] <= Newest + writes
          /\ shelf'[j].version = 0 \/ errand.identity[j] <= shelf'[j].version
    BY <1>4 DEF VersionsGrow
  <2> QED
    BY <1>3, <2>1, <2>2, <2>3 DEF VersionsGrow
<1>9. PagesGrow'
  BY <1>2 DEF PagesGrow
<1>10. PassedIsGone'
  <2>1. ASSUME NEW j \in DOMAIN errand.found \ errand.failed, errand'.pc # "threw",
               j <= k, ~(errand'.pc = "checking" /\ j = k)
        PROVE  shelf'[j].version # errand.found[j]
    <3>1. CASE j = k
      BY <1>1, <1>3, <2>1, <3>1 DEF VersionsGrow
    <3>2. CASE j # k
      <4>1. j <= errand.at
        BY <1>1, <1>2, <2>1, <3>2
      <4>2. shelf[j].version # errand.found[j]
        BY <1>1, <1>2, <2>1, <4>1 DEF PassedIsGone, Deleting
      <4> QED
        BY <1>3, <3>2, <4>2
    <3> QED
      BY <3>1, <3>2
  <2> QED
    BY <2>1 DEF PassedIsGone, Deleting
<1>11. ReplacementsNewer'
  <2>1. ReplacementStays'
    <3>1. \A j \in errand.removed : errand.identity[j] = 0
      BY DEF ReplacementsNewer, ReplacementStays
    <3>2. ASSUME k \in errand'.removed, k \notin errand.removed
          PROVE  errand.identity[k] = 0
      <4>1. ~Replaced(k) /\ Identified(k) # 0 /\ k \in altered["deletions"]
            /\ k \in DOMAIN errand.identity
        BY <1>5, <3>2
      <4>2. shelf[k].described /\ shelf[k].version # 0
        BY <4>1 DEF Identified
      <4>3. errand.identity[k] < shelf[k].version
        BY <1>1, <4>1, <4>2 DEF ReplacementsNewer, Deleting
      <4>4. errand.identity[k] = 0 \/ shelf[k].version = errand.identity[k]
        BY <4>1, <4>2 DEF Replaced
      <4>5. errand.identity[k] \in Nat /\ shelf[k].version \in Nat
        BY <1>2, <4>1
      <4> QED
        BY <4>3, <4>4, <4>5
    <3> QED
      BY <3>1, <3>2 DEF ReplacementStays
  <2>2. \A j \in altered["deletions"] \cap DOMAIN errand.identity :
           shelf'[j].version = 0 \/ errand.identity[j] < shelf'[j].version
    BY <1>1, <1>4 DEF ReplacementsNewer, Deleting
  <2> QED
    BY <2>1, <2>2 DEF ReplacementsNewer
<1> QED
  BY <1>6, <1>7, <1>8, <1>9, <1>10, <1>11

(* What is removed leaves an empty cell of its kind. *)
LEMMA GoneIsCell ==
  ASSUME NEW cell \in Cell
  PROVE  /\ Gone(cell) \in Cell /\ Gone(cell).kind = cell.kind /\ Gone(cell).version = 0
BY DEF Gone, Cell

(* A row is deleted, *)
LEMMA DeleteRowKeeps ==
  ASSUME ErrandInv, NEW k \in Keys, DeleteRow(k)
  PROVE  ErrandInv'
<1>1. /\ NextUp(k) /\ shelf' = [shelf EXCEPT ![k] = Gone(@)]
      /\ errand' = [errand EXCEPT !.at = k] /\ UNCHANGED <<order, writes, altered>>
  BY DEF DeleteRow, Onward
<1>2. errand.pc = "deleting" /\ errand \in Errands /\ shelf[k] \in Cell /\ k \in Nat
  BY <1>1, ShelfFacts DEF NextUp, ErrandInv, ShelfTyped
<1>3. shelf' = [shelf EXCEPT ![k] = Gone(shelf[k])]
  BY <1>1
<1>4. /\ errand' \in Errands /\ errand'.at = k /\ errand'.pc = "deleting"
      /\ errand'.pending = errand.pending /\ errand'.found = errand.found
      /\ errand'.cursor = errand.cursor /\ errand'.pages = errand.pages
      /\ errand'.identity = errand.identity /\ errand'.failed = errand.failed
      /\ errand'.removed = errand.removed
  BY <1>1, <1>2 DEF Errands
<1> QED
  BY <1>1, <1>2, <1>3, <1>4, GoneIsCell, PassOnKeeps

(* a file is, unless it is held, *)
LEMMA DeleteFileKeeps ==
  ASSUME ErrandInv, NEW k \in Keys, DeleteFile(k)
  PROVE  ErrandInv'
<1> DEFINE held == shelf[k].version # 0 /\ shelf[k].grip # "free"
           left == IF held THEN shelf[k] ELSE Gone(shelf[k])
<1>1. /\ NextUp(k) /\ shelf' = IF held THEN shelf ELSE [shelf EXCEPT ![k] = Gone(@)]
      /\ errand' = [errand EXCEPT !.at = k, !.pc = IF held THEN "threw" ELSE @]
      /\ UNCHANGED <<order, writes, altered>>
  BY DEF DeleteFile, Onward
<1>2. /\ errand.pc = "deleting" /\ errand \in Errands /\ shelf[k] \in Cell /\ k \in Nat
      /\ shelf \in Seq(Cell)
  BY <1>1, ShelfFacts DEF NextUp, ErrandInv, ShelfTyped
<1>3. /\ left \in Cell /\ left.kind = shelf[k].kind /\ left.version \in {0, shelf[k].version}
      /\ ~held => left.version = 0
  BY <1>2, GoneIsCell
<1>4. shelf' = [shelf EXCEPT ![k] = left]
  <2>1. CASE held
    <3>1. shelf = [j \in DOMAIN shelf |-> shelf[j]]
      BY <1>2
    <3> QED
      BY <1>1, <2>1, <3>1
  <2>2. CASE ~held
    BY <1>1, <2>2
  <2> QED
    BY <2>1, <2>2
<1> HIDE DEF held, left
<1>5. /\ errand' \in Errands /\ errand'.at = k
      /\ errand'.pc = IF held THEN "threw" ELSE "deleting"
      /\ errand'.pending = errand.pending /\ errand'.found = errand.found
      /\ errand'.cursor = errand.cursor /\ errand'.pages = errand.pages
      /\ errand'.identity = errand.identity /\ errand'.failed = errand.failed
      /\ errand'.removed = errand.removed
  BY <1>1, <1>2 DEF Errands
<1> QED
  BY <1>1, <1>3, <1>4, <1>5, PassOnKeeps

(* and a download is, unless it was replaced or resists. *)
LEMMA DeleteDownloadKeeps ==
  ASSUME ErrandInv, NEW k \in Keys, DeleteDownload(k)
  PROVE  ErrandInv'
<1>1. /\ NextUp(k) /\ shelf[k].kind = "downloads"
      /\ \E cell \in IF Replaced(k) THEN {shelf[k]} ELSE Discarded(shelf[k]) :
            /\ shelf' = [shelf EXCEPT ![k] = cell]
            /\ Onward([errand EXCEPT !.at = k, !.pc = IF cell.version = 0 THEN @ ELSE "checking",
                               !.removed = IF cell.version = 0 /\ Identified(k) # 0
                                              /\ k \in altered["deletions"]
                                           THEN @ \cup {k} ELSE @])
  BY DEF DeleteDownload
<1>2. PICK cell \in IF Replaced(k) THEN {shelf[k]} ELSE Discarded(shelf[k]) :
            /\ shelf' = [shelf EXCEPT ![k] = cell]
            /\ Onward([errand EXCEPT !.at = k, !.pc = IF cell.version = 0 THEN @ ELSE "checking",
                               !.removed = IF cell.version = 0 /\ Identified(k) # 0
                                              /\ k \in altered["deletions"]
                                           THEN @ \cup {k} ELSE @])
  BY <1>1
<1> DEFINE removed == IF cell.version = 0 /\ Identified(k) # 0 /\ k \in altered["deletions"]
                      THEN errand.removed \cup {k} ELSE errand.removed
<1>3. /\ errand' = [errand EXCEPT !.at = k, !.pc = IF cell.version = 0 THEN @ ELSE "checking",
                                  !.removed = removed]
      /\ UNCHANGED <<order, writes, altered>>
  BY <1>2 DEF Onward
<1>4. /\ errand.pc = "deleting" /\ errand \in Errands /\ shelf[k] \in Cell /\ k \in Nat
      /\ errand.removed \in SUBSET Nat
  BY <1>1, ShelfFacts DEF NextUp, ErrandInv, ShelfTyped
<1>5. cell \in Cell /\ cell.kind = shelf[k].kind /\ cell.version \in {0, shelf[k].version}
  <2>1. cell = shelf[k] \/ cell \in Discarded(shelf[k])
    BY <1>2
  <2>2. ASSUME NEW c \in Discarded(shelf[k])
        PROVE  c \in Cell /\ c.kind = shelf[k].kind /\ c.version \in {0, shelf[k].version}
    <3>1. \/ c = shelf[k] \/ c = Gone(shelf[k]) \/ c = [shelf[k] EXCEPT !.described = FALSE]
          \/ c = [shelf[k] EXCEPT !.described = FALSE, !.marks = @ \cup {"empty"}]
      BY DEF Discarded
    <3>2. CASE c = shelf[k] \/ c = Gone(shelf[k])
      BY <1>4, <3>2, GoneIsCell
    <3>3. CASE c = [shelf[k] EXCEPT !.described = FALSE]
      BY <1>4, <3>3 DEF Cell
    <3>4. CASE c = [shelf[k] EXCEPT !.described = FALSE, !.marks = @ \cup {"empty"}]
      <4>1. shelf[k].marks \cup {"empty"}
               \in SUBSET {"in use", "broken", "gone", "half", "empty", "old"}
        BY <1>4 DEF Cell
      <4> QED
        BY <1>4, <3>4, <4>1 DEF Cell
    <3> QED
      BY <3>1, <3>2, <3>3, <3>4
  <2> QED
    BY <1>4, <2>1, <2>2
<1>6. removed \in SUBSET Nat
      /\ (removed = errand.removed \/
            /\ removed = errand.removed \cup {k} /\ cell.version = 0 /\ ~Replaced(k)
            /\ Identified(k) # 0 /\ k \in altered["deletions"])
  <2>1. ASSUME cell.version = 0, Identified(k) # 0
        PROVE  ~Replaced(k)
    BY <1>2, <2>1 DEF Identified
  <2> QED
    BY <1>4, <2>1
<1> HIDE DEF removed
<1>7. /\ errand' \in Errands /\ errand'.at = k
      /\ errand'.pc = IF cell.version = 0 THEN "deleting" ELSE "checking"
      /\ errand'.pending = errand.pending /\ errand'.found = errand.found
      /\ errand'.cursor = errand.cursor /\ errand'.pages = errand.pages
      /\ errand'.identity = errand.identity /\ errand'.failed = errand.failed
      /\ errand'.removed = removed
  BY <1>3, <1>4, <1>6 DEF Errands
<1> QED
  BY <1>1, <1>2, <1>3, <1>5, <1>6, <1>7, PassOnKeeps

(* A later write has a greater version. *)
LEMMA LaterIsNewer ==
  ASSUME NEW w \in Nat
  PROVE  /\ Newest + w \in Nat /\ Newest + (w + 1) \in Nat
         /\ Newest + w < Newest + (w + 1) /\ Newest + (w + 1) # 0
BY DEF Newest

(* What others write is newer than all there was; what they remove is gone. *)
LEMMA MeddleKeeps ==
  ASSUME ErrandInv, NEW k \in Keys, Meddle(k)
  PROVE  ErrandInv'
<1>1. /\ errand.pc \notin {"done", "threw"} /\ writes' = writes + 1
      /\ UNCHANGED <<order, errand>>
      /\ altered' = [since \in DOMAIN altered |->
                        IF since = "first page" /\ errand.pc = "idle" THEN {}
                        ELSE altered[since] \cup {k}]
  BY DEF Meddle
<1>2. /\ shelf \in Seq(Cell) /\ shelf[k] \in Cell /\ writes \in Nat /\ Newest + writes \in Nat
      /\ DOMAIN altered = {"first page", "deletions"}
  BY ShelfFacts DEF ErrandInv, ShelfTyped
<1>3. PICK last \in Nat, new \in Nat : /\ last = Newest + writes /\ new = Newest + writes'
                                       /\ last < new /\ new # 0 /\ writes' \in Nat
  <2>1. writes' = writes + 1 /\ writes \in Nat
    BY <1>1, <1>2
  <2>2. Newest + writes' = Newest + (writes + 1)
    BY <2>1
  <2>3. /\ Newest + writes \in Nat /\ Newest + (writes + 1) \in Nat
        /\ Newest + writes < Newest + (writes + 1) /\ Newest + (writes + 1) # 0
    BY <2>1, LaterIsNewer
  <2>4. writes' \in Nat
    BY <2>1
  <2> QED
    BY <2>2, <2>3, <2>4
<1>4. \E cell \in Cell : /\ shelf' = [shelf EXCEPT ![k] = cell] /\ cell.kind = shelf[k].kind
                         /\ cell.version \in {0, Newest + writes'}
  <2>1. CASE shelf' = [shelf EXCEPT ![k] = Gone(@)]
    BY <1>2, <2>1, GoneIsCell
  <2>2. CASE \E described \in IF shelf[k].kind = "downloads" THEN BOOLEAN ELSE {FALSE} :
                shelf' = [shelf EXCEPT ![k].version = Newest + writes',
                                       ![k].described = described, ![k].marks = {}]
    <3>1. PICK described \in BOOLEAN :
             shelf' = [shelf EXCEPT ![k].version = Newest + writes',
                                    ![k].described = described, ![k].marks = {}]
      BY <2>2
    <3> DEFINE cell == [shelf[k] EXCEPT !.version = Newest + writes', !.described = described,
                                        !.marks = {}]
    <3>2. cell \in Cell /\ cell.kind = shelf[k].kind /\ cell.version = Newest + writes'
      <4>1. Newest + writes' \in Nat
        BY <1>3
      <4> QED
        BY <1>2, <4>1 DEF Cell
    <3>3. shelf' = [shelf EXCEPT ![k] = cell]
      BY <3>1
    <3> QED
      BY <3>2, <3>3
  <2> QED
    BY <2>1, <2>2 DEF Meddle
<1>5. PICK cell \in Cell : /\ shelf' = [shelf EXCEPT ![k] = cell] /\ cell.kind = shelf[k].kind
                           /\ cell.version \in {0, new}
  BY <1>3, <1>4
<1>6. /\ shelf' \in Seq(Cell) /\ Keys' = Keys /\ shelf'[k] = cell
      /\ \A j \in Keys : j # k => shelf'[j] = shelf[j]
  BY <1>2, <1>5, ShelfChanged
<1>7. \A j \in Keys : /\ shelf'[j].kind = shelf[j].kind
                      /\ \/ j # k /\ shelf'[j].version = shelf[j].version
                         \/ j = k /\ shelf'[j].version \in {0, new}
  BY <1>5, <1>6
<1> USE DEF ErrandInv
<1>8. /\ DOMAIN errand.found \subseteq Keys /\ DOMAIN errand.identity \subseteq Keys
      /\ \A j \in DOMAIN errand.found : errand.found[j] \in Nat
      /\ \A j \in DOMAIN errand.identity : errand.identity[j] \in Nat
      /\ \A j \in Keys : shelf[j].version \in Nat
  BY ShelfFacts
<1>9. ShelfTyped'
  BY <1>1, <1>2, <1>3, <1>6 DEF ShelfTyped
<1>10. Phases'
  <2>1. Downloads' = Downloads
    BY <1>1, <1>7, <1>8 DEF Downloads
  <2> QED
    BY <1>1, <2>1 DEF Phases, Listing, Deleting
<1>11. VersionsGrow'
  <2>1. \A j \in Keys : shelf'[j].version <= new
    <3>1. TAKE j \in Keys
    <3>2. shelf[j].version <= last /\ shelf[j].version \in Nat
      BY <1>3, <1>8 DEF VersionsGrow
    <3> QED
      BY <1>3, <1>7, <3>2
  <2>2. ASSUME NEW j \in DOMAIN errand.found
        PROVE  /\ errand.found[j] # 0 /\ errand.found[j] <= new
               /\ shelf'[j].version = 0 \/ errand.found[j] <= shelf'[j].version
    <3>1. /\ errand.found[j] # 0 /\ errand.found[j] <= last
          /\ shelf[j].version = 0 \/ errand.found[j] <= shelf[j].version
      BY <1>3 DEF VersionsGrow
    <3> QED
      BY <1>3, <1>7, <1>8, <3>1
  <2>3. ASSUME NEW j \in DOMAIN errand.identity, errand.identity[j] # 0
        PROVE  /\ errand.found[j] <= errand.identity[j]
               /\ errand.identity[j] <= new
               /\ shelf'[j].version = 0 \/ errand.identity[j] <= shelf'[j].version
    <3>1. /\ errand.found[j] <= errand.identity[j] /\ errand.identity[j] <= last
          /\ shelf[j].version = 0 \/ errand.identity[j] <= shelf[j].version
      BY <1>3, <2>3 DEF VersionsGrow
    <3> QED
      BY <1>3, <1>7, <1>8, <3>1
  <2> QED
    BY <1>1, <1>3, <1>6, <2>1, <2>2, <2>3 DEF VersionsGrow
<1>12. PagesGrow'
  <2>1. ASSUME errand.pc # "idle", NEW j, Unaltered(j)'
        PROVE  Unaltered(j)
    <3>1. j \in Keys /\ j # k /\ j \notin altered["first page"]
      BY <1>1, <1>2, <1>6, <2>1 DEF Unaltered
    <3> QED
      BY <1>1, <1>6, <2>1, <3>1 DEF Unaltered, Selected
  <2>2. \A j : Paged(j)' <=> Paged(j)
    BY <1>1 DEF Paged
  <2>3. CASE errand.pc = "idle"
    <3>1. \A j \in Keys : ~(j <= errand.cursor)
      BY <2>3, ShelfFacts DEF Phases
    <3> QED
      BY <1>1, <1>6, <2>3, <3>1 DEF PagesGrow, Listing
  <2>4. CASE errand.pc # "idle"
    BY <1>1, <1>6, <2>1, <2>2, <2>4 DEF PagesGrow, Listing
  <2> QED
    BY <2>3, <2>4
<1>13. PassedIsGone'
  <2>1. ASSUME NEW j \in DOMAIN errand.found, shelf[j].version # errand.found[j]
        PROVE  shelf'[j].version # errand.found[j]
    <3>1. errand.found[j] # 0 /\ errand.found[j] <= last /\ errand.found[j] \in Nat
      BY <1>3, <1>8 DEF VersionsGrow
    <3> QED
      BY <1>3, <1>7, <1>8, <2>1, <3>1
  <2> QED
    BY <1>1, <2>1 DEF PassedIsGone, Deleting
<1>14. ReplacementsNewer'
  <2>1. ASSUME Deleting, NEW j \in altered'["deletions"] \cap DOMAIN errand.identity
        PROVE  shelf'[j].version = 0 \/ errand.identity[j] < shelf'[j].version
    <3>1. CASE j = k
      <4>1. errand.identity[j] \in Nat
            /\ (errand.identity[j] = 0 \/ errand.identity[j] <= last)
        BY <1>3, <1>8 DEF VersionsGrow
      <4> QED
        BY <1>3, <1>7, <1>8, <3>1, <4>1
    <3>2. CASE j # k
      BY <1>1, <1>2, <1>7, <1>8, <2>1, <3>2 DEF ReplacementsNewer
    <3> QED
      BY <3>1, <3>2
  <2> QED
    BY <1>1, <2>1 DEF ReplacementsNewer, ReplacementStays, Deleting
<1> QED
  BY <1>9, <1>10, <1>11, <1>12, <1>13, <1>14

(* Every step, of this part or of another, keeps what holds of the call. *)
LEMMA InventoryKeeps ==
  ASSUME ErrandInv, [InventoryNext]_inventoryVars
  PROVE  ErrandInv'
<1>1. CASE InventoryNext
  BY <1>1, CollectKeeps, ListKeeps, BeginKeeps, CheckDeletedKeeps, FinishKeeps, LookAtKeeps,
     CaptureKeeps, MeddleKeeps, DeleteRowKeeps, DeleteFileKeeps, DeleteDownloadKeeps
     DEF InventoryNext
<1>2. CASE UNCHANGED inventoryVars
  <2>1. UNCHANGED <<shelf, order, errand, writes, altered>>
    BY <1>2 DEF inventoryVars
  <2>2. ShelfTyped' /\ Phases' /\ VersionsGrow'
    BY <2>1 DEF ErrandInv, ShelfTyped, Phases, Listing, Deleting, Downloads, VersionsGrow, Keys
  <2>3. PagesGrow'
    BY <2>1 DEF ErrandInv, PagesGrow, Listing, Unaltered, Selected, Paged, Keys
  <2>4. PassedIsGone' /\ ReplacementsNewer'
    BY <2>1 DEF ErrandInv, PassedIsGone, ReplacementsNewer, ReplacementStays, Deleting
  <2> QED
    BY <2>2, <2>3, <2>4 DEF ErrandInv
<1> QED
  BY <1>1, <1>2

-----------------------------------------------------------------------------
(* The five invariants together: the other parts leave these variables as they are. *)
StoredInv == TinyInv /\ OpenInv /\ ContextInv /\ ErrandInv /\ NestedInv

(* Whichever part a behaviour is of, these five begin as they should. *)
LEMMA StoredStarts ==
  ASSUME ResolutionInit
  PROVE  StoredInv
<1>1. TinyInv
  <2>1. IF part = "tiny files" THEN TinyInit
        ELSE /\ published = 0 /\ tinies = {} /\ pruned = {} /\ yarnMarker = 0 /\ fresh = FALSE
             /\ resolver = [r \in Resolvers |-> Ready]
    BY DEF ResolutionInit
  <2>2. /\ published \in Nat /\ tinies = {} /\ pruned = {} /\ yarnMarker = 0
        /\ resolver = [r \in Resolvers |-> Ready]
    <3>1. CASE part = "tiny files"
      <4>1. /\ published \in 0 .. Builds /\ tinies = {} /\ pruned = {} /\ yarnMarker = 0
            /\ resolver = [r \in Resolvers |-> Ready]
        BY <2>1, <3>1 DEF TinyInit
      <4>2. \A n \in 0 .. Builds : n \in Nat
        BY TinyAssumption
      <4> QED
        BY <4>1, <4>2
    <3>2. CASE part # "tiny files"
      <4>1. published = 0
        BY <2>1, <3>2
      <4>2. tinies = {} /\ pruned = {} /\ yarnMarker = 0 /\ resolver = [r \in Resolvers |-> Ready]
        BY <2>1, <3>2
      <4> QED
        BY <4>1, <4>2
    <3> QED
      BY <3>1, <3>2
  <2> QED
    BY <2>2, TinyStarts
<1>2. OpenInv
  <2>1. IF part = "database" THEN DatabaseInit
        ELSE /\ current = 0 /\ created = 0
             /\ health = [f \in Databases |-> "good"] /\ schema = [f \in Databases |-> "latest"]
             /\ requests = {} /\ issued = 0 /\ known = {} /\ opener = [p \in Servers |-> Closed]
    BY DEF ResolutionInit
  <2>2. /\ current \in {0, 1} /\ created = current /\ DOMAIN health = Databases
        /\ requests = {} /\ issued = 0 /\ known = {} /\ opener = [p \in Servers |-> Closed]
    BY <2>1 DEF DatabaseInit
  <2> QED
    BY <2>2, DatabaseStarts
<1>3. ContextInv
  BY ContextStarts DEF ResolutionInit
<1>4. ErrandInv
  <2>1. IF part = "inventory" THEN InventoryInit
        ELSE /\ shelf = <<>> /\ order = Want("list", "any", FALSE, 1) /\ errand = NoErrand
             /\ writes = 0 /\ altered = [since \in {"first page", "deletions"} |-> {}]
    BY DEF ResolutionInit
  <2>2. CASE InventoryInit
    <3>1. shelf \in Shelves /\ order \in ManageOrders
      BY <2>2 DEF InventoryInit
    <3>2. /\ shelf \in Seq(Cell) /\ \A k \in DOMAIN shelf : shelf[k].version <= Newest
          /\ order \in Order /\ (order.task = "list" => order.limit # 0)
      BY <3>1, InventoryAssumption
    <3>3. /\ errand = NoErrand /\ writes = 0
          /\ altered = [since \in {"first page", "deletions"} |-> {}]
      BY <2>2 DEF InventoryInit
    <3> QED
      BY <3>2, <3>3, ErrandStarts DEF NothingBegun
  <2>3. CASE /\ shelf = <<>> /\ order = Want("list", "any", FALSE, 1) /\ errand = NoErrand
             /\ writes = 0 /\ altered = [since \in {"first page", "deletions"} |-> {}]
    <3>1. order = [task |-> "list", status |-> "any", old |-> FALSE, limit |-> 1]
      BY <2>3 DEF Want
    <3>2. order \in Order /\ order.limit # 0
      <4>1. order.task = "list" /\ order.limit = 1
        BY <3>1
      <4>2. [task |-> "list", status |-> "any", old |-> FALSE, limit |-> 1] \in Order
        BY DEF Order
      <4> QED
        BY <3>1, <4>1, <4>2
    <3>3. shelf \in Seq(Cell) /\ \A k \in DOMAIN shelf : shelf[k].version <= Newest
      <4>1. <<>> \in Seq(Cell) /\ DOMAIN <<>> = {}
        OBVIOUS
      <4> QED
        BY <2>3, <4>1
    <3>4. /\ errand = NoErrand /\ writes = 0
          /\ altered = [since \in {"first page", "deletions"} |-> {}]
      BY <2>3
    <3> QED
      BY <3>2, <3>3, <3>4, ErrandStarts DEF NothingBegun
  <2> QED
    BY <2>1, <2>2, <2>3
<1>5. NestedInv
  <2>1. IF part = "nested jars" THEN NestedInit
        ELSE /\ shell = <<>> /\ extracted = <<>> /\ leftovers = {} /\ classSets = <<>>
             /\ mishaps = <<>> /\ nestedCall = [c \in NestedCalls |-> NotCalled]
    BY DEF ResolutionInit
  <2>2. /\ leftovers = {} /\ classSets = <<>> /\ mishaps = <<>>
        /\ nestedCall = [c \in NestedCalls |-> NotCalled]
    BY <2>1 DEF NestedInit
  <2>3. shell \in Seq(Bundled) /\ extracted \in [1 .. Len(shell) -> {Absent}]
    <3>1. CASE NestedInit
      <4>1. shell \in Seq(Bundled) /\ extracted = [i \in DOMAIN shell |-> Absent]
        BY <3>1, ShellAssumption DEF NestedInit
      <4> QED
        BY <4>1
    <3>2. CASE shell = <<>> /\ extracted = <<>>
      BY <3>2
    <3> QED
      BY <2>1, <3>1, <3>2
  <2> QED
    BY <2>2, <2>3, NestedStarts
<1> QED
  BY <1>1, <1>2, <1>3, <1>4, <1>5 DEF StoredInv

(* A step is one of its part, and for the other parts none. *)
LEMMA StoredSteps ==
  ASSUME [ResolutionNext]_resolutionVars
  PROVE  /\ [TinyNext]_tinyVars /\ [DatabaseNext]_databaseVars
         /\ [ContextNext]_contextVars /\ [InventoryNext]_inventoryVars
         /\ [NestedNext]_nestedVars
<1>1. CASE UNCHANGED resolutionVars
  BY <1>1 DEF resolutionVars
<1>2. CASE ResolutionNext
  <2>1. /\ part = "tiny files" \/ UNCHANGED tinyVars
        /\ part = "database" \/ UNCHANGED databaseVars
        /\ part = "context" \/ UNCHANGED contextVars
        /\ part = "inventory" \/ UNCHANGED inventoryVars
        /\ part = "nested jars" \/ UNCHANGED nestedVars
    BY <1>2 DEF ResolutionNext, Others
  <2>2. /\ part = "tiny files" => TinyNext
        /\ part = "database" => DatabaseNext
        /\ part = "context" => ContextNext
        /\ part = "inventory" => InventoryNext
        /\ part = "nested jars" => NestedNext
    BY <1>2 DEF ResolutionNext
  <2> QED
    BY <2>1, <2>2
<1> QED
  BY <1>1, <1>2

(* Every step keeps the five. *)
LEMMA StoredKeeps ==
  ASSUME StoredInv, [ResolutionNext]_resolutionVars
  PROVE  StoredInv'
  BY StoredSteps, TinyKeeps, DatabaseKeeps, ContextKeeps, InventoryKeeps, NestedKept DEF StoredInv

(* What is kept, and what is said to be kept, is so, however many calls, servers, builds,
   entries and bundled jars there are and whatever others write meanwhile
   (resolveTinyMappingFile, openDatabase, WorkspaceContextCache, listEntries, deleteEntries,
   extractNestedJar, resolveUniqueNestedJarForClass). *)
THEOREM StoredAlwaysRight == ResolutionSpec => []StoredRight
<1>1. ResolutionInit => StoredInv
  BY StoredStarts
<1>2. StoredInv /\ [ResolutionNext]_resolutionVars => StoredInv'
  BY StoredKeeps
<1>3. StoredInv => StoredRight
  BY DamageTold, ContextTold, ErrandTold, NestedIsRight DEF StoredInv, TinyInv, StoredRight
<1> QED
  BY <1>1, <1>2, <1>3, PTL DEF ResolutionSpec

-----------------------------------------------------------------------------
(* A step is one of the artifact index, and leaves it alone when it is of another part. *)
LEMMA ArtifactSteps ==
  ASSUME [ResolutionNext]_resolutionVars
  PROVE  [CacheNext]_cacheVars
<1>1. CASE UNCHANGED resolutionVars
  BY <1>1 DEF resolutionVars
<1>2. CASE ResolutionNext
  <2>1. part = "artifacts" \/ UNCHANGED cacheVars
    <3>1. Others
      BY <1>2 DEF ResolutionNext
    <3>2. IF part = "artifacts" THEN TRUE ELSE UNCHANGED cacheVars
      BY <3>1 DEF Others
    <3> QED
      BY <3>2
  <2>2. part = "artifacts" => CacheNext
    BY <1>2 DEF ResolutionNext
  <2> QED
    BY <2>1, <2>2
<1> QED
  BY <1>1, <1>2

(* The invariant of the artifact index holds in what composes it with the other parts. *)
LEMMA ArtifactsKept == ResolutionSpec => []CacheInv
<1>1. ResolutionInit => CacheInv
  <2>1. ResolutionInit => CacheInit
    BY DEF ResolutionInit
  <2> QED
    BY <2>1, CacheInitInv
<1>2. CacheInv /\ [ResolutionNext]_resolutionVars => CacheInv'
  BY ArtifactSteps, CacheStep
<1> QED
  BY <1>1, <1>2, PTL DEF ResolutionSpec

(* A step is one of the resolution of a target or leaves it alone. *)
LEMMA ResolveSteps ==
  ASSUME [ResolutionNext]_resolutionVars
  PROVE  [ResolveNext]_resolveVars
<1>1. CASE UNCHANGED resolutionVars
  BY <1>1 DEF resolutionVars
<1>2. CASE ResolutionNext
  <2>1. part = "calls" \/ UNCHANGED resolveVars
    <3>1. Others
      BY <1>2 DEF ResolutionNext
    <3>2. IF part = "calls" THEN TRUE ELSE UNCHANGED resolveVars
      BY <3>1 DEF Others
    <3> QED
      BY <3>2
  <2>2. part = "calls" => ResolveNext
    BY <1>2 DEF ResolutionNext
  <2> QED
    BY <2>1, <2>2
<1> QED
  BY <1>1, <1>2

(* There is a project to begin with, and nothing else. *)
LEMMA FirstMachine == IsMachine(Machine({}, LoomProject("v", "yarn", TRUE), {}, "binary"))
BY DEF IsMachine, Machine, LoomProject, Unset, Releases, Labels

(* The invariant of the resolution holds in what composes it with the other parts. *)
LEMMA ResolvedKept == ResolutionSpec => []ResolveInv
<1>1. ResolutionInit => ResolveInv
  <2> SUFFICES ASSUME ResolutionInit PROVE ResolveInv
    OBVIOUS
  <2>1. IF part = "calls" THEN ResolveInit
        ELSE /\ machine = Machine({}, LoomProject("v", "yarn", TRUE), {}, "binary")
             /\ workspace = "absent" /\ rows = [i \in {} |-> NoReply] /\ reply = NoReply
             /\ calls = 0
    BY DEF ResolutionInit
  <2>2. CASE part = "calls"
    <3>1. machine \in Machines /\ rows = [i \in {} |-> NoReply] /\ reply = NoReply
      BY <2>1, <2>2 DEF ResolveInit
    <3>2. IsMachine(machine)
      BY <3>1, ResolutionAssumption
    <3> QED
      BY <3>1, <3>2, ResolveStarts
  <2>3. CASE part # "calls"
    <3>1. /\ machine = Machine({}, LoomProject("v", "yarn", TRUE), {}, "binary")
          /\ rows = [i \in {} |-> NoReply] /\ reply = NoReply
      BY <2>1, <2>3
    <3> QED
      BY <3>1, FirstMachine, ResolveStarts
  <2> QED
    BY <2>2, <2>3
<1>2. ResolveInv /\ [ResolutionNext]_resolutionVars => ResolveInv'
  BY ResolveSteps, ResolveKept
<1> QED
  BY <1>1, <1>2, PTL DEF ResolutionSpec

(* What the database and the byte count say of the artifacts is so and can be evicted, who
   joins an ingest or a remap joins one that is under way, and what is resolved is what it is
   labelled, whatever the artifacts, their sizes, the limits, the calls at work and the jars
   there are (ArtifactsRepo, CacheMetricsState, ingestIfNeeded, maybeRemapBinaryForMojang,
   resolveArtifact). *)
THEOREM ArtifactsAlwaysRight == ResolutionSpec => []ArtifactsRight
<1>1. CacheInv /\ ResolveInv => ArtifactsRight
  BY CacheInvImplies, ResolveInvImplies DEF ArtifactsRight
<1> QED
  BY <1>1, ArtifactsKept, ResolvedKept, PTL

(* An ingest leaves the cache within its limits or with one artifact, and what it has just
   ingested is never what it evicts (enforceCacheLimits). *)
THEOREM EvictionAlwaysRight == ResolutionSpec => EvictionRight
<1>1. CacheInv => [\A c \in Workers :
            Ingests(c) /\ (Inspect(c) \/ Decompile(c)) /\ store' # store =>
               /\ Contains(store'.table, work[c].art)
               /\ \/ Len(store'.lru) = 1
                  \/ Len(store'.lru) <= MaxArtifacts /\ store'.total <= MaxCacheBytes]_cacheVars
  BY EvictionStep
<1> QED
  BY <1>1, ArtifactsKept, PTL DEF EvictionRight

-----------------------------------------------------------------------------
(* A step is one of the validation of a mixin or leaves it alone. *)
LEMMA MixinSteps ==
  ASSUME [ResolutionNext]_resolutionVars
  PROVE  [MixinNext]_mixinVars
<1>1. CASE UNCHANGED resolutionVars
  BY <1>1 DEF resolutionVars
<1>2. CASE ResolutionNext
  <2>1. part = "mixins" \/ UNCHANGED mixinVars
    <3>1. Others
      BY <1>2 DEF ResolutionNext
    <3>2. IF part = "mixins" THEN TRUE ELSE UNCHANGED mixinVars
      BY <3>1 DEF Others
    <3> QED
      BY <3>2
  <2>2. part = "mixins" => MixinNext
    BY <1>2 DEF ResolutionNext
  <2> QED
    BY <2>1, <2>2
<1> QED
  BY <1>1, <1>2

(* There is no file to begin with, or one of those that are validated. *)
LEMMA MixinsStart == ResolutionInit => MixinInv
<1> SUFFICES ASSUME ResolutionInit PROVE MixinInv
  OBVIOUS
<1>1. IF part = "mixins" THEN MixinInit
      ELSE /\ mixin = MixinOf(<<>>, {}, FALSE) /\ pass = FirstPass("maven-first", FALSE)
           /\ stage = "resolve" /\ looked = <<>> /\ choice = None /\ earlier = None /\ given = None
  BY DEF ResolutionInit
<1>2. CASE part = "mixins"
  BY <1>1, <1>2, MixinInitRight
<1>3. CASE part # "mixins"
  <2>1. /\ mixin = MixinOf(<<>>, {}, FALSE) /\ pass = FirstPass("maven-first", FALSE)
        /\ stage = "resolve" /\ looked = <<>> /\ choice = None /\ earlier = None /\ given = None
    BY <1>1, <1>3
  <2>2. IsMixin(mixin)
    BY <2>1 DEF MixinOf, IsMixin, Range
  <2> QED
    BY <2>1, <2>2, MixinStarts
<1> QED
  BY <1>2, <1>3

(* validate-mixin says no more than it knows in what composes it with the other parts
   (finalizeValidateMixinPipeline). *)
THEOREM MixinsAlwaysRight == ResolutionSpec => []MixinRight
<1>1. MixinInv /\ [ResolutionNext]_resolutionVars => MixinInv'
  BY MixinSteps, MixinKept
<1> QED
  BY <1>1, MixinsStart, MixinIsRight, PTL DEF ResolutionSpec

-----------------------------------------------------------------------------
(* A step is one of the validation of an access file, of the summary of a workspace or of a
   question about its build, or leaves them alone. *)
LEMMA AccessSteps ==
  ASSUME [ResolutionNext]_resolutionVars
  PROVE  [AccessNext]_accessVars
<1>1. CASE UNCHANGED resolutionVars
  BY <1>1 DEF resolutionVars
<1>2. CASE ResolutionNext
  <2>1. part = "access" \/ UNCHANGED accessVars
    <3>1. Others
      BY <1>2 DEF ResolutionNext
    <3>2. IF part = "access" THEN TRUE ELSE UNCHANGED accessVars
      BY <3>1 DEF Others
    <3> QED
      BY <3>2
  <2>2. part = "access" => AccessNext
    BY <1>2 DEF ResolutionNext
  <2> QED
    BY <2>1, <2>2
<1> QED
  BY <1>1, <1>2

(* A step is one of the summary or leaves it alone. *)
LEMMA ProjectSteps ==
  ASSUME [ResolutionNext]_resolutionVars
  PROVE  [ProjectNext]_projectVars
<1>1. CASE UNCHANGED resolutionVars
  BY <1>1 DEF resolutionVars
<1>2. CASE ResolutionNext
  <2>1. part = "projects" \/ UNCHANGED projectVars
    <3>1. Others
      BY <1>2 DEF ResolutionNext
    <3>2. IF part = "projects" THEN TRUE ELSE UNCHANGED projectVars
      BY <3>1 DEF Others
    <3> QED
      BY <3>2
  <2>2. part = "projects" => ProjectNext
    BY <1>2 DEF ResolutionNext
  <2> QED
    BY <2>1, <2>2
<1> QED
  BY <1>1, <1>2

(* A step is one of a question about the build or leaves it alone. *)
LEMMA BuildSteps ==
  ASSUME [ResolutionNext]_resolutionVars
  PROVE  [BuildNext]_buildVars
<1>1. CASE UNCHANGED resolutionVars
  BY <1>1 DEF resolutionVars
<1>2. CASE ResolutionNext
  <2>1. part = "builds" \/ UNCHANGED buildVars
    <3>1. Others
      BY <1>2 DEF ResolutionNext
    <3>2. IF part = "builds" THEN TRUE ELSE UNCHANGED buildVars
      BY <3>1 DEF Others
    <3> QED
      BY <3>2
  <2>2. part = "builds" => BuildNext
    BY <1>2 DEF ResolutionNext
  <2> QED
    BY <2>1, <2>2
<1> QED
  BY <1>1, <1>2

(* There is nothing to validate or to ask to begin with, or what a run of that part begins with. *)
LEMMA AccessBegins == ResolutionInit => AccessInv
<1> SUFFICES ASSUME ResolutionInit PROVE AccessInv
  OBVIOUS
<1>1. IF part = "access" THEN AccessInit
      ELSE /\ home = [jars |-> {}, version |-> "v", loader |-> "fabric", vanilla |-> VanillaJar,
                       unmapped |-> {}]
           /\ access = FileOf("none", "none", <<>>) /\ probe = Unasked /\ builds = 0
           /\ demand = DemandOf("widener", "unset", FALSE, "unset", FALSE)
  BY DEF ResolutionInit
<1>2. CASE part = "access"
  BY <1>1, <1>2, AccessInitRight
<1>3. CASE part # "access"
  <2>1. /\ home = [jars |-> {}, version |-> "v", loader |-> "fabric", vanilla |-> VanillaJar, unmapped |-> {}]
        /\ probe = Unasked /\ builds = 0
    BY <1>1, <1>3
  <2>2. JarsOf(home) = {VanillaJar} /\ home.jars = {}
    BY <2>1 DEF JarsOf
  <2>3. IsRuntimeJar(VanillaJar)
    BY DEF VanillaJar, GameJar, IsRuntimeJar, KnownLoaders, SourceNames
  <2>4. IsHome(home)
    BY <2>1, <2>2, <2>3, FS_EmptySet DEF IsHome, KnownLoaders
  <2>5. OnePerPath(home)
    BY <2>2 DEF OnePerPath
  <2> QED
    BY <2>1, <2>4, <2>5, AccessStarts
<1> QED
  BY <1>2, <1>3

(* The summary starts right, also when another part is checked. *)
LEMMA ProjectsBegin == ResolutionInit => ProjectInv
<1> SUFFICES ASSUME ResolutionInit PROVE ProjectInv
  OBVIOUS
<1>1. IF part = "projects" THEN ProjectInit
      ELSE /\ project = WorkspaceOf(0, "none", <<>>, <<>>, <<>>)
           /\ question = QuestionOf(0, "no", {}) /\ summary = NoSummary /\ edits = 0
  BY DEF ResolutionInit
<1>2. CASE part = "projects"
  BY <1>1, <1>2, ProjectStarts
<1>3. CASE part # "projects"
  <2>1. /\ project = WorkspaceOf(0, "none", <<>>, <<>>, <<>>)
        /\ question = QuestionOf(0, "no", {}) /\ summary = NoSummary /\ edits = 0
    BY <1>1, <1>3
  <2>2. project \in WorkspaceState
    BY <2>1 DEF WorkspaceOf, WorkspaceState
  <2>3. question \in Question
    BY <2>1 DEF QuestionOf, Question
  <2>4. SummaryRight(NoSummary, project, question, edits)
    BY NoSummaryRight
  <2> QED
    BY <2>1, <2>2, <2>3, <2>4 DEF ProjectInv
<1> QED
  BY <1>2, <1>3

(* So do the questions about the build. *)
LEMMA BuildsBegin == ResolutionInit => BuildInv
<1> SUFFICES ASSUME ResolutionInit PROVE BuildInv
  OBVIOUS
<1>1. IF part = "builds" THEN BuildInit
      ELSE /\ tree = BuildOf(<<>>, 0, 0, {}, <<>>) /\ inquiry = NoInquiry /\ edited = 0
           /\ runtime = [ShippedBy(TRUE, TRUE, "present", {}, "resolved") EXCEPT !.fields = {}]
           /\ evidence = <<>>
  BY DEF ResolutionInit
<1>2. CASE part = "builds"
  BY <1>1, <1>2, BuildStarts
<1>3. CASE part # "builds"
  <2>1. /\ tree = BuildOf(<<>>, 0, 0, {}, <<>>) /\ inquiry = NoInquiry /\ edited = 0
        /\ runtime = [ShippedBy(TRUE, TRUE, "present", {}, "resolved") EXCEPT !.fields = {}]
        /\ evidence = <<>>
    BY <1>1, <1>3
  <2>2. tree \in BuildTree /\ IsFiniteSet(tree.cached)
    BY <2>1, FS_EmptySet DEF BuildOf, BuildTree
  <2>3. runtime \in Runtime
    BY <2>1 DEF ShippedBy, Runtime
  <2>4. inquiry.at = "idle"
    BY <2>1 DEF NoInquiry
  <2> QED
    BY <2>1, <2>2, <2>3, <2>4 DEF BuildInv, PlaceRight, InPlace, BuildRight, RuntimeRight, DetectionRight,
                                  DependencyRight, SymbolReplied
<1> QED
  BY <1>2, <1>3

(* In what composes them with the other parts, a verdict on the files of a workspace rests on
   what was read of them in jars that fit (but for members that a remap listed silently as
   what they are not, see AccessAlwaysRight), the counts and the status of a summary say no
   more, and what is taken from its build is declared there (validateAccessWidener,
   handleProjectSummary, resolveWorkspaceSymbol). *)
THEOREM WorkspaceAlwaysRight == ResolutionSpec => []WorkspaceRight
<1> DEFINE Inv == AccessInv /\ ProjectInv /\ BuildInv
<1>1. ResolutionInit => Inv
  BY AccessBegins, ProjectsBegin, BuildsBegin
<1>2. Inv /\ [ResolutionNext]_resolutionVars => Inv'
  BY AccessSteps, ProjectSteps, BuildSteps, AccessKept, ProjectKept, BuildKept
<1>3. Inv => WorkspaceRight
  BY ProjectIsRight DEF AccessInv, BuildInv, WorkspaceRight
<1> QED
  BY <1>1, <1>2, <1>3, PTL DEF ResolutionSpec
=============================================================================
