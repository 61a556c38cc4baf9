--------------------------- MODULE CacheDatabase ---------------------------
(***************************************************************************)
(* openDatabase of storage/db.ts: several server processes open one cache  *)
(* database, migrate it, check it when a request file asks for that, and   *)
(* put a corrupted one aside and build a new one. Each step is a system    *)
(* call or a transaction, and a process may die between any two.           *)
(***************************************************************************)
EXTENDS Naturals, FiniteSets

CONSTANTS Servers,       \* processes that share the cache directory
          MaxDatabases,  \* bounds the files that ever have the name of the database
          MaxRequests    \* bounds the request files

ASSUME DatabaseAssumption ==
    MaxDatabases \in Nat \ {0} /\ MaxRequests \in Nat

VARIABLES current,   \* the file that has the name, 0 when none has
          created,   \* how many files there have been
          health,    \* of each file
          schema,    \* of each file
          requests,  \* request files
          issued,    \* how many there have been
          known,     \* files whose damage has been reported in a request
          opener     \* the state of each process

databaseVars == <<current, created, health, schema, requests, issued, known, opener>>

Databases == 1 .. MaxDatabases
Closed == [pc |-> "closed", listed |-> {}, file |-> 0]

DatabaseInit ==
    /\ current \in {0, 1} /\ created = current
    /\ health \in [Databases -> {"good", "damaged", "unreadable"}]
    /\ schema \in [Databases -> {"older", "latest", "newer"}]
    /\ \A f \in Databases : f > created => health[f] = "good" /\ schema[f] = "latest"
    /\ requests = {} /\ issued = 0 /\ known = {}
    /\ opener = [p \in Servers |-> Closed]

At(p, pc) == opener[p].pc = pc
Go(p, state) == opener' = [opener EXCEPT ![p] = state]
OnlyOpener == UNCHANGED <<current, created, health, schema, requests, issued, known>>

(* listIntegrityCheckRequestFiles *)
ListRequests(p) ==
    /\ At(p, "closed")
    /\ Go(p, [pc |-> "opening", listed |-> requests, file |-> 0])
    /\ OnlyOpener

(* new Database creates the file when there is none, with the latest schema. *)
CreateDatabase(p, next) ==
    /\ current = 0 /\ created < MaxDatabases
    /\ current' = created + 1 /\ created' = created + 1
    /\ Go(p, [opener[p] EXCEPT !.pc = next, !.file = created + 1])
    /\ UNCHANGED <<health, schema, requests, issued, known>>

(* new Database, applyPragmas and runMigrations. Damage may be in their way; a
   schema that is newer than LATEST_SCHEMA_VERSION is refused and left alone. *)
OpenDatabase(p) ==
    LET next == IF opener[p].listed = {} THEN "serving" ELSE "checking" IN
    /\ At(p, "opening")
    /\ \/ CreateDatabase(p, next)
       \/ /\ current # 0
          /\ \/ health[current] # "good" /\ Go(p, [opener[p] EXCEPT !.pc = "rebuilding"])
                /\ UNCHANGED schema
             \/ health[current] # "unreadable" /\ schema[current] = "newer" /\ Go(p, Closed)
                /\ UNCHANGED schema
             \/ /\ health[current] # "unreadable" /\ schema[current] # "newer"
                /\ schema' = [schema EXCEPT ![current] = "latest"]
                /\ Go(p, [opener[p] EXCEPT !.pc = next, !.file = current])
          /\ UNCHANGED <<current, created, health, requests, issued, known>>

(* runIntegrityCheck of the file that was opened, whatever has its name now *)
CheckDatabase(p) ==
    /\ At(p, "checking")
    /\ Go(p, [opener[p] EXCEPT !.pc = IF health[opener[p].file] = "good"
                                      THEN "clearing" ELSE "rebuilding"])
    /\ OnlyOpener

(* clearIntegrityCheckRequestFiles *)
MutCleared(p) == requests
Cleared(p) == opener[p].listed

ClearRequests(p) ==
    /\ At(p, "clearing")
    /\ requests' = requests \ Cleared(p)
    /\ Go(p, [opener[p] EXCEPT !.pc = "serving"])
    /\ UNCHANGED <<current, created, health, schema, issued, known>>

(* backupCorruptedDb *)
PutAside(p) ==
    /\ At(p, "rebuilding")
    /\ IF current = 0
       THEN Go(p, Closed) /\ UNCHANGED current
       ELSE Go(p, [opener[p] EXCEPT !.pc = "recreating"]) /\ current' = 0
    /\ UNCHANGED <<created, health, schema, requests, issued, known>>

(* The rebuilt file, or one that another process has created meanwhile; a new
   failure is ERR_DB_FAILURE. *)
Recreate(p) ==
    /\ At(p, "recreating")
    /\ \/ CreateDatabase(p, "clearing")
       \/ /\ current # 0 /\ OnlyOpener
          /\ Go(p, IF health[current] = "good" /\ schema[current] = "latest"
                   THEN [opener[p] EXCEPT !.pc = "clearing", !.file = current] ELSE Closed)

(* A query runs into the damage: the observer writes a request file, if it can. *)
NoticeDamage(p) ==
    /\ At(p, "serving") /\ health[opener[p].file] # "good" /\ issued < MaxRequests
    /\ issued' = issued + 1
    /\ requests' = requests \cup {issued + 1}
    /\ known' = known \cup {opener[p].file}
    /\ UNCHANGED <<current, created, health, schema, opener>>

(* The process closes the database, or dies at any step. *)
Leave(p) ==
    /\ ~At(p, "closed")
    /\ Go(p, Closed)
    /\ OnlyOpener

BecomesDamaged ==
    /\ current # 0 /\ health[current] = "good"
    /\ \E h \in {"damaged", "unreadable"} : health' = [health EXCEPT ![current] = h]
    /\ UNCHANGED <<current, created, schema, requests, issued, known, opener>>

DatabaseNext ==
    \/ \E p \in Servers :
          \/ ListRequests(p) \/ OpenDatabase(p) \/ CheckDatabase(p) \/ ClearRequests(p)
          \/ PutAside(p) \/ Recreate(p) \/ NoticeDamage(p) \/ Leave(p)
    \/ BecomesDamaged

DatabaseSpec == DatabaseInit /\ [][DatabaseNext]_databaseVars

-----------------------------------------------------------------------------
DatabaseTypeOK ==
    /\ current \in 0 .. created /\ created \in 0 .. MaxDatabases
    /\ health \in [Databases -> {"good", "damaged", "unreadable"}]
    /\ schema \in [Databases -> {"older", "latest", "newer"}]
    /\ requests \subseteq 1 .. issued /\ issued \in 0 .. MaxRequests
    /\ known \subseteq Databases
    /\ opener \in [Servers -> [pc : {"closed", "opening", "checking", "clearing", "rebuilding",
                                     "recreating", "serving"},
                               listed : SUBSET (1 .. MaxRequests), file : 0 .. MaxDatabases]]

(* Damage that a query ran into is checked by the next open: as long as the damaged
   file is in use a request file stands, whichever processes open, rebuild, clear
   or die meanwhile. *)
DamageRemembered == current \in known => requests # {}

=============================================================================
