----------------------------- MODULE NestedJars -----------------------------
(***************************************************************************)
(* The jars in a jar (source/nested-jars.ts): a class that a shell jar     *)
(* lacks is looked for in the jars it bundles, which are extracted one by   *)
(* one into the cache and listed there. Lookups share the files of the      *)
(* cache and, in one process, the lists; manage-cache deletes the files,     *)
(* a build rewrites the shell, and the process may be killed.               *)
(***************************************************************************)
EXTENDS Naturals, Sequences, FiniteSets, SequencesExt

CONSTANTS NestedCalls,   \* calls that look for a class
          ShellJars,     \* what a shell may bundle
          MaxSets,       \* CLASS_SET_CACHE_MAX
          MaxMishaps     \* deletions, rewrites and faults of the disk

VARIABLES shell,       \* the shell jar: of each bundled one, has it the class and can it be read
          extracted,   \* the files in the cache, of the bundled jars that are there
          leftovers,   \* temporary files, <<call, bundled jar>>
          classSets,   \* the lists that are kept, oldest first: <<bundled jar, has it the class>>
          nestedCall,  \* the calls
          mishaps      \* what went wrong

nestedVars == <<shell, extracted, leftovers, classSets, nestedCall, mishaps>>

(* A bundled jar is fine, refused (too large, or it cannot be read), or no jar at all. *)
Bundled == [holds : BOOLEAN, state : {"fine", "refused", "broken"}]
ASSUME ShellAssumption == ShellJars \subseteq Seq(Bundled)

Absent == [state |-> "absent"]
WholeFiles == {"fine", "broken"}
NotCalled == [at |-> "idle"]
Mishaps == {"deleted", "rewritten", "not written", "not renamed", "killed"}

BundledAt(c) == nestedCall[c].entry
Seeking(c, place) == nestedCall[c].at = place
Goes(c, place) == nestedCall' = [nestedCall EXCEPT ![c].at = place]
Happens(what) == mishaps' = Append(mishaps, what)

-----------------------------------------------------------------------------
(* findNestedJarClasses of a qualified name is content with the first one. *)
Stops(c, matches) == nestedCall[c].task = "find" /\ matches # {}

(* The next bundled jar, or the answer; resolveUniqueNestedJarForClass refuses several. *)
Moves(c, matches, passed) ==
    LET done == BundledAt(c) = Len(shell) \/ Stops(c, matches) IN
    nestedCall' = [nestedCall EXCEPT ![c] =
        [@ EXCEPT !.matches = matches, !.passed = passed,
                  !.at = IF done THEN "answered" ELSE "access",
                  !.entry = BundledAt(c) + (IF done THEN 0 ELSE 1)]]

PassesOver(c) == Moves(c, nestedCall[c].matches, nestedCall[c].passed \cup {BundledAt(c)})

StartLookup(c) ==
    \E task \in {"find", "unique"} :
       /\ Seeking(c, "idle") /\ Len(shell) > 0
       /\ nestedCall' = [nestedCall EXCEPT ![c] =
             [at |-> "access", task |-> task, entry |-> 1, matches |-> {}, passed |-> {},
              bytes |-> Absent]]
       /\ UNCHANGED <<shell, extracted, leftovers, classSets, mishaps>>

-----------------------------------------------------------------------------
(* extractNestedJar *)
AccessFinal(c) ==
    /\ Seeking(c, "access")
    /\ Goes(c, IF extracted[BundledAt(c)] # Absent THEN "list" ELSE "read")
    /\ UNCHANGED <<shell, extracted, leftovers, classSets, mishaps>>

ReadEntry(c) ==
    /\ Seeking(c, "read")
    /\ IF shell[BundledAt(c)].state = "refused" THEN PassesOver(c)
       ELSE nestedCall' = [nestedCall EXCEPT ![c].at = "write", ![c].bytes = shell[BundledAt(c)]]
    /\ UNCHANGED <<shell, extracted, leftovers, classSets, mishaps>>

MutBeside(c, content) == extracted' = [extracted EXCEPT ![BundledAt(c)] = content]
(* The bytes are written beside the file, not into it. *)
Beside(c, content) == UNCHANGED extracted

(* A write that fails leaves its file. *)
WriteTemp(c) ==
    /\ Seeking(c, "write")
    /\ leftovers' = leftovers \cup {<<c, BundledAt(c)>>}
    /\ Beside(c, [state |-> "partial"])
    /\ \/ Goes(c, "rename") /\ UNCHANGED mishaps
       \/ Len(mishaps) < MaxMishaps /\ PassesOver(c) /\ Happens("not written")
    /\ UNCHANGED <<shell, classSets>>

RenameTemp(c) ==
    /\ Seeking(c, "rename")
    /\ \/ /\ extracted' = [extracted EXCEPT ![BundledAt(c)] = nestedCall[c].bytes]
          /\ leftovers' = leftovers \ {<<c, BundledAt(c)>>}
          /\ Goes(c, "list") /\ UNCHANGED mishaps
       \/ /\ Len(mishaps) < MaxMishaps /\ Happens("not renamed")
          /\ Goes(c, "access again") /\ UNCHANGED <<extracted, leftovers>>
    /\ UNCHANGED <<shell, classSets>>

MutCleans(c) == IF extracted[BundledAt(c)] = Absent THEN {} ELSE {<<c, BundledAt(c)>>}
(* What is removed of a rename that failed, whether or not another call has won it *)
Cleans(c) == {<<c, BundledAt(c)>>}

AccessAgain(c) ==
    /\ Seeking(c, "access again")
    /\ leftovers' = leftovers \ Cleans(c)
    /\ IF extracted[BundledAt(c)] = Absent THEN PassesOver(c) ELSE Goes(c, "list")
    /\ UNCHANGED <<shell, extracted, classSets, mishaps>>

-----------------------------------------------------------------------------
(* loadNestedJarClassSet, rememberClassSet *)
KeptOf(i) == {s \in Range(classSets) : s[1] = i}

Remember(i, holds) ==
    LET all == Append(classSets, <<i, holds>>)
    IN  IF Len(all) > MaxSets THEN Tail(all) ELSE all

Counting(c, holds) ==
    Moves(c, nestedCall[c].matches \cup (IF holds THEN {BundledAt(c)} ELSE {}), nestedCall[c].passed)

ListClasses(c) ==
    LET file == extracted[BundledAt(c)] IN
    /\ Seeking(c, "list")
    /\ IF KeptOf(BundledAt(c)) # {}
       THEN Counting(c, (CHOOSE s \in KeptOf(BundledAt(c)) : TRUE)[2]) /\ UNCHANGED classSets
       ELSE IF file.state # "fine" THEN PassesOver(c) /\ UNCHANGED classSets
       ELSE Counting(c, file.holds) /\ classSets' = Remember(BundledAt(c), file.holds)
    /\ UNCHANGED <<shell, extracted, leftovers, mishaps>>

-----------------------------------------------------------------------------
(* manage-cache deletes an extracted file, a build rewrites the shell jar, and a process
   that is killed leaves what it wrote. *)
DeleteExtracted(i) ==
    /\ Len(mishaps) < MaxMishaps /\ extracted[i] # Absent
    /\ extracted' = [extracted EXCEPT ![i] = Absent] /\ Happens("deleted")
    /\ UNCHANGED <<shell, leftovers, classSets, nestedCall>>

RewriteShell ==
    /\ Len(mishaps) < MaxMishaps
    /\ shell' \in {s \in ShellJars \ {shell} : Len(s) = Len(shell)} /\ Happens("rewritten")
    /\ UNCHANGED <<extracted, leftovers, classSets, nestedCall>>

KillProcess ==
    /\ Len(mishaps) < MaxMishaps /\ Happens("killed")
    /\ classSets' = <<>> /\ nestedCall' = [c \in NestedCalls |-> NotCalled]
    /\ UNCHANGED <<shell, extracted, leftovers>>

NestedInit ==
    /\ shell \in ShellJars /\ extracted = [i \in DOMAIN shell |-> Absent]
    /\ leftovers = {} /\ classSets = <<>> /\ mishaps = <<>>
    /\ nestedCall = [c \in NestedCalls |-> NotCalled]

NestedNext ==
    \/ \E c \in NestedCalls :
          \/ StartLookup(c) \/ AccessFinal(c) \/ ReadEntry(c) \/ WriteTemp(c)
          \/ RenameTemp(c) \/ AccessAgain(c) \/ ListClasses(c)
    \/ \E i \in DOMAIN extracted : DeleteExtracted(i)
    \/ RewriteShell \/ KillProcess

NestedSpec == NestedInit /\ [][NestedNext]_nestedVars

-----------------------------------------------------------------------------
NestedTypeOK ==
    /\ shell \in ShellJars /\ Len(classSets) <= MaxSets /\ Len(mishaps) <= MaxMishaps
    /\ \A c \in NestedCalls : nestedCall[c].at \in
          {"idle", "access", "read", "write", "rename", "access again", "list", "answered"}

Occurred(what) == what \in Range(mishaps)

(* A file under its final name is whole, whoever was killed or failed while writing it; and
   what is left beside it is of a call that still writes, or that was killed or failed to
   write (extractNestedJar). *)
ExtractionRight ==
    /\ \A i \in DOMAIN extracted : extracted[i] = Absent \/ extracted[i].state \in WholeFiles
    /\ \A l \in leftovers :
          \/ Seeking(l[1], "rename") /\ BundledAt(l[1]) = l[2]
          \/ Seeking(l[1], "access again") /\ BundledAt(l[1]) = l[2]
          \/ Occurred("killed") \/ Occurred("not written")

(* While the shell is not rewritten, a class is found where it is, and only what could not
   be extracted or listed is passed over: a lookup of the one jar that has it looks at
   every jar, and the other one at every jar up to the first that has it. Nothing is
   passed over if nothing is wrong (findNestedJarsContainingClass, findNestedJarClasses). *)
NestedLookupRight ==
    \A c \in NestedCalls : Seeking(c, "answered") /\ ~Occurred("rewritten") =>
        LET call == nestedCall[c]
            holders == {i \in DOMAIN shell : shell[i].holds /\ shell[i].state = "fine"}
        IN  /\ call.matches \subseteq holders
            /\ call.task = "unique" => holders \ call.passed = call.matches
            /\ call.task = "find" =>
                  /\ Cardinality(call.matches) <= 1
                  /\ \A i \in holders \ call.passed : \E m \in call.matches : m <= i
            /\ mishaps = <<>> => \A i \in call.passed : shell[i].state # "fine"

NestedRight == ExtractionRight /\ NestedLookupRight

=============================================================================
