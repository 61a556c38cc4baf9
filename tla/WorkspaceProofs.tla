---------------------------- MODULE WorkspaceProofs ----------------------------
(***************************************************************************)
(* The validations of a modder's workspace. Access files: a namespace is   *)
(* told from the best jar of a Loom home, an entry is not accepted that    *)
(* could not be checked, and a doubt is told (AccessRight). Summaries: the *)
(* counts add up, the status says the worst of them, and nothing of a      *)
(* request is passed over in silence (ProjectRight). Questions about the   *)
(* build: what is answered stands in the build files (BuildRight). Mixins: *)
(* a verdict rests on what was looked at (MixinRight).                     *)
(***************************************************************************)
EXTENDS AccessValidation, ProjectValidation, WorkspaceSymbols, MixinValidation,
        FiniteSetTheorems, TLAPS

-----------------------------------------------------------------------------
(* Of some sets of jars one has none of the others inside it. *)
LEMMA SmallestJars ==
  ASSUME NEW S, IsFiniteSet(S), NEW Bad \in SUBSET (SUBSET S), Bad # {}
  PROVE  \E s \in Bad : \A t \in Bad : ~(t \subseteq s /\ t # s)
<1>1. IsWellFoundedOn(StrictSubsetOrdering(S), SUBSET S)
  BY FS_StrictSubsetOrderingWellFounded, FS_FiniteSubsetsOfFinite
<1>2. PICK s \in Bad : \A t \in Bad : ~ (<<t, s>> \in StrictSubsetOrdering(S))
  BY <1>1, WFMin
<1> QED
  BY <1>2 DEF StrictSubsetOrdering

(* One jar of several is the best. *)
BetterJar(one, other) ==
    Points(one) > Points(other) \/ (Points(one) = Points(other) /\ one.id <= other.id)

(* The points of a jar are a number. *)
LEMMA PointsType == ASSUME NEW jar PROVE Points(jar) \in Int
<1>1. \A condition \in BOOLEAN, n \in Int : If(condition, n) \in Int
  BY DEF If
<1>2. Evidence(jar) \in Int
  BY DEF Evidence
<1>3. WidenerScore(jar) \in Int
  BY <1>1 DEF WidenerScore, If
<1>4. TransformerScore(jar) \in Int
  BY <1>1, <1>2 DEF TransformerScore, If
<1> QED
  BY <1>3, <1>4 DEF Points

(* Of some jars one is the best. *)
LEMMA BestExists ==
  ASSUME NEW S, IsFiniteSet(S), S # {}, \A jar \in S : jar.id \in Nat
  PROVE  \E jar \in S : \A other \in S : BetterJar(jar, other)
<1> DEFINE HasBest(s) == \E jar \in s : \A other \in s : BetterJar(jar, other)
           Bad == {s \in SUBSET S : s # {} /\ ~HasBest(s)}
<1>1. SUFFICES ASSUME Bad # {} PROVE FALSE
  OBVIOUS
<1>2. PICK s \in Bad : \A t \in Bad : ~(t \subseteq s /\ t # s)
  <2>1. Bad \in SUBSET (SUBSET S)
    OBVIOUS
  <2> HIDE DEF Bad
  <2> QED
    BY <1>1, <2>1, SmallestJars
<1>3. PICK x \in s : TRUE
  BY <1>2
<1>4. s \ {x} \notin Bad /\ s \in SUBSET S /\ ~HasBest(s)
  BY <1>2, <1>3
<1>5. HasBest(s)
  <2>1. \A one, other \in S : Points(one) \in Int /\ Points(other) \in Int /\ one.id \in Nat /\ other.id \in Nat
    BY PointsType
  <2>2. \A one, other \in S : BetterJar(one, other) \/ BetterJar(other, one)
    BY <2>1 DEF BetterJar
  <2>3. \A one, other, third \in S : BetterJar(one, other) /\ BetterJar(other, third) => BetterJar(one, third)
    BY <2>1 DEF BetterJar
  <2>4. CASE s \ {x} = {}
    <3>1. s = {x} /\ x \in S
      BY <1>3, <1>4, <2>4
    <3> QED
      BY <2>2, <3>1
  <2>5. CASE HasBest(s \ {x})
    <3>1. PICK jar \in s \ {x} : \A other \in s \ {x} : BetterJar(jar, other)
      BY <2>5
    <3>2. jar \in S /\ x \in S
      BY <1>3, <1>4, <3>1
    <3>3. CASE BetterJar(jar, x)
      BY <1>3, <3>1, <3>3
    <3>4. CASE BetterJar(x, jar)
      <4>1. \A other \in s : BetterJar(x, other)
        BY <1>4, <2>2, <2>3, <3>1, <3>2, <3>4
      <4> QED
        BY <1>3, <4>1
    <3> QED
      BY <2>2, <3>2, <3>3, <3>4
  <2> QED
    BY <1>3, <1>4, <2>4, <2>5
<1> QED
  BY <1>4, <1>5

(* The jar that is served is one of those that were considered. *)
LEMMA BestIsThere ==
  ASSUME IsHome(home), RuntimeJars # {}
  PROVE  BestJar \in RuntimeJars
<1>1. IsFiniteSet(home.jars) /\ RuntimeJars \subseteq home.jars
  BY DEF IsHome, RuntimeJars
<1>2. IsFiniteSet(RuntimeJars)
  BY <1>1, FS_Subset
<1>3. \A jar \in RuntimeJars : jar.id \in Nat
  BY <1>1 DEF IsHome, JarsOf, IsRuntimeJar
<1>4. \E jar \in RuntimeJars : \A other \in RuntimeJars : BetterJar(jar, other)
  BY <1>2, <1>3, BestExists
<1> QED
  BY <1>4 DEF BestJar, BetterJar

-----------------------------------------------------------------------------
(* What a call that was served a jar knows of it, and of the classes it has loaded: as long as
   no build wrote, all members that the jar has, each under its name unless a warning tells or
   the remap changed it silently. *)
JarFits ==
    Scope # "vanilla" =>
        /\ {Expected, probe.jar.loader} \subseteq KnownLoaders => probe.jar.loader = Expected
        /\ probe.approximate <=> probe.jar.version \notin {"none", VersionWanted}
        /\ ~Widening => \/ VersionWanted \in {probe.jar.version, probe.jar.loaderToken}
                        \/ "inside" \in probe.jar.marks /\ home.version = VersionWanted

ClassLoaded(c) ==
    /\ c \in DOMAIN probe.jar.holds /\ DOMAIN probe.loaded[c] = probe.jar.holds[c]
    /\ {probe.label, probe.jar.names} # {"mojang", "srg"} =>
          \A m \in probe.jar.holds[c] :
             \/ probe.loaded[c][m] \in {"kept"} \cup Silently
             \/ c \in probe.told

JarServed ==
    /\ probe.jar \in JarsOf(home) /\ probe.label = TakenNames(probe.jar)
    /\ \A c \in DOMAIN probe.loaded : ClassLoaded(c)
    /\ \A c \in OwnerClasses \ probe.left : c \in DOMAIN probe.loaded \/ c \in probe.told

IsProbe ==
    probe \in [pc : {"asked", "refused", "loading", "answered"}, jar : {probe.jar},
               label : {probe.label}, approximate : {probe.approximate}, left : {probe.left},
               loaded : {probe.loaded}, told : {probe.told}, missing : {probe.missing},
               valid : {probe.valid}]

AccessInv ==
    /\ IsHome(home) /\ IsProbe /\ builds \in Nat /\ (builds = 0 => OnePerPath(home))
    /\ probe.pc = "asked" => probe.loaded = [c \in {} |-> {}]
    /\ probe.pc \in {"loading", "answered"} => JarFits /\ (builds = 0 => JarServed)
    /\ AccessRight

(* What is not answered yet is not wrong. *)
LEMMA NotConcluded ==
  ASSUME probe'.pc # "answered" PROVE AccessRight'
BY DEF AccessRight, ValidIsTrue, MissIsTold, EvidenceFits

(* A jar is chosen and served: it fits the request, and no class was loaded from it yet. *)
LEMMA ServeKeeps ==
  ASSUME AccessInv, ServeJar PROVE AccessInv'
<1> DEFINE jar == IF Scope = "vanilla" THEN home.vanilla ELSE BestJar
           approximated == Scope # "vanilla" /\ Approximated(jar)
<1>1. /\ probe.pc = "asked" /\ UNCHANGED <<home, access, demand, builds>>
      /\ probe' = IF AccessRefused THEN [probe EXCEPT !.pc = "refused"]
                  ELSE [probe EXCEPT !.pc = "loading", !.jar = jar, !.label = TakenNames(jar),
                                     !.left = OwnerClasses, !.approximate = approximated]
  BY DEF ServeJar
<1>2. probe.loaded = [c \in {} |-> {}]
  BY <1>1 DEF AccessInv
<1>3. CASE AccessRefused
  <2>1. probe' = [probe EXCEPT !.pc = "refused"]
    BY <1>1, <1>3
  <2>2. probe'.pc = "refused" /\ IsProbe'
    BY <2>1 DEF AccessInv, IsProbe
  <2>3. AccessRight'
    BY <2>2, NotConcluded
  <2> QED
    BY <1>1, <2>2, <2>3 DEF AccessInv, IsHome, OnePerPath, JarsOf
<1>4. CASE ~AccessRefused
  <2>1. PICK one, close : one = jar /\ close = approximated
    OBVIOUS
  <2>2. probe' = [probe EXCEPT !.pc = "loading", !.jar = one, !.label = TakenNames(one),
                               !.left = OwnerClasses, !.approximate = close]
    BY <1>1, <1>4, <2>1
  <2>3. /\ probe'.pc = "loading" /\ probe'.jar = one /\ probe'.label = TakenNames(one)
        /\ probe'.left = OwnerClasses /\ probe'.approximate = close /\ probe'.loaded = probe.loaded
        /\ IsProbe'
    BY <2>2 DEF AccessInv, IsProbe
  <2>4. one \in JarsOf(home) /\ (Scope # "vanilla" => one \in RuntimeJars /\ ~Mismatch(one))
    <3>1. CASE Scope = "vanilla"
      BY <2>1, <3>1 DEF JarsOf
    <3>2. CASE Scope # "vanilla"
      <4>1. RuntimeJars # {} /\ one = BestJar /\ ~Mismatch(one)
        BY <1>4, <2>1, <3>2 DEF AccessRefused
      <4>2. one \in RuntimeJars
        BY <4>1, BestIsThere DEF AccessInv
      <4> QED
        BY <4>1, <4>2 DEF JarsOf, RuntimeJars
    <3> QED
      BY <3>1, <3>2
  <2>5. JarFits'
    <3> SUFFICES ASSUME Scope' # "vanilla" PROVE JarFits'
      BY DEF JarFits
    <3>1. /\ Scope' = Scope /\ Expected' = Expected /\ VersionWanted' = VersionWanted
          /\ Widening' = Widening
      BY <1>1 DEF Scope, Expected, VersionWanted, Widening, TransformerLoader
    <3>2. {Expected, one.loader} \subseteq KnownLoaders => one.loader = Expected
      BY <2>4, <3>1 DEF Mismatch
    <3>3. close <=> one.version \notin {"none", VersionWanted}
      BY <2>1, <3>1 DEF Approximated
    <3>4. ~Widening => \/ VersionWanted \in {one.version, one.loaderToken}
                       \/ "inside" \in one.marks /\ home.version = VersionWanted
      <4>1. ~Widening => Evidence(one) # 0
        BY <2>4, <3>1 DEF RuntimeJars, Eligible
      <4> QED
        BY <4>1 DEF Evidence
    <3> QED
      BY <1>1, <2>3, <3>1, <3>2, <3>3, <3>4 DEF JarFits
  <2>6. JarServed'
    <3>1. TakenNames(one)' = TakenNames(one) /\ JarsOf(home)' = JarsOf(home) /\ OwnerClasses' = OwnerClasses
      BY <1>1 DEF TakenNames, Scope, Widening, TransformerLoader, JarsOf, OwnerClasses, Entries
    <3> QED
      BY <1>2, <2>3, <2>4, <3>1 DEF JarServed
  <2>7. AccessRight'
    BY <2>3, NotConcluded
  <2> QED
    BY <1>1, <2>3, <2>5, <2>6, <2>7 DEF AccessInv, IsHome, OnePerPath, JarsOf
<1> QED
  BY <1>3, <1>4

(* The members of a class that was found are listed under their names, but for what a warning
   tells and what the remap changes silently. *)
LEMMA ListedOrTold ==
  ASSUME NEW class, NEW jar, FoundIn(class, jar), {probe.label, jar.names} # {"mojang", "srg"},
         NEW remap \in ListedAs(jar), remap \notin {"kept"} \cup Silently
  PROVE  (Translates /\ remap = "unremapped") \/ class \in UntoldNames(class)
<1>1. remap = "unremapped" /\ jar.names # FileNames
  BY DEF ListedAs, Remaps, Silently
<1>2. CASE Translates
  BY <1>1, <1>2
<1>3. CASE ~Translates /\ NeedsNames
  BY <1>3 DEF UntoldNames
<1>4. CASE ~NeedsNames
  <2>1. FileNames = probe.label /\ ~Translates
    BY <1>4 DEF NeedsNames, Translates
  <2>2. SameClassNames(FileNames, jar.names)
    BY <2>1 DEF FoundIn
  <2> QED
    BY <1>1, <2>1, <2>2 DEF SameClassNames
<1> QED
  BY <1>2, <1>3, <1>4

(* One more class was read, or was not. *)
LEMMA LoadedMore ==
  ASSUME JarServed, NEW class, UNCHANGED <<home, access, demand>>,
         probe'.jar = probe.jar, probe'.label = probe.label, probe'.left = probe.left \ {class},
         probe.told \subseteq probe'.told, DOMAIN probe.loaded \subseteq DOMAIN probe'.loaded,
         \A c \in DOMAIN probe'.loaded \ {class} :
             c \in DOMAIN probe.loaded /\ probe'.loaded[c] = probe.loaded[c],
         class \in DOMAIN probe'.loaded \cup probe'.told,
         class \in DOMAIN probe'.loaded => ClassLoaded(class)'
  PROVE  JarServed'
<1>1. ASSUME NEW c \in DOMAIN probe'.loaded, c # class PROVE ClassLoaded(c)'
  <2>1. c \in DOMAIN probe.loaded /\ probe'.loaded[c] = probe.loaded[c] /\ ClassLoaded(c)
    BY <1>1 DEF JarServed
  <2> QED
    BY <2>1 DEF ClassLoaded
<1>2. \A c \in DOMAIN probe'.loaded : ClassLoaded(c)'
  BY <1>1
<1>3. \A c \in OwnerClasses \ probe'.left : c \in DOMAIN probe'.loaded \/ c \in probe'.told
  BY DEF JarServed
<1> QED
  BY <1>2, <1>3 DEF JarServed, TakenNames, Scope, Widening, TransformerLoader, JarsOf, OwnerClasses, Entries

(* A class is read from the jar that was served, by the names that this has, so that a class or
   a member is missed only with a warning. *)
LEMMA LoadedRight ==
  ASSUME AccessInv, builds = 0, JarServed, NEW class \in probe.left, LoadClass(class)
  PROVE  JarServed'
<1>1. UNCHANGED <<home, access, demand, builds>>
  BY DEF LoadClass
<1>2. PICK jar : jar = probe.jar
  OBVIOUS
<1>3. jar \in JarsOf(home) /\ probe.label = TakenNames(jar) /\ OnePerPath(home)
  BY <1>2 DEF JarServed, AccessInv
<1>4. JarNow = {jar}
  BY <1>2, <1>3 DEF JarNow, OnePerPath
<1>5. CASE FoundIn(class, jar)
  <2>1. PICK remaps \in [jar.holds[class] -> ListedAs(jar)] : MembersLoaded(class, remaps)
    BY <1>4, <1>5 DEF LoadClass
  <2>2. PICK left, loaded, told :
           /\ left = probe.left \ {class}
           /\ loaded = [c \in DOMAIN probe.loaded \cup {class} |->
                           IF c = class THEN remaps ELSE probe.loaded[c]]
           /\ told = (probe.told \cup UntoldNames(class))
                      \cup (IF Translates /\ \E m \in DOMAIN remaps : remaps[m] = "unremapped"
                            THEN {class} ELSE {})
    OBVIOUS
  <2>3. probe' = [probe EXCEPT !.left = left, !.loaded = loaded, !.told = told]
    BY <2>1, <2>2 DEF MembersLoaded
  <2>4. /\ probe'.left = left /\ probe'.loaded = loaded /\ probe'.told = told
        /\ probe'.jar = jar /\ probe'.label = probe.label
    BY <1>2, <2>3 DEF AccessInv, IsProbe
  <2>5. /\ DOMAIN loaded = DOMAIN probe.loaded \cup {class} /\ loaded[class] = remaps
        /\ \A c \in DOMAIN loaded \ {class} : c \in DOMAIN probe.loaded /\ loaded[c] = probe.loaded[c]
    BY <2>2
  <2>6. class \in DOMAIN jar.holds /\ DOMAIN remaps = jar.holds[class]
    BY <1>5, <2>1 DEF FoundIn
  <2>7. ASSUME {probe.label, jar.names} # {"mojang", "srg"}, NEW m \in jar.holds[class]
        PROVE  remaps[m] \in {"kept"} \cup Silently \/ class \in told
    <3>1. remaps[m] \in ListedAs(jar)
      BY <2>1, <2>7
    <3>2. \/ remaps[m] \in {"kept"} \cup Silently
          \/ Translates /\ remaps[m] = "unremapped"
          \/ class \in UntoldNames(class)
      BY <1>5, <2>7, <3>1, ListedOrTold
    <3> QED
      BY <2>2, <2>6, <3>2
  <2>8. ClassLoaded(class)'
    BY <2>4, <2>5, <2>6, <2>7 DEF ClassLoaded
  <2>9. probe.told \subseteq told /\ left = probe.left \ {class}
    BY <2>2
  <2>10. DOMAIN probe.loaded \subseteq DOMAIN loaded /\ class \in DOMAIN loaded \cup told
    BY <2>5
  <2>11. UNCHANGED <<home, access, demand>>
    BY <1>1
  <2> QED
    BY <1>2, <2>4, <2>5, <2>8, <2>9, <2>10, <2>11, LoadedMore
<1>6. CASE ~FoundIn(class, jar)
  <2>1. probe' = [probe EXCEPT !.left = probe.left \ {class}, !.told = probe.told \cup {class}]
    BY <1>4, <1>6 DEF LoadClass
  <2>2. PICK left, told : left = probe.left \ {class} /\ told = probe.told \cup {class}
    OBVIOUS
  <2>3. probe' = [probe EXCEPT !.left = left, !.told = told]
    BY <2>1, <2>2
  <2>4. /\ probe'.left = left /\ probe'.loaded = probe.loaded /\ probe'.told = told
        /\ probe'.jar = jar /\ probe'.label = probe.label
    BY <1>2, <2>3 DEF AccessInv, IsProbe
  <2>5. class \in DOMAIN probe.loaded => ClassLoaded(class)'
    <3>1. class \in DOMAIN probe.loaded => ClassLoaded(class)
      BY DEF JarServed
    <3> QED
      BY <1>2, <2>2, <2>4, <3>1 DEF ClassLoaded
  <2>6. probe.told \subseteq told /\ left = probe.left \ {class} /\ class \in told
    BY <2>2
  <2>7. UNCHANGED <<home, access, demand>>
    BY <1>1
  <2> QED
    BY <1>2, <2>4, <2>5, <2>6, <2>7, LoadedMore
<1> QED
  BY <1>5, <1>6

(* What fits a jar goes on to fit it. *)
LEMMA FitsOn ==
  ASSUME JarFits, UNCHANGED <<access, demand>>, home'.version = home.version,
         home'.loader = home.loader, probe'.jar = probe.jar, probe'.approximate = probe.approximate
  PROVE  JarFits'
<1>1. /\ Scope' = Scope /\ Expected' = Expected /\ VersionWanted' = VersionWanted
      /\ Widening' = Widening
  BY DEF Scope, Expected, VersionWanted, Widening, TransformerLoader
<1> QED
  BY <1>1 DEF JarFits

(* A class is loaded from the served jar, or the warning tells that it could not be. *)
LEMMA LoadKeeps ==
  ASSUME AccessInv, NEW class, LoadClass(class) PROVE AccessInv'
<1>1. /\ probe.pc = "loading" /\ class \in probe.left /\ UNCHANGED <<home, access, demand, builds>>
      /\ \/ \E remaps : MembersLoaded(class, remaps)
         \/ probe' = [probe EXCEPT !.left = probe.left \ {class}, !.told = probe.told \cup {class}]
  BY DEF LoadClass
<1>2. IsProbe
  BY DEF AccessInv
<1>3. /\ probe'.pc = "loading" /\ probe'.jar = probe.jar /\ probe'.approximate = probe.approximate
      /\ IsProbe'
  <2>1. CASE \E remaps : MembersLoaded(class, remaps)
    <3>1. PICK remaps : MembersLoaded(class, remaps)
      BY <2>1
    <3>2. PICK left, loaded, told :
             probe' = [probe EXCEPT !.left = left, !.loaded = loaded, !.told = told]
      BY <3>1 DEF MembersLoaded
    <3> QED
      BY <1>1, <1>2, <3>2 DEF IsProbe
  <2>2. CASE probe' = [probe EXCEPT !.left = probe.left \ {class}, !.told = probe.told \cup {class}]
    BY <1>1, <1>2, <2>2 DEF IsProbe
  <2> QED
    BY <1>1, <2>1, <2>2
<1>4. JarFits'
  BY <1>1, <1>3, FitsOn DEF AccessInv
<1>5. builds = 0 => JarServed'
  BY <1>1, LoadedRight DEF AccessInv
<1>6. AccessRight'
  BY <1>3, NotConcluded
<1> QED
  BY <1>1, <1>3, <1>4, <1>5, <1>6 DEF AccessInv, IsHome, OnePerPath, JarsOf

(* What is listed under its name is a target if it is one. *)
LEMMA KeptTarget ==
  ASSUME NEW line, NEW m PROVE IsTarget(line, Listed(m, "kept")) <=> IsTarget(line, m)
<1>1. /\ Listed(m, "kept").name = m.name /\ Listed(m, "kept").kind = m.kind
      /\ Listed(m, "kept").descriptor = m.descriptor
  BY DEF Listed
<1> QED
  BY <1>1 DEF IsTarget

(* What resolves in the classes that were loaded is in the jar, but for a warning or a silent
   change. *)
LEMMA ResolvedIsThere ==
  ASSUME NEW line, Resolved(line), ClassLoaded(line.class), line.class \notin probe.told,
         {probe.label, probe.jar.names} # {"mojang", "srg"}
  PROVE  Holds(probe.jar, line) \/ ChangedSilently(line)
<1>1. CASE line.sort \notin {"method", "field"}
  BY <1>1 DEF Holds, ClassLoaded
<1>2. CASE line.sort \in {"method", "field"}
  <2>1. PICK m \in DOMAIN probe.loaded[line.class] :
           IsTarget(line, Listed(m, probe.loaded[line.class][m]))
    BY <1>2 DEF Resolved, ListsTarget
  <2>2. m \in probe.jar.holds[line.class] /\ probe.loaded[line.class][m] \in {"kept"} \cup Silently
    BY <2>1 DEF ClassLoaded
  <2>3. CASE probe.loaded[line.class][m] = "kept"
    BY <2>1, <2>2, <2>3, KeptTarget DEF Holds, ClassLoaded
  <2>4. CASE probe.loaded[line.class][m] \in Silently
    BY <2>1, <2>4 DEF ChangedSilently, Resolved
  <2> QED
    BY <2>2, <2>3, <2>4
<1> QED
  BY <1>1, <1>2

(* What is in the jar resolves in a class that was loaded, but for a warning or a silent
   change. *)
LEMMA ThereIsResolved ==
  ASSUME NEW line, ~Resolved(line), line.class \in DOMAIN probe.loaded, ClassLoaded(line.class),
         {probe.label, probe.jar.names} # {"mojang", "srg"}, Holds(probe.jar, line)
  PROVE  line.class \in probe.told \/ ChangedSilently(line)
<1>1. line.sort \in {"method", "field"} /\ ~ListsTarget(line, probe.loaded[line.class])
  BY DEF Resolved
<1>2. PICK m \in probe.jar.holds[line.class] : IsTarget(line, m)
  BY <1>1 DEF Holds
<1>3. m \in DOMAIN probe.loaded[line.class]
  BY <1>2 DEF ClassLoaded
<1>4. ~IsTarget(line, Listed(m, probe.loaded[line.class][m]))
  BY <1>1, <1>3 DEF ListsTarget
<1>5. CASE probe.loaded[line.class][m] = "kept"
  BY <1>2, <1>4, <1>5, KeptTarget
<1>6. CASE probe.loaded[line.class][m] \in Silently
  BY <1>2, <1>3, <1>6 DEF ChangedSilently
<1> QED
  BY <1>2, <1>5, <1>6 DEF ClassLoaded

(* The verdict is given, about the jar that was served. *)
LEMMA ConcludeKeeps ==
  ASSUME AccessInv, Conclude PROVE AccessInv'
<1>1. /\ probe.pc = "loading" /\ probe.left = {} /\ UNCHANGED <<home, access, demand, builds>>
  BY DEF Conclude
<1>2. PICK valid, missing : /\ valid = Valid /\ missing = {l \in Entries : Legal(l) /\ ~Resolved(l)}
                            /\ probe' = [probe EXCEPT !.pc = "answered", !.valid = valid, !.missing = missing]
  BY DEF Conclude
<1>3. /\ probe'.pc = "answered" /\ probe'.jar = probe.jar /\ probe'.approximate = probe.approximate
      /\ probe'.valid = valid /\ probe'.missing = missing /\ probe'.told = probe.told
      /\ probe'.loaded = probe.loaded /\ probe'.left = probe.left /\ probe'.label = probe.label
      /\ IsProbe'
  BY <1>1, <1>2 DEF AccessInv, IsProbe
<1>4. JarFits'
  BY <1>1, <1>3, FitsOn DEF AccessInv
<1>5. builds = 0 => JarServed'
  BY <1>1, <1>3 DEF AccessInv, JarServed, ClassLoaded, TakenNames, Scope, Widening, TransformerLoader,
                    JarsOf, OwnerClasses, Entries
<1>6. EvidenceFits'
  BY <1>3, <1>4 DEF EvidenceFits, JarFits
<1>7. \A l : Legal(l)' <=> Legal(l)
  BY <1>1 DEF Legal, Widening
<1>8. /\ \A l : Holds(probe.jar, l)' <=> Holds(probe.jar, l)
      /\ \A l : ChangedSilently(l)' <=> ChangedSilently(l)
      /\ JarAsServed' <=> JarAsServed
  <2>1. \A l, m : IsTarget(l, m)' <=> IsTarget(l, m)
    BY <1>1 DEF IsTarget, Widening
  <2> QED
    BY <1>1, <1>3, <2>1 DEF Holds, ChangedSilently, JarAsServed
<1>9. ASSUME builds = 0 PROVE \A c \in DOMAIN probe.loaded : ClassLoaded(c)
  BY <1>1, <1>9 DEF AccessInv, JarServed
<1>10. ValidIsTrue'
  <2> SUFFICES ASSUME valid, NEW i \in DOMAIN access.lines, NEW line, line = access.lines[i]
               PROVE  /\ line.state = "entry" /\ Legal(line)
                      /\ builds = 0 => line.class \in DOMAIN probe.jar.holds
                      /\ JarAsServed => \/ Holds(probe.jar, line)
                                        \/ line.class \in probe.told \/ ChangedSilently(line)
    BY <1>1, <1>3, <1>7, <1>8 DEF ValidIsTrue
  <2>1. line.state = "entry" /\ line \in Entries
    BY <1>2 DEF Valid, Rejected, Entries, Range
  <2>2. Legal(line) /\ Resolved(line)
    BY <1>2, <2>1 DEF Valid
  <2>3. builds = 0 => line.class \in DOMAIN probe.jar.holds
    BY <1>9, <2>2 DEF Resolved, ClassLoaded
  <2>4. ASSUME JarAsServed, line.class \notin probe.told
        PROVE  Holds(probe.jar, line) \/ ChangedSilently(line)
    BY <1>9, <2>2, <2>4, ResolvedIsThere DEF JarAsServed, Resolved
  <2> QED
    BY <2>1, <2>2, <2>3, <2>4
<1>11. MissIsTold'
  <2> SUFFICES ASSUME NEW line \in missing, JarAsServed, Holds(probe.jar, line)
               PROVE  line.class \in probe.told \/ ChangedSilently(line)
    BY <1>3, <1>8 DEF MissIsTold
  <2>1. line \in Entries /\ ~Resolved(line)
    BY <1>2
  <2>2. line.class \in OwnerClasses
    BY <2>1 DEF OwnerClasses
  <2>3. JarServed
    BY <1>1 DEF AccessInv, JarAsServed
  <2>4. CASE line.class \notin DOMAIN probe.loaded
    BY <1>1, <2>2, <2>3, <2>4 DEF JarServed
  <2>5. CASE line.class \in DOMAIN probe.loaded
    BY <1>9, <2>1, <2>5, ThereIsResolved DEF JarAsServed
  <2> QED
    BY <2>4, <2>5
<1> QED
  BY <1>1, <1>3, <1>4, <1>5, <1>6, <1>10, <1>11 DEF AccessInv, IsHome, OnePerPath, JarsOf, AccessRight

(* A jar that was written anew is still a jar. *)
LEMMA WrittenIsJar ==
  ASSUME NEW jar, IsRuntimeJar(jar), NEW holds
  PROVE  IsRuntimeJar([jar EXCEPT !.holds = holds])
BY DEF IsRuntimeJar

(* Once a build has written, nothing is promised of the jar that was served but that it fitted. *)
LEMMA WrittenHomeKeeps ==
  ASSUME AccessInv, NEW jars, IsFiniteSet(jars), \A jar \in jars : IsRuntimeJar(jar),
         home' = [home EXCEPT !.jars = jars], builds' = builds + 1,
         probe.pc \in {"asked", "loading"}, UNCHANGED <<access, demand, probe>>
  PROVE  AccessInv'
<1>1. /\ home'.jars = jars /\ home'.version = home.version /\ home'.loader = home.loader
      /\ home'.vanilla = home.vanilla
      /\ home' \in [jars : {home'.jars}, version : {home'.version}, loader : KnownLoaders \cup {"unknown"},
                    vanilla : {home'.vanilla}, unmapped : SUBSET STRING]
  BY DEF AccessInv, IsHome
<1>2. IsHome(home')
  BY <1>1 DEF AccessInv, IsHome, JarsOf
<1>3. builds' \in Nat /\ builds' # 0
  BY DEF AccessInv
<1>4. JarFits' \/ probe.pc = "asked"
  BY <1>1, FitsOn DEF AccessInv
<1>5. AccessRight'
  BY NotConcluded
<1>6. IsHome(home)' /\ IsProbe'
  BY <1>2 DEF AccessInv, IsProbe, IsHome, JarsOf
<1> QED
  BY <1>3, <1>4, <1>5, <1>6 DEF AccessInv

(* A build removes a jar, or writes another one. *)
LEMMA BuildKeeps ==
  ASSUME AccessInv, NEW jar \in home.jars, Build(jar) PROVE AccessInv'
<1>1. /\ probe.pc \in {"asked", "loading"} /\ builds' = builds + 1
      /\ UNCHANGED <<access, demand, probe>>
      /\ \/ home' = [home EXCEPT !.jars = home.jars \ {jar}]
         \/ home' = [home EXCEPT !.jars = (home.jars \ {jar}) \cup
                        {[jar EXCEPT !.holds = [c \in DOMAIN jar.holds |-> {}]]}]
  BY DEF Build
<1>2. IsFiniteSet(home.jars) /\ \A one \in home.jars : IsRuntimeJar(one)
  BY DEF AccessInv, IsHome, JarsOf
<1>3. PICK other : other = [jar EXCEPT !.holds = [c \in DOMAIN jar.holds |-> {}]]
  OBVIOUS
<1>4. IsRuntimeJar(other)
  BY <1>2, <1>3, WrittenIsJar
<1>5. PICK left : left = home.jars \ {jar}
  OBVIOUS
<1>6. IsFiniteSet(left) /\ IsFiniteSet(left \cup {other})
  BY <1>2, <1>5, FS_Subset, FS_AddElement
<1>7. \A one \in left \cup {other} : IsRuntimeJar(one)
  BY <1>2, <1>4, <1>5
<1>8. \/ home' = [home EXCEPT !.jars = left]
      \/ home' = [home EXCEPT !.jars = left \cup {other}]
  BY <1>1, <1>3, <1>5
<1> QED
  BY <1>1, <1>6, <1>7, <1>8, WrittenHomeKeeps

(* A step of another part. *)
LEMMA AccessStutters ==
  ASSUME AccessInv, UNCHANGED accessVars PROVE AccessInv'
<1>1. UNCHANGED <<home, access, demand, probe, builds>>
  BY DEF accessVars
<1>2. IsHome(home)' /\ IsProbe' /\ (builds = 0 => OnePerPath(home))'
  BY <1>1 DEF AccessInv, IsHome, IsProbe, OnePerPath, JarsOf
<1>3. JarFits => JarFits'
  BY <1>1, FitsOn
<1>4. JarServed => JarServed'
  BY <1>1 DEF JarServed, ClassLoaded, TakenNames, Scope, Widening, TransformerLoader, JarsOf,
              OwnerClasses, Entries
<1>5. /\ ValidIsTrue => ValidIsTrue'
      /\ MissIsTold => MissIsTold'
  BY <1>1 DEF ValidIsTrue, MissIsTold, Holds, Legal, Widening, IsTarget, ChangedSilently, JarAsServed
<1>6. EvidenceFits => EvidenceFits'
  BY <1>1 DEF EvidenceFits, Scope, Expected, VersionWanted, Widening, TransformerLoader
<1> QED
  BY <1>1, <1>2, <1>3, <1>4, <1>5, <1>6 DEF AccessInv, AccessRight

(* Before anything was asked. *)
LEMMA AccessStarts ==
  ASSUME IsHome(home), OnePerPath(home), probe = Unasked, builds = 0
  PROVE  AccessInv
<1>1. probe.pc = "asked" /\ probe.loaded = [c \in {} |-> {}] /\ IsProbe
  BY DEF Unasked, IsProbe
<1> QED
  BY <1>1 DEF AccessInv, AccessRight, ValidIsTrue, MissIsTold, EvidenceFits

(* The validation starts right. *)
LEMMA AccessInitRight == AccessInit => AccessInv
BY AccessAssumption, AccessStarts DEF AccessInit

(* Every step keeps the invariant. *)
LEMMA AccessKept ==
  ASSUME AccessInv, [AccessNext]_accessVars PROVE AccessInv'
BY ServeKeeps, ConcludeKeeps, LoadKeeps, BuildKeeps, AccessStutters DEF AccessNext

(* A file that widens access is valid only if the jar it was looked up in has what each line
   names, and a target that it has is missed, only with a warning, or where a member was
   listed silently under a guess or with a descriptor of the jar, or the jar has srg names
   and was taken to have Mojang's; and the jar is of the loader and the version that the
   answer says: of any workspaces, jars, files and demands (validateAccessWidener,
   validateAccessTransformer, remapSignatureMembers). *)
THEOREM AccessAlwaysRight == AccessSpec => []AccessRight
<1>1. AccessInv => AccessRight
  BY DEF AccessInv
<1> QED
  BY AccessInitRight, AccessKept, <1>1, PTL DEF AccessSpec

-----------------------------------------------------------------------------
(* What the validators have said of the entries of configs, by config and place; the configs
   that could not be read; the verdicts in the order they were given. *)
Positions(units) == UNION {{i} \X DOMAIN units[i].verdicts : i \in DOMAIN units}
SaidAt(units, at) == units[at[1]].verdicts[at[2]]
Unreadable(units) == {i \in DOMAIN units : units[i].threw}
OtherKinds == {"wideners", "transformers"}
SeenVerdicts ==
    {"config", "mixin", "wideners", "transformers"} \X (MixinVerdicts \cup FileVerdicts) \X Nat

IsUnit(u) == u \in [threw : BOOLEAN, verdicts : Seq(MixinVerdicts), left : Seq(MixinVerdicts)]
UnitsRight(units) ==
    /\ \A i \in DOMAIN units : IsUnit(units[i])
    /\ IsFiniteSet(Positions(units)) /\ IsFiniteSet(DOMAIN units)

(* Every verdict that is kept was given, and is kept once; what was given is kept. *)
Balanced(s) ==
    Len(s.seen) = Cardinality(Positions(s.units)) + Cardinality(Unreadable(s.units))
                  + Len(s.files["wideners"]) + Len(s.files["transformers"])
Retained(s, v) ==
    \/ v[1] = "config" /\ v[2] = "throws" /\ Unreadable(s.units) # {}
    \/ v[1] = "mixin" /\ \E at \in Positions(s.units) : SaidAt(s.units, at) = v[2]
    \/ v[1] \in OtherKinds /\ \E i \in DOMAIN s.files[v[1]] : s.files[v[1]][i] = v[2]
AllKept(s) == \A n \in DOMAIN s.seen : Retained(s, s.seen[n])
HasThrown(s, kind) == \E n \in DOMAIN s.seen : s.seen[n][1] = kind /\ s.seen[n][2] = "throws"
ThrowsSeen(s) ==
    /\ Unreadable(s.units) # {} => HasThrown(s, "config")
    /\ \A k \in OtherKinds : \A i \in DOMAIN s.files[k] : s.files[k][i] = "throws" => HasThrown(s, k)

(* What a sequence with an element more is, by its domain. *)
LEMMA AppendIs ==
  ASSUME NEW T, NEW s \in Seq(T), NEW e \in T
  PROVE  /\ Append(s, e) \in Seq(T) /\ Len(Append(s, e)) = Len(s) + 1
         /\ DOMAIN s = 1 .. Len(s) /\ DOMAIN Append(s, e) = 1 .. Len(s) + 1
         /\ DOMAIN Append(s, e) = DOMAIN s \cup {Len(s) + 1} /\ Len(s) \in Nat
         /\ Append(s, e)[Len(s) + 1] = e /\ \A n \in DOMAIN s : Append(s, e)[n] = s[n]
OBVIOUS

(* A config is taken. *)
LEMMA TakenUnit ==
  ASSUME NEW units, UnitsRight(units), NEW at, at \notin DOMAIN units, NEW u, IsUnit(u), u.verdicts = <<>>,
         NEW new, new = [i \in DOMAIN units \cup {at} |-> IF i # at THEN units[i] ELSE u]
  PROVE  /\ UnitsRight(new) /\ Positions(new) = Positions(units)
         /\ \A p \in Positions(units) : SaidAt(new, p) = SaidAt(units, p)
         /\ Unreadable(new) = Unreadable(units) \cup (IF u.threw THEN {at} ELSE {})
         /\ at \notin Unreadable(units) /\ IsFiniteSet(Unreadable(units))
<1>1. /\ DOMAIN new = DOMAIN units \cup {at} /\ new[at] = u
      /\ \A i \in DOMAIN units : i # at /\ new[i] = units[i]
  OBVIOUS
<1>2. Positions(new) = Positions(units)
  <2>1. ASSUME NEW p \in Positions(new) PROVE p \in Positions(units)
    <3>1. PICK i \in DOMAIN new : p \in {i} \X DOMAIN new[i].verdicts
      BY DEF Positions
    <3>2. CASE i = at
      <4>1. DOMAIN new[i].verdicts = {}
        BY <1>1, <3>2
      <4> QED
        BY <3>1, <4>1
    <3>3. CASE i # at
      BY <1>1, <3>1, <3>3 DEF Positions
    <3> QED
      BY <3>2, <3>3
  <2>2. ASSUME NEW p \in Positions(units) PROVE p \in Positions(new)
    BY <1>1 DEF Positions
  <2> QED
    BY <2>1, <2>2
<1>3. \A p \in Positions(units) : SaidAt(new, p) = SaidAt(units, p)
  BY <1>1 DEF Positions, SaidAt
<1>4. Unreadable(new) = Unreadable(units) \cup (IF u.threw THEN {at} ELSE {})
  BY <1>1 DEF Unreadable
<1>5. IsFiniteSet(DOMAIN new) /\ IsFiniteSet(Unreadable(units))
  <2>1. Unreadable(units) \subseteq DOMAIN units
    BY DEF Unreadable
  <2> QED
    BY <1>1, <2>1, FS_AddElement, FS_Subset DEF UnitsRight
<1>6. \A i \in DOMAIN new : IsUnit(new[i])
  BY <1>1 DEF UnitsRight
<1>7. at \notin Unreadable(units)
  BY DEF Unreadable
<1> QED
  BY <1>2, <1>3, <1>4, <1>5, <1>6, <1>7 DEF UnitsRight

(* An entry of a config is validated. *)
LEMMA ValidatedUnit ==
  ASSUME NEW units, UnitsRight(units), NEW at \in DOMAIN units, NEW v \in MixinVerdicts,
         NEW w, IsUnit(w), w.verdicts = Append(units[at].verdicts, v), w.threw = units[at].threw,
         NEW new, DOMAIN new = DOMAIN units, new[at] = w,
         \A i \in DOMAIN units : i # at => new[i] = units[i],
         NEW p, p = <<at, Len(units[at].verdicts) + 1>>
  PROVE  /\ UnitsRight(new) /\ DOMAIN new = DOMAIN units /\ Unreadable(new) = Unreadable(units)
         /\ Positions(new) = Positions(units) \cup {p} /\ p \notin Positions(units)
         /\ SaidAt(new, p) = v
         /\ \A q \in Positions(units) : SaidAt(new, q) = SaidAt(units, q)
<1>1. PICK u : u = units[at]
  OBVIOUS
<1>2. IsUnit(u)
  BY <1>1 DEF UnitsRight
<1>3. PICK said : said = Append(u.verdicts, v)
  OBVIOUS
<1>4. /\ u.verdicts \in Seq(MixinVerdicts) /\ said \in Seq(MixinVerdicts)
      /\ DOMAIN said = DOMAIN u.verdicts \cup {Len(u.verdicts) + 1}
      /\ Len(u.verdicts) + 1 \notin DOMAIN u.verdicts
      /\ said[Len(u.verdicts) + 1] = v /\ \A n \in DOMAIN u.verdicts : said[n] = u.verdicts[n]
  <2>1. u.verdicts \in Seq(MixinVerdicts)
    BY <1>2 DEF IsUnit
  <2>2. PICK q, T : q = u.verdicts /\ T = MixinVerdicts
    OBVIOUS
  <2>3. q \in Seq(T) /\ v \in T
    BY <2>1, <2>2
  <2>4. /\ said \in Seq(T) /\ DOMAIN said = DOMAIN q \cup {Len(q) + 1} /\ DOMAIN q = 1 .. Len(q)
        /\ Len(q) \in Nat /\ said[Len(q) + 1] = v /\ \A n \in DOMAIN q : said[n] = q[n]
    BY <1>3, <2>2, <2>3, AppendIs
  <2>5. Len(q) + 1 \notin DOMAIN q
    BY <2>4
  <2> QED
    BY <2>1, <2>2, <2>4, <2>5
<1>6. w.verdicts = said /\ w.threw = u.threw
  BY <1>1, <1>3
<1>8. DOMAIN new = DOMAIN units /\ new[at] = w /\ \A i \in DOMAIN units : i # at => new[i] = units[i]
  OBVIOUS
<1>9. Unreadable(new) = Unreadable(units)
  BY <1>1, <1>6, <1>8 DEF Unreadable
<1>10. Positions(new) = Positions(units) \cup {p}
  <2>1. ASSUME NEW q \in Positions(new) PROVE q \in Positions(units) \cup {p}
    <3>1. PICK i \in DOMAIN new : q \in {i} \X DOMAIN new[i].verdicts
      BY DEF Positions
    <3>2. CASE i = at
      <4>1. q[2] \in DOMAIN said /\ q = <<at, q[2]>>
        BY <1>6, <1>8, <3>1, <3>2
      <4>2. CASE q[2] \in DOMAIN u.verdicts
        BY <1>1, <4>1, <4>2 DEF Positions
      <4>3. CASE q[2] = Len(u.verdicts) + 1
        BY <1>1, <4>1, <4>3
      <4> QED
        BY <1>4, <4>1, <4>2, <4>3
    <3>3. CASE i # at
      BY <1>8, <3>1, <3>3 DEF Positions
    <3> QED
      BY <3>2, <3>3
  <2>2. ASSUME NEW q \in Positions(units) PROVE q \in Positions(new)
    <3>1. PICK i \in DOMAIN units : q \in {i} \X DOMAIN units[i].verdicts
      BY DEF Positions
    <3>2. CASE i = at
      <4>1. q[2] \in DOMAIN said /\ q = <<at, q[2]>>
        BY <1>1, <1>4, <3>1, <3>2
      <4>2. q \in {at} \X DOMAIN new[at].verdicts /\ at \in DOMAIN new
        BY <1>6, <1>8, <4>1
      <4> QED
        BY <4>2 DEF Positions
    <3>3. CASE i # at
      BY <1>8, <3>1, <3>3 DEF Positions
    <3> QED
      BY <3>2, <3>3
  <2>3. p \in Positions(new)
    BY <1>1, <1>4, <1>6, <1>8 DEF Positions
  <2> QED
    BY <2>1, <2>2, <2>3
<1>11. p \notin Positions(units)
  BY <1>1, <1>4 DEF Positions
<1>12. SaidAt(new, p) = v
  BY <1>1, <1>4, <1>6, <1>8 DEF SaidAt
<1>13. ASSUME NEW q \in Positions(units) PROVE SaidAt(new, q) = SaidAt(units, q)
  <2>1. PICK i \in DOMAIN units : q \in {i} \X DOMAIN units[i].verdicts
    BY DEF Positions
  <2>2. CASE i = at
    BY <1>1, <1>4, <1>6, <1>8, <2>1, <2>2 DEF SaidAt
  <2>3. CASE i # at
    BY <1>8, <2>1, <2>3 DEF SaidAt
  <2> QED
    BY <2>2, <2>3
<1>14. UnitsRight(new)
  <2>1. IsFiniteSet(Positions(units)) /\ IsFiniteSet(DOMAIN units) /\ \A i \in DOMAIN units : IsUnit(units[i])
    BY DEF UnitsRight
  <2>2. \A i \in DOMAIN new : IsUnit(new[i])
    BY <1>8, <2>1
  <2>3. IsFiniteSet(Positions(units) \cup {p})
    BY <2>1, FS_AddElement
  <2> QED
    BY <1>8, <1>10, <2>1, <2>2, <2>3 DEF UnitsRight
<1> QED
  BY <1>8, <1>9, <1>10, <1>11, <1>12, <1>13, <1>14

-----------------------------------------------------------------------------
(* Two parts, and three, count what they do together. *)
LEMMA TwoParts ==
  ASSUME NEW A, IsFiniteSet(A), NEW B, IsFiniteSet(B), A \cap B = {}
  PROVE  /\ Cardinality(A) \in Nat /\ Cardinality(B) \in Nat /\ IsFiniteSet(A \cup B)
         /\ Cardinality(A \cup B) = Cardinality(A) + Cardinality(B)
<1>1. Cardinality(A) \in Nat /\ Cardinality(B) \in Nat /\ Cardinality({}) = 0
  BY FS_CardinalityType, FS_EmptySet
<1>2. /\ IsFiniteSet(A \cup B)
      /\ Cardinality(A \cup B) = Cardinality(A) + Cardinality(B) - Cardinality(A \cap B)
  BY FS_Union
<1>3. Cardinality(A \cap B) = 0
  BY <1>1
<1>4. PICK a, b \in Nat : a = Cardinality(A) /\ b = Cardinality(B)
  BY <1>1
<1>5. Cardinality(A \cup B) = a + b - 0
  BY <1>2, <1>3, <1>4
<1>6. a + b - 0 = a + b
  OBVIOUS
<1> QED
  BY <1>1, <1>2, <1>4, <1>5, <1>6

(* Three sets that share nothing have as many elements as they have together. *)
LEMMA ThreeParts ==
  ASSUME NEW A, IsFiniteSet(A), NEW B, IsFiniteSet(B), NEW C, IsFiniteSet(C),
         A \cap B = {}, (A \cup B) \cap C = {}
  PROVE  /\ Cardinality(A) \in Nat /\ Cardinality(B) \in Nat /\ Cardinality(C) \in Nat
         /\ Cardinality((A \cup B) \cup C) = Cardinality(A) + Cardinality(B) + Cardinality(C)
<1>1. /\ Cardinality(A) \in Nat /\ Cardinality(B) \in Nat /\ IsFiniteSet(A \cup B)
      /\ Cardinality(A \cup B) = Cardinality(A) + Cardinality(B)
  BY TwoParts
<1>2. PICK D : D = A \cup B
  OBVIOUS
<1>3. IsFiniteSet(D) /\ D \cap C = {}
  BY <1>1, <1>2
<1>4. Cardinality(C) \in Nat /\ Cardinality(D \cup C) = Cardinality(D) + Cardinality(C)
  BY <1>3, TwoParts
<1> QED
  BY <1>1, <1>2, <1>4

(* Only the empty set has no elements. *)
LEMMA NoneIsEmpty ==
  ASSUME NEW S, IsFiniteSet(S)
  PROVE  Cardinality(S) = 0 <=> S = {}
BY FS_EmptySet

SaidIn(units, wanted) == {at \in Positions(units) : SaidAt(units, at) \in wanted}

(* What was said of entries is counted once. *)
LEMMA UnitsCount ==
  ASSUME NEW units, UnitsRight(units)
  PROVE  /\ Cardinality(SaidIn(units, {"clean", "unsure", "partial"})) \in Nat
         /\ Cardinality(SaidIn(units, {"partial"})) \in Nat
         /\ Cardinality(SaidIn(units, {"invalid"})) \in Nat
         /\ Cardinality(SaidIn(units, {"throws"})) \in Nat
         /\ Cardinality(Positions(units)) =
               Cardinality(SaidIn(units, {"clean", "unsure", "partial"}))
               + Cardinality(SaidIn(units, {"invalid"})) + Cardinality(SaidIn(units, {"throws"}))
         /\ Cardinality(SaidIn(units, {"partial"})) <=
               Cardinality(SaidIn(units, {"clean", "unsure", "partial"}))
         /\ Cardinality(SaidIn(units, {"partial"})) = 0 /\ Cardinality(SaidIn(units, {"invalid"})) = 0
            /\ Cardinality(SaidIn(units, {"throws"})) = 0 =>
               \A at \in Positions(units) : SaidAt(units, at) \in {"clean", "unsure"}
<1>1. \A at \in Positions(units) : SaidAt(units, at) \in MixinVerdicts
  <2> SUFFICES ASSUME NEW at \in Positions(units) PROVE SaidAt(units, at) \in MixinVerdicts
    OBVIOUS
  <2>1. PICK i \in DOMAIN units : at \in {i} \X DOMAIN units[i].verdicts
    BY DEF Positions
  <2>2. units[i].verdicts \in Seq(MixinVerdicts) /\ at[1] = i /\ at[2] \in DOMAIN units[i].verdicts
    BY <2>1 DEF UnitsRight, IsUnit
  <2> QED
    BY <2>2 DEF SaidAt
<1>2. IsFiniteSet(Positions(units))
  BY DEF UnitsRight
<1>3. PICK S, A, B, C, P : /\ S = Positions(units) /\ A = SaidIn(units, {"clean", "unsure", "partial"})
                           /\ B = SaidIn(units, {"invalid"}) /\ C = SaidIn(units, {"throws"})
                           /\ P = SaidIn(units, {"partial"})
  OBVIOUS
<1>4. /\ S = A \cup B \cup C /\ A \cap B = {} /\ A \cap C = {} /\ B \cap C = {} /\ P \subseteq A
      /\ P = {} /\ B = {} /\ C = {} =>
            \A at \in Positions(units) : SaidAt(units, at) \in {"clean", "unsure"}
  BY <1>1, <1>3 DEF SaidIn, MixinVerdicts
<1>6. IsFiniteSet(A) /\ IsFiniteSet(B) /\ IsFiniteSet(C)
  <2>1. A \subseteq S /\ B \subseteq S /\ C \subseteq S
    BY <1>4
  <2> QED
    BY <1>2, <1>3, <2>1, FS_Subset
<1>9. A \cap B = {} /\ (A \cup B) \cap C = {}
  BY <1>4
<1>11. S = (A \cup B) \cup C
  BY <1>4
<1>10. /\ Cardinality(A) \in Nat /\ Cardinality(B) \in Nat /\ Cardinality(C) \in Nat
       /\ Cardinality((A \cup B) \cup C) = Cardinality(A) + Cardinality(B) + Cardinality(C)
  BY <1>6, <1>9, ThreeParts
<1>5. Cardinality(S) = Cardinality(A) + Cardinality(B) + Cardinality(C)
  BY <1>10, <1>11
<1>7. IsFiniteSet(P) /\ Cardinality(P) <= Cardinality(A) /\ Cardinality(P) \in Nat
  BY <1>4, <1>6, FS_Subset, FS_CardinalityType
<1>8. /\ Cardinality(P) = 0 <=> P = {}
      /\ Cardinality(B) = 0 <=> B = {}
      /\ Cardinality(C) = 0 <=> C = {}
  BY <1>6, <1>7, NoneIsEmpty
<1> QED
  BY <1>3, <1>4, <1>5, <1>7, <1>8, <1>10

(* What was said of files is counted once. *)
LEMMA FilesCount ==
  ASSUME NEW f \in Seq(FileVerdicts)
  PROVE  /\ Number(f, {"clean"}) \in Nat /\ Number(f, {"invalid", "throws"}) \in Nat
         /\ Number(f, {"other format"}) \in Nat
         /\ Len(f) = Number(f, {"clean"}) + Number(f, {"invalid", "throws"}) + Number(f, {"other format"})
         /\ Number(f, {"invalid", "throws"}) = 0 /\ Number(f, {"other format"}) = 0 =>
               \A i \in DOMAIN f : f[i] = "clean"
<1>1. DOMAIN f = 1 .. Len(f) /\ Len(f) \in Nat /\ \A i \in DOMAIN f : f[i] \in FileVerdicts
  OBVIOUS
<1>2. IsFiniteSet(DOMAIN f) /\ Cardinality(DOMAIN f) = Len(f)
  BY <1>1, FS_Interval
<1>3. PICK A, B, C : /\ A = {i \in DOMAIN f : f[i] \in {"clean"}}
                     /\ B = {i \in DOMAIN f : f[i] \in {"invalid", "throws"}}
                     /\ C = {i \in DOMAIN f : f[i] \in {"other format"}}
  OBVIOUS
<1>4. /\ DOMAIN f = A \cup B \cup C /\ A \cap B = {} /\ A \cap C = {} /\ B \cap C = {}
      /\ B = {} /\ C = {} => \A i \in DOMAIN f : f[i] = "clean"
  BY <1>1, <1>3 DEF FileVerdicts
<1>6. IsFiniteSet(A) /\ IsFiniteSet(B) /\ IsFiniteSet(C)
  <2>1. A \subseteq DOMAIN f /\ B \subseteq DOMAIN f /\ C \subseteq DOMAIN f
    BY <1>3
  <2> QED
    BY <1>2, <2>1, FS_Subset
<1>9. DOMAIN f = (A \cup B) \cup C /\ A \cap B = {} /\ (A \cup B) \cap C = {}
  BY <1>4
<1>10. /\ Cardinality(A) \in Nat /\ Cardinality(B) \in Nat /\ Cardinality(C) \in Nat
       /\ Cardinality((A \cup B) \cup C) = Cardinality(A) + Cardinality(B) + Cardinality(C)
  BY <1>6, <1>9, ThreeParts
<1>5. Cardinality(DOMAIN f) = Cardinality(A) + Cardinality(B) + Cardinality(C)
  BY <1>9, <1>10
<1>7. (Cardinality(B) = 0 <=> B = {}) /\ (Cardinality(C) = 0 <=> C = {})
  BY <1>6, NoneIsEmpty
<1>8. /\ Number(f, {"clean"}) = Cardinality(A) /\ Number(f, {"invalid", "throws"}) = Cardinality(B)
      /\ Number(f, {"other format"}) = Cardinality(C)
  BY <1>3 DEF Number
<1> QED
  BY <1>2, <1>4, <1>5, <1>7, <1>8, <1>10

(* A set in some order *)
LEMMA SetToSeqIs ==
  ASSUME NEW S, IsFiniteSet(S)
  PROVE  SetToSeq(S) \in Seq(S)
<1>1. Cardinality(S) \in Nat /\ ExistsBijection(1 .. Cardinality(S), S)
  BY FS_CardinalityType
<1>2. PICK f : f \in Bijection(1 .. Cardinality(S), S)
  BY <1>1 DEF ExistsBijection
<1>3. f \in [1 .. Cardinality(S) -> S] /\ IsInjective(f)
  BY <1>2 DEF Bijection, Injection, IsInjective
<1>4. SetToSeq(S) \in [1 .. Cardinality(S) -> S]
  BY <1>3 DEF SetToSeq
<1> QED
  BY <1>1, <1>4

-----------------------------------------------------------------------------
(* A call, by what it has found and kept, and by where it is. *)
Pcs == {"asked", "finding", "mixins", "wideners", "transformers", "judging", "probing", "reading",
        "reporting", "done"}
Late == {"probing", "reading", "reporting", "done"}
IsSummary(s) ==
    s \in [pc : Pcs, version : Nat, prefer : {"unset", "yes", "no"}, found : [Kinds -> Seq(Nat)],
           next : Nat \ {0}, lanes : [1 .. MixinLanes -> Nat], units : {s.units},
           files : [Kinds -> Seq(FileVerdicts)], seen : Seq(SeenVerdicts), status : {s.status},
           counts : {s.counts}, told : {s.told}, tasks : {s.tasks}]

FoundThere(s, p) ==
    /\ \A i \in DOMAIN s.found["mixins"] : s.found["mixins"][i] \in DOMAIN p.mixins
    /\ \A i \in DOMAIN s.found["wideners"] : s.found["wideners"][i] \in DOMAIN p.wideners
    /\ \A i \in DOMAIN s.found["transformers"] : s.found["transformers"][i] \in DOMAIN p.transformers

TakenUp(s) ==
    /\ UnitsRight(s.units) /\ DOMAIN s.units = 1 .. s.next - 1
    /\ s.next <= Len(s.found["mixins"]) + 1
    /\ \A l \in 1 .. MixinLanes : s.lanes[l] < s.next

KeptRight(s) == Balanced(s) /\ AllKept(s) /\ ThrowsSeen(s)

VersionsAgree(s, p, q, e) ==
    /\ q.version # 0 /\ q.prefer # "yes" =>
          /\ \A n \in DOMAIN s.seen : s.seen[n][3] = q.version
          /\ s.pc # "asked" => s.version = q.version /\ s.prefer = q.prefer
    /\ e = 0 =>
          /\ \A n \in DOMAIN s.seen : s.seen[n][3] = s.version
          /\ s.prefer = "yes" /\ p.version # 0 => s.version = p.version

Untouched(s) ==
    /\ s.units = <<>> /\ s.seen = <<>> /\ s.files["wideners"] = <<>> /\ s.files["transformers"] = <<>>
    /\ s.next = 1 /\ \A l \in 1 .. MixinLanes : s.lanes[l] = 0
    /\ s.counts = [valid |-> 0, partial |-> 0, invalid |-> 0, unprocessed |-> 0]
Complete(s) ==
    /\ s.next = Len(s.found["mixins"]) + 1
    /\ Len(s.files["wideners"]) = Len(s.found["wideners"])
    /\ Len(s.files["transformers"]) = Len(s.found["transformers"])

JudgedWell(s) ==
    /\ s.counts.valid + s.counts.invalid + s.counts.unprocessed = Len(s.seen)
    /\ s.counts.partial <= s.counts.valid
    /\ s.status = "ok" =>
          /\ s.told <=> Total(s.found) = 0
          /\ \A n \in DOMAIN s.seen : s.seen[n][2] \in {"clean", "unsure"}
    /\ IF s.version = 0 THEN s.seen = <<>> ELSE Complete(s)

Erred(s, k) ==
    /\ s.version # 0 /\ s.found[k] # <<>>
    /\ IF k = "mixins" THEN Unreadable(s.units) # {}
       ELSE \E i \in DOMAIN s.files[k] : s.files[k][i] = "throws"

PhaseRight(s) ==
    /\ s.pc \in {"asked", "finding"} => Untouched(s)
    /\ s.pc = "asked" => s.prefer = "unset"
    /\ s.pc \in {"mixins", "wideners", "transformers", "judging"} => s.version # 0
    /\ s.pc \in {"wideners", "transformers", "judging"} => s.next = Len(s.found["mixins"]) + 1
    /\ s.pc = "mixins" => s.files["wideners"] = <<>>
    /\ s.pc = "wideners" => Len(s.files["wideners"]) <= Len(s.found["wideners"])
    /\ s.pc \in {"mixins", "wideners"} => s.files["transformers"] = <<>>
    /\ s.pc = "transformers" =>
          /\ Len(s.files["wideners"]) = Len(s.found["wideners"])
          /\ Len(s.files["transformers"]) <= Len(s.found["transformers"])
    /\ s.pc = "judging" => Complete(s)
    /\ s.pc \in Late => s.status = "blocked" \/ JudgedWell(s)
    /\ s.pc = "done" => \A k \in Kinds : s.tasks[k] = "error" <=> Erred(s, k)

SummaryRight(s, p, q, e) ==
    /\ IsSummary(s) /\ FoundThere(s, p) /\ TakenUp(s) /\ KeptRight(s) /\ VersionsAgree(s, p, q, e)
    /\ PhaseRight(s)

ProjectInv ==
    /\ project \in WorkspaceState /\ question \in Question /\ edits \in Nat
    /\ SummaryRight(summary, project, question, edits)

(* It is all that the property needs. *)
LEMMA ProjectIsRight == ProjectInv => ProjectRight
<1> SUFFICES ASSUME ProjectInv PROVE ProjectRight
  OBVIOUS
<1>1. PICK s : s = summary
  OBVIOUS
<1>2. SummaryRight(s, project, question, edits)
  BY <1>1 DEF ProjectInv
<1>3. s.pc = "done" /\ s.status # "blocked" => JudgedWell(s)
  BY <1>2 DEF SummaryRight, PhaseRight, Late
<1>4. /\ s.seen \in Seq(SeenVerdicts) /\ s.found \in [Kinds -> Seq(Nat)]
      /\ s.files \in [Kinds -> Seq(FileVerdicts)]
  BY <1>2 DEF SummaryRight, IsSummary
<1>5. CountsRight
  BY <1>1, <1>3 DEF CountsRight, SummaryGiven, JudgedWell
<1>6. OkMeansChecked
  <2> SUFFICES ASSUME s.pc = "done", s.status = "ok"
               PROVE  /\ s.told <=> Total(s.found) = 0
                      /\ \A i \in DOMAIN s.seen : s.seen[i][2] \in {"clean", "unsure"}
                      /\ s.version # 0 =>
                            /\ DOMAIN s.units = DOMAIN s.found["mixins"]
                            /\ \A k \in {"wideners", "transformers"} : Len(s.files[k]) = Len(s.found[k])
    BY <1>1 DEF OkMeansChecked, SummaryGiven, Verdict
  <2>1. JudgedWell(s)
    BY <1>3
  <2>2. ASSUME s.version # 0
        PROVE  /\ DOMAIN s.units = DOMAIN s.found["mixins"]
               /\ \A k \in {"wideners", "transformers"} : Len(s.files[k]) = Len(s.found[k])
    <3>1. Complete(s)
      BY <2>1, <2>2 DEF JudgedWell
    <3>2. DOMAIN s.units = 1 .. s.next - 1 /\ s.next = Len(s.found["mixins"]) + 1
      BY <1>2, <3>1 DEF SummaryRight, TakenUp, Complete
    <3>3. s.found["mixins"] \in Seq(Nat)
      BY <1>4 DEF Kinds
    <3>4. DOMAIN s.found["mixins"] = 1 .. Len(s.found["mixins"]) /\ Len(s.found["mixins"]) \in Nat
      BY <3>3
    <3> QED
      BY <3>1, <3>2, <3>4 DEF Complete
  <2> QED
    BY <2>1, <2>2 DEF JudgedWell
<1>7. OneVersion
  <2>1. DOMAIN s.seen = 1 .. Len(s.seen) /\ Len(s.seen) \in Nat
    BY <1>4
  <2>2. \A i \in DOMAIN s.seen : 1 \in DOMAIN s.seen
    BY <2>1
  <2>3. VersionsAgree(s, project, question, edits)
    BY <1>2 DEF SummaryRight
  <2> QED
    BY <1>1, <2>2, <2>3 DEF OneVersion, VersionsAgree
<1>8. TasksTell
  <2> SUFFICES ASSUME s.pc = "done", s.status # "blocked", NEW k \in Kinds
               PROVE  s.tasks[k] = "error" <=>
                         HasThrown(s, IF k = "mixins" THEN "config" ELSE k)
    BY <1>1 DEF TasksTell, SummaryGiven, Verdict, HasThrown
  <2>1. s.tasks[k] = "error" <=> Erred(s, k)
    BY <1>2 DEF SummaryRight, PhaseRight
  <2>2. JudgedWell(s)
    BY <1>3
  <2>3. CASE s.version = 0
    BY <2>1, <2>2, <2>3 DEF JudgedWell, Erred, HasThrown
  <2>4. CASE s.version # 0
    <3>1. Complete(s) /\ TakenUp(s) /\ AllKept(s) /\ ThrowsSeen(s)
      BY <1>2, <2>2, <2>4 DEF JudgedWell, SummaryRight, KeptRight
    <3>2. CASE k = "mixins"
      <4>1. HasThrown(s, "config") => Unreadable(s.units) # {}
        BY <3>1 DEF HasThrown, AllKept, Retained, OtherKinds
      <4>2. Unreadable(s.units) # {} => HasThrown(s, "config")
        BY <3>1 DEF ThrowsSeen
      <4>3. Unreadable(s.units) # {} => s.found["mixins"] # <<>>
        BY <3>1 DEF Unreadable, TakenUp, Complete
      <4> QED
        BY <2>1, <2>4, <3>2, <4>1, <4>2, <4>3 DEF Erred
    <3>3. CASE k # "mixins"
      <4>1. k \in OtherKinds /\ k # "config" /\ k # "mixin"
        BY <3>3 DEF Kinds, OtherKinds
      <4>2. ASSUME HasThrown(s, k) PROVE \E i \in DOMAIN s.files[k] : s.files[k][i] = "throws"
        <5>1. PICK n \in DOMAIN s.seen : s.seen[n][1] = k /\ s.seen[n][2] = "throws"
          BY <4>2 DEF HasThrown
        <5>2. Retained(s, s.seen[n])
          BY <3>1, <5>1 DEF AllKept
        <5> QED
          BY <4>1, <5>1, <5>2 DEF Retained
      <4>3. (\E i \in DOMAIN s.files[k] : s.files[k][i] = "throws") => HasThrown(s, k)
        BY <3>1, <4>1 DEF ThrowsSeen
      <4>4. (\E i \in DOMAIN s.files[k] : s.files[k][i] = "throws") => s.found[k] # <<>>
        <5>1. s.files[k] \in Seq(FileVerdicts) /\ Len(s.files[k]) = Len(s.found[k])
          BY <1>4, <3>1, <4>1 DEF Complete, OtherKinds, Kinds
        <5> QED
          BY <5>1
      <4> QED
        BY <2>1, <2>4, <3>3, <4>2, <4>3, <4>4 DEF Erred
    <3> QED
      BY <3>2, <3>3
  <2> QED
    BY <2>3, <2>4
<1> QED
  BY <1>5, <1>6, <1>7, <1>8 DEF ProjectRight

-----------------------------------------------------------------------------
(* What is found and kept stays right where none of it changes. *)
SameKept(s, t) ==
    /\ t.units = s.units /\ t.seen = s.seen /\ t.files = s.files /\ t.found = s.found
    /\ t.next = s.next /\ t.version = s.version /\ t.prefer = s.prefer

(* A step that keeps what was found, taken and given keeps what is said of it. *)
LEMMA CoreSame ==
  ASSUME NEW s, NEW t, NEW p, NEW q, NEW e, SummaryRight(s, p, q, e), SameKept(s, t),
         s.pc # "asked", t.pc # "asked", \A l \in 1 .. MixinLanes : t.lanes[l] < t.next
  PROVE  FoundThere(t, p) /\ TakenUp(t) /\ KeptRight(t) /\ VersionsAgree(t, p, q, e)
<1>1. FoundThere(s, p) /\ TakenUp(s) /\ KeptRight(s) /\ VersionsAgree(s, p, q, e)
  BY DEF SummaryRight
<1>2. FoundThere(t, p)
  BY <1>1 DEF FoundThere, SameKept
<1>3. TakenUp(t)
  BY <1>1 DEF TakenUp, SameKept
<1>4. KeptRight(t)
  BY <1>1 DEF KeptRight, SameKept, Balanced, AllKept, Retained, ThrowsSeen, HasThrown
<1>5. VersionsAgree(t, p, q, e)
  BY <1>1 DEF VersionsAgree, SameKept
<1> QED
  BY <1>2, <1>3, <1>4, <1>5

(* A step of the call itself *)
LEMMA TurnKeeps ==
  ASSUME ProjectInv, NEW t, Turn(t), SummaryRight(t, project, question, edits)
  PROVE  ProjectInv'
BY DEF Turn, ProjectInv

(* A call that has taken nothing has given nothing. *)
LEMMA UntouchedKept ==
  ASSUME NEW s, Untouched(s)
  PROVE  KeptRight(s) /\ UnitsRight(s.units) /\ DOMAIN s.units = {}
<1>1. DOMAIN s.units = {}
  BY DEF Untouched
<1>2. Positions(s.units) = {} /\ Unreadable(s.units) = {}
  BY <1>1 DEF Positions, Unreadable
<1>3. IsFiniteSet({}) /\ Cardinality({}) = 0
  BY FS_EmptySet
<1>4. UnitsRight(s.units)
  BY <1>1, <1>2, <1>3 DEF UnitsRight
<1>5. Balanced(s)
  <2>1. Cardinality(Positions(s.units)) = 0 /\ Cardinality(Unreadable(s.units)) = 0
    BY <1>2, <1>3
  <2>2. Len(s.seen) = 0 /\ Len(s.files["wideners"]) = 0 /\ Len(s.files["transformers"]) = 0
    BY DEF Untouched
  <2> QED
    BY <2>1, <2>2 DEF Balanced
<1>6. AllKept(s) /\ ThrowsSeen(s)
  BY <1>2 DEF AllKept, ThrowsSeen, Untouched, OtherKinds
<1> QED
  BY <1>1, <1>4, <1>5, <1>6 DEF KeptRight

(* The version is taken from the request or from the workspace. *)
LEMMA InferKeeps ==
  ASSUME ProjectInv, Infer PROVE ProjectInv'
<1> DEFINE detects == question.prefer = "yes" \/ question.version = 0
           version == IF detects /\ project.version # 0 THEN project.version ELSE question.version
           prefer == IF question.version = 0 /\ version # 0 THEN "yes" ELSE question.prefer
<1>1. PICK s, t : /\ s = summary
                  /\ t = IF question.version = 0 /\ question.prefer = "no"
                         THEN [summary EXCEPT !.pc = "probing", !.status = "blocked"]
                         ELSE [summary EXCEPT !.pc = "finding", !.version = version, !.prefer = prefer]
  OBVIOUS
<1>2. s.pc = "asked" /\ Turn(t)
  BY <1>1 DEF Infer
<1>3. SummaryRight(s, project, question, edits) /\ project.version \in Nat /\ question.version \in Nat
      /\ question.prefer \in {"unset", "yes", "no"}
  BY <1>1 DEF ProjectInv, WorkspaceState, Question
<1>4. Untouched(s) /\ s.prefer = "unset"
  BY <1>2, <1>3 DEF SummaryRight, PhaseRight
<1>5. IsSummary(s) /\ FoundThere(s, project) /\ TakenUp(s) /\ VersionsAgree(s, project, question, edits)
  BY <1>3 DEF SummaryRight
<1>6. CASE question.version = 0 /\ question.prefer = "no"
  <2>1. t = [s EXCEPT !.pc = "probing", !.status = "blocked"]
    BY <1>1, <1>6
  <2>2. /\ t.pc = "probing" /\ t.status = "blocked" /\ SameKept(s, t) /\ t.lanes = s.lanes
        /\ IsSummary(t) /\ t.counts = s.counts
    BY <1>5, <2>1 DEF IsSummary, SameKept, Pcs
  <2>3. Untouched(t)
    BY <1>4, <2>2 DEF Untouched, SameKept
  <2>4. KeptRight(t) /\ UnitsRight(t.units)
    BY <2>3, UntouchedKept
  <2>5. FoundThere(t, project) /\ TakenUp(t)
    BY <1>5, <2>2 DEF FoundThere, TakenUp, SameKept
  <2>6. VersionsAgree(t, project, question, edits)
    BY <1>4, <1>6, <2>2, <2>3 DEF VersionsAgree, SameKept, Untouched
  <2>7. PhaseRight(t)
    BY <2>2 DEF PhaseRight, Late
  <2> QED
    BY <1>2, <2>2, <2>4, <2>5, <2>6, <2>7, TurnKeeps DEF SummaryRight
<1>7. CASE ~(question.version = 0 /\ question.prefer = "no")
  <2>1. PICK v, r : v = version /\ r = prefer
    OBVIOUS
  <2>2. t = [s EXCEPT !.pc = "finding", !.version = v, !.prefer = r]
    BY <1>1, <1>7, <2>1
  <2>3. v \in Nat /\ r \in {"unset", "yes", "no"}
    BY <1>3, <2>1
  <2>4. /\ t.pc = "finding" /\ t.version = v /\ t.prefer = r /\ t.units = s.units /\ t.seen = s.seen
        /\ t.files = s.files /\ t.found = s.found /\ t.next = s.next /\ t.lanes = s.lanes
        /\ t.counts = s.counts
    BY <1>5, <2>2 DEF IsSummary
  <2>5. IsSummary(t)
    BY <1>5, <2>2, <2>3 DEF IsSummary, Pcs
  <2>6. Untouched(t)
    BY <1>4, <2>4 DEF Untouched
  <2>7. KeptRight(t) /\ UnitsRight(t.units)
    BY <2>6, UntouchedKept
  <2>8. FoundThere(t, project) /\ TakenUp(t)
    BY <1>5, <2>4 DEF FoundThere, TakenUp
  <2>9. VersionsAgree(t, project, question, edits)
    BY <1>7, <2>1, <2>4, <2>6 DEF VersionsAgree, Untouched
  <2>10. PhaseRight(t)
    BY <2>4, <2>6 DEF PhaseRight, Late
  <2> QED
    BY <1>2, <2>5, <2>7, <2>8, <2>9, <2>10, TurnKeeps DEF SummaryRight
<1> QED
  BY <1>6, <1>7

(* What is discovered is in the workspace. *)
LEMMA FilesOfIs ==
  ASSUME project \in WorkspaceState, NEW k \in Kinds
  PROVE  FilesOf(k) \in Seq(Nat) /\ \A i \in DOMAIN FilesOf(k) : FilesOf(k)[i] \in DOMAIN project[k]
<1>1. DOMAIN project[k] = 1 .. Len(project[k]) /\ Len(project[k]) \in Nat
  <2>1. /\ project.mixins \in Seq(Config) /\ project.wideners \in Seq(FileVerdicts)
        /\ project.transformers \in Seq(FileVerdicts)
    BY DEF WorkspaceState
  <2>2. CASE k = "mixins"
    BY <2>1, <2>2
  <2>3. CASE k = "wideners"
    BY <2>1, <2>3
  <2>4. CASE k = "transformers"
    BY <2>1, <2>4
  <2> QED
    BY <2>2, <2>3, <2>4 DEF Kinds
<1>2. PICK S, D, f : /\ S = {i \in DOMAIN project[k] :
                                /\ k \in question.discover
                                /\ k = "mixins" => project.mixins[i].state # "gone"}
                     /\ D = DOMAIN project[k] /\ f = FilesOf(k)
  OBVIOUS
<1>3. S \subseteq D /\ D \subseteq Nat
  BY <1>1, <1>2
<1>4. IsFiniteSet(D)
  BY <1>1, <1>2, FS_Interval
<1>5. IsFiniteSet(S)
  BY <1>3, <1>4, FS_Subset
<1>6. f \in Seq(S)
  BY <1>2, <1>5, SetToSeqIs DEF FilesOf
<1>7. f \in Seq(Nat) /\ \A i \in DOMAIN f : f[i] \in D
  <2>1. Len(f) \in Nat /\ DOMAIN f = 1 .. Len(f) /\ \A i \in 1 .. Len(f) : f[i] \in S
    BY <1>6
  <2>2. f = [i \in 1 .. Len(f) |-> f[i]]
    BY <1>6
  <2>3. f \in [1 .. Len(f) -> Nat]
    BY <1>3, <2>1, <2>2
  <2> QED
    BY <1>3, <2>1, <2>3
<1> QED
  BY <1>2, <1>7

(* The files are discovered, or there is no version to validate them with. *)
LEMMA FindKeeps ==
  ASSUME ProjectInv, Find PROVE ProjectInv'
<1>1. PICK s, found : s = summary /\ found = [k \in Kinds |-> FilesOf(k)]
  OBVIOUS
<1>2. PICK t : t = IF s.version # 0 THEN [s EXCEPT !.pc = "mixins", !.found = found]
                   ELSE [s EXCEPT !.pc = "probing", !.found = found, !.told = Total(found) = 0,
                                  !.status = IF Total(found) = 0 THEN "ok" ELSE "blocked"]
  OBVIOUS
<1>3. s.pc = "finding" /\ Turn(t)
  BY <1>1, <1>2 DEF Find
<1>4. SummaryRight(s, project, question, edits) /\ project \in WorkspaceState
  BY <1>1 DEF ProjectInv
<1>5. Untouched(s) /\ IsSummary(s) /\ VersionsAgree(s, project, question, edits)
  BY <1>3, <1>4 DEF SummaryRight, PhaseRight
<1>6. found \in [Kinds -> Seq(Nat)]
  BY <1>1, <1>4, FilesOfIs
<1>7. \A k \in Kinds : \A i \in DOMAIN found[k] : found[k][i] \in DOMAIN project[k]
  BY <1>1, <1>4, FilesOfIs
<1>8. /\ IsSummary(t) /\ t.found = found
      /\ t.version = s.version /\ t.units = s.units /\ t.seen = s.seen /\ t.files = s.files
      /\ t.next = s.next /\ t.lanes = s.lanes /\ t.counts = s.counts /\ t.prefer = s.prefer
      /\ IF s.version # 0 THEN t.pc = "mixins"
         ELSE /\ t.pc = "probing" /\ (t.told <=> Total(found) = 0)
              /\ t.status = IF Total(found) = 0 THEN "ok" ELSE "blocked"
  <2>1. CASE s.version # 0
    <3>1. t = [s EXCEPT !.pc = "mixins", !.found = found]
      BY <1>2, <2>1
    <3> QED
      BY <1>5, <1>6, <2>1, <3>1 DEF IsSummary, Pcs
  <2>2. CASE s.version = 0
    <3>1. PICK told, status : told = (Total(found) = 0)
                              /\ status = IF Total(found) = 0 THEN "ok" ELSE "blocked"
      OBVIOUS
    <3>2. t = [s EXCEPT !.pc = "probing", !.found = found, !.told = told, !.status = status]
      BY <1>2, <2>2, <3>1
    <3>3. /\ IsSummary(t) /\ t.found = found
          /\ t.version = s.version /\ t.units = s.units /\ t.seen = s.seen /\ t.files = s.files
          /\ t.next = s.next /\ t.lanes = s.lanes /\ t.counts = s.counts /\ t.prefer = s.prefer
          /\ t.pc = "probing" /\ t.told = told /\ t.status = status
      BY <1>5, <1>6, <3>2 DEF IsSummary, Pcs
    <3> QED
      BY <2>2, <3>1, <3>3
  <2> QED
    BY <2>1, <2>2
<1>9. Untouched(t)
  BY <1>5, <1>8 DEF Untouched
<1>10. KeptRight(t) /\ UnitsRight(t.units) /\ DOMAIN t.units = {}
  BY <1>9, UntouchedKept
<1>11. FoundThere(t, project)
  BY <1>7, <1>8 DEF FoundThere, Kinds
<1>12. TakenUp(t)
  <2>1. found["mixins"] \in Seq(Nat)
    BY <1>6 DEF Kinds
  <2> QED
    BY <1>8, <1>9, <1>10, <2>1 DEF TakenUp, Untouched
<1>13. VersionsAgree(t, project, question, edits)
  BY <1>3, <1>5, <1>8 DEF VersionsAgree
<1>14. PhaseRight(t)
  <2>1. CASE s.version # 0
    BY <1>8, <1>9, <2>1 DEF PhaseRight, Late, Untouched
  <2>2. CASE s.version = 0 /\ Total(found) = 0
    <3>1. JudgedWell(t)
      BY <1>8, <1>9, <2>2 DEF JudgedWell, Untouched
    <3> QED
      BY <1>8, <2>2, <3>1 DEF PhaseRight
  <2>3. CASE s.version = 0 /\ Total(found) # 0
    BY <1>8, <2>3 DEF PhaseRight
  <2> QED
    BY <2>1, <2>2, <2>3
<1> QED
  BY <1>3, <1>8, <1>10, <1>11, <1>12, <1>13, <1>14, TurnKeeps DEF SummaryRight

-----------------------------------------------------------------------------
(* A verdict more *)
LEMMA SeenGrows ==
  ASSUME NEW s, IsSummary(s), NEW v \in SeenVerdicts, NEW seen, seen = Append(s.seen, v)
  PROVE  /\ seen \in Seq(SeenVerdicts) /\ Len(seen) = Len(s.seen) + 1 /\ Len(s.seen) \in Nat
         /\ DOMAIN seen = DOMAIN s.seen \cup {Len(s.seen) + 1} /\ seen[Len(s.seen) + 1] = v
         /\ \A n \in DOMAIN s.seen : seen[n] = s.seen[n]
<1>1. s.seen \in Seq(SeenVerdicts)
  BY DEF IsSummary
<1>2. PICK T : T = SeenVerdicts
  OBVIOUS
<1> QED
  BY <1>1, <1>2, AppendIs

(* A verdict about the version of the call leaves all of them about one. *)
LEMMA SeenVersionsGrow ==
  ASSUME NEW s, NEW t, NEW p, NEW q, NEW e, VersionsAgree(s, p, q, e), NEW v,
         s.pc # "asked", t.version = s.version, t.prefer = s.prefer,
         DOMAIN t.seen = DOMAIN s.seen \cup {Len(s.seen) + 1}, t.seen[Len(s.seen) + 1] = v,
         \A n \in DOMAIN s.seen : t.seen[n] = s.seen[n],
         q.version # 0 /\ q.prefer # "yes" => v[3] = q.version, e = 0 => v[3] = s.version
  PROVE  VersionsAgree(t, p, q, e)
BY DEF VersionsAgree

(* What was kept is kept where more is. *)
LEMMA KeptGrows ==
  ASSUME NEW s, NEW t, KeptRight(s), NEW v, Retained(t, v),
         DOMAIN t.seen = DOMAIN s.seen \cup {Len(s.seen) + 1}, t.seen[Len(s.seen) + 1] = v,
         \A n \in DOMAIN s.seen : t.seen[n] = s.seen[n],
         \A w : Retained(s, w) => Retained(t, w)
  PROVE  AllKept(t) /\ \A k : HasThrown(s, k) => HasThrown(t, k)
<1>1. AllKept(s)
  BY DEF KeptRight
<1> QED
  BY <1>1 DEF AllKept, HasThrown

(* A config that was found can be taken. *)
LEMMA ConfigIs ==
  ASSUME ProjectInv, NEW at \in Nat \ {0}, at <= Len(summary.found["mixins"]),
         NEW config, config = project.mixins[summary.found["mixins"][at]]
  PROVE  /\ config.state \in {"whole", "broken", "gone"} /\ config.entries \in Seq(MixinVerdicts)
<1>1. PICK found, mixins : found = summary.found["mixins"] /\ mixins = project.mixins
  OBVIOUS
<1>2. found \in Seq(Nat) /\ mixins \in Seq(Config)
  BY <1>1 DEF ProjectInv, SummaryRight, IsSummary, Kinds, WorkspaceState
<1>3. at \in DOMAIN found
  BY <1>1, <1>2
<1>4. found[at] \in DOMAIN mixins
  BY <1>1, <1>3 DEF ProjectInv, SummaryRight, FoundThere
<1>5. mixins[found[at]] \in Config
  BY <1>2, <1>4
<1> QED
  BY <1>1, <1>5 DEF Config

(* A lane takes the next config, which may not be readable. *)
LEMMA TakeKeeps ==
  ASSUME ProjectInv, NEW l \in 1 .. MixinLanes, Take(l) PROVE ProjectInv'
<1>1. PICK s, at : s = summary /\ at = s.next
  OBVIOUS
<1>2. PICK config : config = project.mixins[s.found["mixins"][at]]
  OBVIOUS
<1>3. PICK reads, u : /\ reads = (config.state = "whole")
                      /\ u = [threw |-> ~reads, verdicts |-> <<>>, left |-> IF reads THEN config.entries ELSE <<>>]
  OBVIOUS
<1>4. PICK units, seen :
         /\ units = [i \in DOMAIN s.units \cup {at} |-> IF i # at THEN s.units[i] ELSE u]
         /\ seen = IF reads THEN s.seen ELSE Append(s.seen, <<"config", "throws", s.version>>)
  OBVIOUS
<1>5. PICK t : t = [s EXCEPT !.next = at + 1, !.lanes[l] = at, !.units = units, !.seen = seen]
  OBVIOUS
<1>6. s.pc = "mixins" /\ s.lanes[l] = 0 /\ at <= Len(s.found["mixins"])
  BY <1>1 DEF Take
<1>7. Turn(t)
  BY <1>1, <1>2, <1>3, <1>4, <1>5 DEF Take
<1>8. SummaryRight(s, project, question, edits)
  BY <1>1 DEF ProjectInv
<1>9. IsSummary(s) /\ TakenUp(s) /\ KeptRight(s) /\ PhaseRight(s) /\ VersionsAgree(s, project, question, edits)
  BY <1>8 DEF SummaryRight
<1>10. at \in Nat \ {0} /\ s.version \in Nat /\ s.lanes \in [1 .. MixinLanes -> Nat]
  BY <1>1, <1>9 DEF IsSummary
<1>11. reads \in BOOLEAN /\ config.entries \in Seq(MixinVerdicts)
  BY <1>1, <1>2, <1>3, <1>6, <1>10, ConfigIs
<1>12. IsUnit(u) /\ u.verdicts = <<>> /\ u.threw = ~reads
  BY <1>3, <1>11 DEF IsUnit
<1>13. at \notin DOMAIN s.units /\ UnitsRight(s.units)
  BY <1>1, <1>9, <1>10 DEF TakenUp
<1>14. /\ UnitsRight(units) /\ Positions(units) = Positions(s.units)
       /\ \A p \in Positions(s.units) : SaidAt(units, p) = SaidAt(s.units, p)
       /\ Unreadable(units) = Unreadable(s.units) \cup (IF u.threw THEN {at} ELSE {})
       /\ at \notin Unreadable(s.units) /\ IsFiniteSet(Unreadable(s.units))
  <2>1. units = [i \in DOMAIN s.units \cup {at} |-> IF i # at THEN s.units[i] ELSE u]
    BY <1>4
  <2>2. PICK old : old = s.units
    OBVIOUS
  <2>3. units = [i \in DOMAIN old \cup {at} |-> IF i # at THEN old[i] ELSE u]
    BY <2>1, <2>2
  <2>4. UnitsRight(old) /\ at \notin DOMAIN old
    BY <1>13, <2>2
  <2>5. /\ UnitsRight(units) /\ Positions(units) = Positions(old)
        /\ \A p \in Positions(old) : SaidAt(units, p) = SaidAt(old, p)
        /\ Unreadable(units) = Unreadable(old) \cup (IF u.threw THEN {at} ELSE {})
        /\ at \notin Unreadable(old) /\ IsFiniteSet(Unreadable(old))
    BY <1>12, <2>3, <2>4, TakenUnit
  <2> QED
    BY <2>2, <2>5
<1>15. PICK v : v = <<"config", "throws", s.version>>
  OBVIOUS
<1>16. v \in SeenVerdicts /\ v[1] = "config" /\ v[2] = "throws" /\ v[3] = s.version
  BY <1>10, <1>15 DEF SeenVerdicts, MixinVerdicts
<1>17. seen = IF reads THEN s.seen ELSE Append(s.seen, v)
  BY <1>4, <1>15
<1>18. seen \in Seq(SeenVerdicts)
  BY <1>9, <1>16, <1>17, SeenGrows DEF IsSummary
<1>19. PICK lanes : lanes = [s.lanes EXCEPT ![l] = at]
  OBVIOUS
<1>20. t = [s EXCEPT !.next = at + 1, !.lanes = lanes, !.units = units, !.seen = seen]
  BY <1>5, <1>9, <1>19 DEF IsSummary
<1>21. lanes \in [1 .. MixinLanes -> Nat] /\ \A m \in 1 .. MixinLanes : lanes[m] = s.lanes[m] \/ lanes[m] = at
  BY <1>10, <1>19
<1>22. /\ t.next = at + 1 /\ t.lanes = lanes /\ t.units = units /\ t.seen = seen /\ t.pc = s.pc
       /\ t.version = s.version /\ t.prefer = s.prefer /\ t.found = s.found /\ t.files = s.files
       /\ IsSummary(t)
  <2>1. at + 1 \in Nat \ {0}
    BY <1>10
  <2>2. IsSummary(t)
    BY <1>9, <1>18, <1>20, <1>21, <2>1 DEF IsSummary
  <2>3. /\ t.next = at + 1 /\ t.lanes = lanes /\ t.units = units /\ t.seen = seen /\ t.pc = s.pc
        /\ t.version = s.version /\ t.prefer = s.prefer /\ t.found = s.found /\ t.files = s.files
    BY <1>9, <1>20 DEF IsSummary
  <2> QED
    BY <2>2, <2>3
<1>23. FoundThere(t, project)
  BY <1>8, <1>22 DEF SummaryRight, FoundThere
<1>24. TakenUp(t)
  <2>1. DOMAIN units = 1 .. at
    BY <1>1, <1>4, <1>9, <1>10 DEF TakenUp
  <2>2. s.found["mixins"] \in Seq(Nat)
    BY <1>9 DEF IsSummary, Kinds
  <2>3. \A m \in 1 .. MixinLanes : lanes[m] < at + 1
    BY <1>1, <1>9, <1>10, <1>21 DEF TakenUp
  <2>4. Len(s.found["mixins"]) \in Nat
    BY <2>2
  <2>5. at + 1 <= Len(s.found["mixins"]) + 1 /\ (at + 1) - 1 = at
    BY <1>6, <1>10, <2>4
  <2> QED
    BY <1>14, <1>22, <2>1, <2>3, <2>5 DEF TakenUp
<1>25. \A w : Retained(s, w) => Retained(t, w)
  BY <1>14, <1>22 DEF Retained
<1>26. /\ Cardinality(Unreadable(s.units)) \in Nat /\ Cardinality(Positions(s.units)) \in Nat
       /\ Len(s.files["wideners"]) \in Nat /\ Len(s.files["transformers"]) \in Nat
  BY <1>9, <1>13, <1>14, FS_CardinalityType DEF UnitsRight, IsSummary, Kinds
<1>27. KeptRight(t) /\ VersionsAgree(t, project, question, edits)
  <2>1. CASE reads
    <3>1. Unreadable(units) = Unreadable(s.units) /\ seen = s.seen
      BY <1>12, <1>14, <1>17, <2>1
    <3>2. Balanced(t)
      BY <1>9, <1>14, <1>22, <3>1 DEF Balanced, KeptRight
    <3>3. AllKept(t) /\ ThrowsSeen(t)
      BY <1>9, <1>22, <1>25, <3>1 DEF AllKept, KeptRight, ThrowsSeen, HasThrown
    <3>4. VersionsAgree(t, project, question, edits)
      BY <1>6, <1>9, <1>22, <3>1 DEF VersionsAgree
    <3> QED
      BY <3>2, <3>3, <3>4 DEF KeptRight
  <2>2. CASE ~reads
    <3>1. Unreadable(units) = Unreadable(s.units) \cup {at} /\ seen = Append(s.seen, v)
      BY <1>12, <1>14, <1>17, <2>2
    <3>2. /\ Len(seen) = Len(s.seen) + 1 /\ Len(s.seen) \in Nat
          /\ DOMAIN seen = DOMAIN s.seen \cup {Len(s.seen) + 1} /\ seen[Len(s.seen) + 1] = v
          /\ \A n \in DOMAIN s.seen : seen[n] = s.seen[n]
      BY <1>9, <1>16, <3>1, SeenGrows
    <3>3. Cardinality(Unreadable(units)) = Cardinality(Unreadable(s.units)) + 1
      BY <1>14, <3>1, FS_AddElement
    <3>4. Balanced(t)
      <4>1. PICK a, b, c, d, n \in Nat :
               /\ a = Cardinality(Positions(s.units)) /\ b = Cardinality(Unreadable(s.units))
               /\ c = Len(s.files["wideners"]) /\ d = Len(s.files["transformers"]) /\ n = Len(s.seen)
        BY <1>26, <3>2
      <4>2. n = a + b + c + d
        BY <1>9, <4>1 DEF KeptRight, Balanced
      <4>3. n + 1 = a + (b + 1) + c + d
        BY <4>2
      <4> QED
        BY <1>14, <1>22, <3>2, <3>3, <4>1, <4>3 DEF Balanced
    <3>5. Retained(t, v)
      BY <1>16, <1>22, <3>1 DEF Retained
    <3>6. AllKept(t) /\ \A k : HasThrown(s, k) => HasThrown(t, k)
      <4>1. /\ DOMAIN t.seen = DOMAIN s.seen \cup {Len(s.seen) + 1} /\ t.seen[Len(s.seen) + 1] = v
            /\ \A n \in DOMAIN s.seen : t.seen[n] = s.seen[n]
        BY <1>22, <3>2
      <4>2. KeptRight(s)
        BY <1>9
      <4> QED
        BY <1>25, <3>5, <4>1, <4>2, KeptGrows
    <3>7. HasThrown(t, "config")
      BY <1>16, <1>22, <3>2 DEF HasThrown
    <3>8. ThrowsSeen(t)
      BY <1>9, <1>22, <3>6, <3>7 DEF ThrowsSeen, KeptRight
    <3>9. question.version # 0 /\ question.prefer # "yes" => v[3] = question.version
      BY <1>6, <1>9, <1>16 DEF VersionsAgree
    <3>10. VersionsAgree(t, project, question, edits)
      BY <1>6, <1>9, <1>16, <1>22, <3>2, <3>9, SeenVersionsGrow
    <3> QED
      BY <3>4, <3>6, <3>8, <3>10 DEF KeptRight
  <2> QED
    BY <1>11, <2>1, <2>2
<1>28. PhaseRight(t)
  BY <1>6, <1>9, <1>22 DEF PhaseRight, Late
<1> QED
  BY <1>7, <1>22, <1>23, <1>24, <1>27, <1>28, TurnKeeps DEF SummaryRight

(* An entry of a config that is left has a verdict to be given. *)
LEMMA EntryIs ==
  ASSUME ProjectInv, NEW at \in DOMAIN summary.units, summary.units[at].left # <<>>
  PROVE  Head(summary.units[at].left) \in MixinVerdicts
<1>1. PICK left : left = summary.units[at].left
  OBVIOUS
<1>2. left \in Seq(MixinVerdicts) /\ left # <<>>
  BY <1>1 DEF ProjectInv, SummaryRight, TakenUp, UnitsRight, IsUnit
<1>3. PICK T : T = MixinVerdicts
  OBVIOUS
<1>4. left \in Seq(T) => Head(left) \in T
  BY <1>2
<1> QED
  BY <1>1, <1>2, <1>3, <1>4

(* A lane validates the next entry of its config. *)
LEMMA ValidateKeeps ==
  ASSUME ProjectInv, NEW l \in 1 .. MixinLanes, Validate(l) PROVE ProjectInv'
<1>1. PICK s, at : s = summary /\ at = s.lanes[l]
  OBVIOUS
<1>2. s.pc = "mixins" /\ at # 0 /\ s.units[at].left # <<>>
  BY <1>1 DEF Validate
<1>3. SummaryRight(s, project, question, edits)
  BY <1>1 DEF ProjectInv
<1>4. IsSummary(s) /\ TakenUp(s) /\ KeptRight(s) /\ PhaseRight(s) /\ VersionsAgree(s, project, question, edits)
  BY <1>3 DEF SummaryRight
<1>5. at \in DOMAIN s.units
  <2>1. at \in Nat /\ s.next \in Nat /\ at < s.next /\ DOMAIN s.units = 1 .. s.next - 1
    BY <1>1, <1>4 DEF IsSummary, TakenUp
  <2> QED
    BY <1>2, <2>1
<1>6. PICK verdict :
         /\ verdict \in {Head(s.units[at].left)}
                        \cup IF project.mixins[s.found["mixins"][at]].state = "gone"
                             THEN {"throws"} ELSE {}
         /\ Turn([s EXCEPT
                     !.units[at].verdicts = Append(@, verdict), !.units[at].left = Tail(@),
                     !.seen = Append(@, <<"mixin", verdict, s.version>>)])
  BY <1>1 DEF Validate
<1>7. verdict \in MixinVerdicts
  <2>1. Head(s.units[at].left) \in MixinVerdicts
    BY <1>1, <1>2, <1>5, EntryIs
  <2> QED
    BY <1>6, <2>1 DEF MixinVerdicts
<1>27. PICK v : v = <<"mixin", verdict, s.version>>
  OBVIOUS
<1>28. PICK seen : seen = Append(s.seen, v)
  OBVIOUS
<1>14. v \in SeenVerdicts /\ v[1] = "mixin" /\ v[2] = verdict /\ v[3] = s.version
  BY <1>4, <1>7, <1>27 DEF SeenVerdicts, IsSummary
<1>15. /\ seen \in Seq(SeenVerdicts) /\ Len(seen) = Len(s.seen) + 1 /\ Len(s.seen) \in Nat
       /\ DOMAIN seen = DOMAIN s.seen \cup {Len(s.seen) + 1} /\ seen[Len(s.seen) + 1] = v
       /\ \A n \in DOMAIN s.seen : seen[n] = s.seen[n]
  <2>1. IsSummary(s)
    BY <1>4
  <2>2. v \in SeenVerdicts
    BY <1>14
  <2>3. seen = Append(s.seen, v)
    BY <1>28
  <2>4. seen \in Seq(SeenVerdicts) /\ Len(seen) = Len(s.seen) + 1 /\ Len(s.seen) \in Nat
    BY <2>1, <2>2, <2>3, SeenGrows
  <2>5. DOMAIN seen = DOMAIN s.seen \cup {Len(s.seen) + 1} /\ seen[Len(s.seen) + 1] = v
    BY <2>1, <2>2, <2>3, SeenGrows
  <2>6. \A n \in DOMAIN s.seen : seen[n] = s.seen[n]
    BY <2>1, <2>2, <2>3, SeenGrows
  <2> QED
    BY <2>4, <2>5, <2>6
<1>29. PICK w : w = [threw |-> s.units[at].threw, verdicts |-> Append(s.units[at].verdicts, verdict),
                    left |-> Tail(s.units[at].left)]
  OBVIOUS
<1>30. IsUnit(s.units[at])
  BY <1>4, <1>5 DEF TakenUp, UnitsRight
<1>31. IsUnit(w) /\ w.verdicts = Append(s.units[at].verdicts, verdict) /\ w.threw = s.units[at].threw
  <2>1. PICK said, left, T : said = s.units[at].verdicts /\ left = s.units[at].left /\ T = MixinVerdicts
    OBVIOUS
  <2>2. said \in Seq(T) /\ left \in Seq(T) /\ left # <<>> /\ verdict \in T
    BY <1>2, <1>7, <1>30, <2>1 DEF IsUnit
  <2>3. Append(said, verdict) \in Seq(T) /\ Tail(left) \in Seq(T)
    BY <2>2
  <2> QED
    BY <1>29, <1>30, <2>1, <2>3 DEF IsUnit
<1>8. PICK units : units = [s.units EXCEPT ![at] = w]
  OBVIOUS
<1>9. PICK t : t = [s EXCEPT !.units = units, !.seen = seen]
  OBVIOUS
<1>10. Turn(t)
  <2>1. [s EXCEPT !.units[at].verdicts = Append(@, verdict), !.units[at].left = Tail(@),
                  !.seen = Append(@, <<"mixin", verdict, s.version>>)] = t
    <3>1. PICK u, said, left : /\ u = s.units[at] /\ said = Append(s.units[at].verdicts, verdict)
                               /\ left = Tail(s.units[at].left)
      OBVIOUS
    <3>4. u \in [threw : BOOLEAN, verdicts : Seq(MixinVerdicts), left : Seq(MixinVerdicts)]
      BY <1>30, <3>1 DEF IsUnit
    <3>5. [[u EXCEPT !.verdicts = said] EXCEPT !.left = left]
             = [threw |-> u.threw, verdicts |-> said, left |-> left]
      <4>1. PICK T : T = Seq(MixinVerdicts)
        OBVIOUS
      <4>2. u \in [threw : BOOLEAN, verdicts : T, left : T]
        BY <3>4, <4>1
      <4>3. PICK x : x = [u EXCEPT !.verdicts = said]
        OBVIOUS
      <4>4. x = [threw |-> u.threw, verdicts |-> said, left |-> u.left]
        BY <4>2, <4>3
      <4>5. [x EXCEPT !.left = left] = [threw |-> u.threw, verdicts |-> said, left |-> left]
        BY <4>4
      <4> QED
        BY <4>3, <4>5
    <3>2. [[s.units[at] EXCEPT !.verdicts = Append(s.units[at].verdicts, verdict)]
              EXCEPT !.left = Tail(s.units[at].left)] = w
      BY <1>29, <3>1, <3>5
    <3>3. [s.units EXCEPT ![at].verdicts = Append(s.units[at].verdicts, verdict),
                          ![at].left = Tail(s.units[at].left)] = units
      BY <1>5, <1>8, <3>2
    <3> QED
      BY <1>4, <1>5, <1>9, <1>27, <1>28, <3>3 DEF IsSummary
  <2> QED
    BY <1>6, <2>1
<1>11. UnitsRight(s.units)
  BY <1>4 DEF TakenUp
<1>12. PICK p : p = <<at, Len(s.units[at].verdicts) + 1>>
  OBVIOUS
<1>13. /\ UnitsRight(units) /\ DOMAIN units = DOMAIN s.units /\ Unreadable(units) = Unreadable(s.units)
       /\ Positions(units) = Positions(s.units) \cup {p} /\ p \notin Positions(s.units)
       /\ SaidAt(units, p) = verdict
       /\ \A q \in Positions(s.units) : SaidAt(units, q) = SaidAt(s.units, q)
  <2>1. PICK old : old = s.units
    OBVIOUS
  <2>2. UnitsRight(old) /\ at \in DOMAIN old /\ old[at].left # <<>>
    BY <1>2, <1>5, <1>11, <2>1
  <2>4. DOMAIN units = DOMAIN old /\ units[at] = w /\ \A i \in DOMAIN old : i # at => units[i] = old[i]
    BY <1>5, <1>8, <2>1
  <2>9. IsUnit(w) /\ w.verdicts = Append(old[at].verdicts, verdict) /\ w.threw = old[at].threw
    BY <1>31, <2>1
  <2>5. p = <<at, Len(old[at].verdicts) + 1>>
    BY <1>12, <2>1
  <2>3. UnitsRight(units) /\ DOMAIN units = DOMAIN old /\ Unreadable(units) = Unreadable(old)
    BY <1>7, <2>2, <2>4, <2>5, <2>9, ValidatedUnit
  <2>6. Positions(units) = Positions(old) \cup {p} /\ p \notin Positions(old)
    BY <1>7, <2>2, <2>4, <2>5, <2>9, ValidatedUnit
  <2>7. SaidAt(units, p) = verdict
    <3>1. PICK said, T : said = old[at].verdicts /\ T = MixinVerdicts
      OBVIOUS
    <3>2. said \in Seq(T) /\ verdict \in T
      BY <1>7, <1>30, <2>1, <3>1 DEF IsUnit
    <3>3. Append(said, verdict)[Len(said) + 1] = verdict
      BY <3>2
    <3> QED
      BY <2>4, <2>5, <2>9, <3>1, <3>3 DEF SaidAt
  <2>8. \A q \in Positions(old) : SaidAt(units, q) = SaidAt(old, q)
    BY <1>7, <2>2, <2>4, <2>5, <2>9, ValidatedUnit
  <2> QED
    BY <2>1, <2>3, <2>6, <2>7, <2>8
<1>16. /\ t.units = units /\ t.seen = seen /\ t.pc = s.pc /\ t.next = s.next /\ t.lanes = s.lanes
       /\ t.version = s.version /\ t.prefer = s.prefer /\ t.found = s.found /\ t.files = s.files
       /\ IsSummary(t)
  BY <1>4, <1>9, <1>15 DEF IsSummary
<1>17. FoundThere(t, project)
  BY <1>3, <1>16 DEF SummaryRight, FoundThere
<1>18. TakenUp(t)
  BY <1>4, <1>13, <1>16 DEF TakenUp
<1>19. Balanced(t)
  <2>1. IsFiniteSet(Positions(s.units)) /\ IsFiniteSet(DOMAIN s.units)
    BY <1>11 DEF UnitsRight
  <2>2. Unreadable(s.units) \subseteq DOMAIN s.units
    BY DEF Unreadable
  <2>3. IsFiniteSet(Unreadable(s.units))
    BY <2>1, <2>2, FS_Subset
  <2>4. /\ Cardinality(Unreadable(s.units)) \in Nat /\ Cardinality(Positions(s.units)) \in Nat
        /\ Len(s.files["wideners"]) \in Nat /\ Len(s.files["transformers"]) \in Nat
    BY <1>4, <2>1, <2>3, FS_CardinalityType DEF IsSummary, Kinds
  <2>5. Cardinality(Positions(units)) = Cardinality(Positions(s.units)) + 1
    BY <1>13, <2>1, FS_AddElement
  <2>6. PICK a, b, c, d, n \in Nat :
           /\ a = Cardinality(Positions(s.units)) /\ b = Cardinality(Unreadable(s.units))
           /\ c = Len(s.files["wideners"]) /\ d = Len(s.files["transformers"]) /\ n = Len(s.seen)
    BY <2>4, <1>15
  <2>7. n = a + b + c + d
    BY <1>4, <2>6 DEF KeptRight, Balanced
  <2>8. n + 1 = (a + 1) + b + c + d
    BY <2>7
  <2> QED
    BY <1>13, <1>15, <1>16, <2>5, <2>6, <2>8 DEF Balanced
<1>20. \A x : Retained(s, x) => Retained(t, x)
  BY <1>13, <1>16 DEF Retained
<1>21. Retained(t, v)
  BY <1>13, <1>14, <1>16 DEF Retained
<1>22. AllKept(t) /\ \A k : HasThrown(s, k) => HasThrown(t, k)
  <2>1. /\ DOMAIN t.seen = DOMAIN s.seen \cup {Len(s.seen) + 1} /\ t.seen[Len(s.seen) + 1] = v
        /\ \A n \in DOMAIN s.seen : t.seen[n] = s.seen[n]
    BY <1>15, <1>16
  <2>2. KeptRight(s)
    BY <1>4
  <2> QED
    BY <1>20, <1>21, <2>1, <2>2, KeptGrows
<1>23. ThrowsSeen(t)
  BY <1>4, <1>13, <1>16, <1>22 DEF ThrowsSeen, KeptRight
<1>24. VersionsAgree(t, project, question, edits)
  <2>1. question.version # 0 /\ question.prefer # "yes" => v[3] = question.version
    BY <1>2, <1>4, <1>14 DEF VersionsAgree
  <2> QED
    BY <1>2, <1>4, <1>14, <1>15, <1>16, <2>1, SeenVersionsGrow
<1>25. PhaseRight(t)
  BY <1>2, <1>4, <1>16 DEF PhaseRight, Late
<1> QED
  BY <1>10, <1>16, <1>17, <1>18, <1>19, <1>22, <1>23, <1>24, <1>25, TurnKeeps DEF SummaryRight, KeptRight

(* A lane is done with its config. *)
LEMMA SettleKeeps ==
  ASSUME ProjectInv, NEW l \in 1 .. MixinLanes, Settle(l) PROVE ProjectInv'
<1>1. PICK s, lanes : s = summary /\ lanes = [s.lanes EXCEPT ![l] = 0]
  OBVIOUS
<1>2. PICK t : t = [s EXCEPT !.lanes = lanes]
  OBVIOUS
<1>3. s.pc = "mixins" /\ SummaryRight(s, project, question, edits)
  BY <1>1 DEF Settle, ProjectInv
<1>4. IsSummary(s) /\ TakenUp(s) /\ PhaseRight(s)
  BY <1>3 DEF SummaryRight
<1>5. s.lanes \in [1 .. MixinLanes -> Nat] /\ s.next \in Nat \ {0}
  BY <1>4 DEF IsSummary
<1>6. Turn(t)
  <2>1. [s EXCEPT !.lanes[l] = 0] = t
    BY <1>1, <1>2, <1>4 DEF IsSummary
  <2> QED
    BY <1>1, <2>1 DEF Settle
<1>7. lanes \in [1 .. MixinLanes -> Nat] /\ \A m \in 1 .. MixinLanes : lanes[m] < s.next
  BY <1>1, <1>4, <1>5 DEF TakenUp
<1>8. /\ t.pc = "mixins" /\ t.lanes = lanes /\ SameKept(s, t) /\ IsSummary(t)
  BY <1>2, <1>3, <1>4, <1>7 DEF IsSummary, SameKept
<1>9. \A m \in 1 .. MixinLanes : t.lanes[m] < t.next
  BY <1>7, <1>8 DEF SameKept
<1>10. FoundThere(t, project) /\ TakenUp(t) /\ KeptRight(t) /\ VersionsAgree(t, project, question, edits)
  BY <1>3, <1>8, <1>9, CoreSame
<1>11. PhaseRight(t)
  BY <1>3, <1>4, <1>8 DEF PhaseRight, Late, SameKept
<1> QED
  BY <1>6, <1>8, <1>10, <1>11, TurnKeeps DEF SummaryRight

(* All lanes are done, and the files are next. *)
LEMMA GatherKeeps ==
  ASSUME ProjectInv, Gather PROVE ProjectInv'
<1>1. PICK s : s = summary
  OBVIOUS
<1>2. PICK t : t = [s EXCEPT !.pc = "wideners"]
  OBVIOUS
<1>3. s.pc = "mixins" /\ s.next > Len(s.found["mixins"]) /\ Turn(t)
  BY <1>1, <1>2 DEF Gather
<1>4. SummaryRight(s, project, question, edits)
  BY <1>1 DEF ProjectInv
<1>5. IsSummary(s) /\ TakenUp(s) /\ PhaseRight(s)
  BY <1>4 DEF SummaryRight
<1>6. /\ t.pc = "wideners" /\ t.lanes = s.lanes /\ SameKept(s, t) /\ IsSummary(t)
  BY <1>2, <1>5 DEF IsSummary, SameKept, Pcs
<1>7. \A m \in 1 .. MixinLanes : t.lanes[m] < t.next
  BY <1>5, <1>6 DEF SameKept, TakenUp
<1>8. FoundThere(t, project) /\ TakenUp(t) /\ KeptRight(t) /\ VersionsAgree(t, project, question, edits)
  BY <1>3, <1>4, <1>6, <1>7, CoreSame
<1>9. PhaseRight(t)
  <2>1. Len(s.found["mixins"]) \in Nat /\ s.next \in Nat /\ Len(s.found["wideners"]) \in Nat
    BY <1>5 DEF IsSummary, Kinds
  <2>2. s.next = Len(s.found["mixins"]) + 1
    BY <1>3, <1>5, <2>1 DEF TakenUp
  <2>3. s.version # 0 /\ s.files["wideners"] = <<>> /\ s.files["transformers"] = <<>>
    BY <1>3, <1>5 DEF PhaseRight
  <2>4. Len(s.files["wideners"]) <= Len(s.found["wideners"])
    BY <2>1, <2>3
  <2> QED
    BY <1>6, <2>2, <2>3, <2>4 DEF PhaseRight, Late, SameKept
<1> QED
  BY <1>3, <1>6, <1>8, <1>9, TurnKeeps DEF SummaryRight

-----------------------------------------------------------------------------
(* The version that is detected anew is that of the call, unless the workspace was edited. *)
LEMMA VersionNowIs ==
  ASSUME ProjectInv, summary.pc # "asked"
  PROVE  /\ VersionNow \in Nat
         /\ question.version # 0 /\ question.prefer # "yes" => VersionNow = question.version
         /\ edits = 0 => VersionNow = summary.version
<1>1. PICK s : s = summary
  OBVIOUS
<1>2. IsSummary(s) /\ VersionsAgree(s, project, question, edits) /\ project.version \in Nat
  BY <1>1 DEF ProjectInv, SummaryRight, WorkspaceState
<1>3. s.version \in Nat
  BY <1>2 DEF IsSummary
<1> QED
  BY <1>1, <1>2, <1>3 DEF VersionNow, VersionsAgree

(* A file that was found can be checked. *)
LEMMA FileIs ==
  ASSUME ProjectInv, NEW kind \in OtherKinds, NEW at \in Nat \ {0}, at <= Len(summary.found[kind])
  PROVE  project[kind][summary.found[kind][at]] \in FileVerdicts
<1>1. PICK found, files : found = summary.found[kind] /\ files = project[kind]
  OBVIOUS
<1>2. found \in Seq(Nat)
  BY <1>1 DEF ProjectInv, SummaryRight, IsSummary, Kinds, OtherKinds
<1>3. files \in Seq(FileVerdicts)
  <2>1. project.wideners \in Seq(FileVerdicts) /\ project.transformers \in Seq(FileVerdicts)
    BY DEF ProjectInv, WorkspaceState
  <2>2. CASE kind = "wideners"
    BY <1>1, <2>1, <2>2
  <2>3. CASE kind = "transformers"
    BY <1>1, <2>1, <2>3
  <2> QED
    BY <2>2, <2>3 DEF OtherKinds
<1>4. at \in DOMAIN found
  BY <1>1, <1>2
<1>5. found[at] \in DOMAIN files
  <2>1. FoundThere(summary, project)
    BY DEF ProjectInv, SummaryRight
  <2>2. CASE kind = "wideners"
    BY <1>1, <1>4, <2>1, <2>2 DEF FoundThere
  <2>3. CASE kind = "transformers"
    BY <1>1, <1>4, <2>1, <2>3 DEF FoundThere
  <2> QED
    BY <2>2, <2>3 DEF OtherKinds
<1>6. files[found[at]] \in FileVerdicts
  BY <1>3, <1>5
<1> QED
  BY <1>1, <1>6

(* A sequence with one more *)
Longer(new, old, e) ==
    /\ Len(new) = Len(old) + 1 /\ Len(old) \in Nat /\ DOMAIN new = DOMAIN old \cup {Len(old) + 1}
    /\ new[Len(old) + 1] = e /\ \A n \in DOMAIN old : new[n] = old[n]

(* An append makes a sequence longer by its element. *)
LEMMA LongerIs ==
  ASSUME NEW T, NEW s \in Seq(T), NEW e \in T
  PROVE  Append(s, e) \in Seq(T) /\ Longer(Append(s, e), s, e)
BY AppendIs DEF Longer

(* What is kept once a file was checked *)
LEMMA FileKept ==
  ASSUME NEW s, NEW t, NEW kind \in OtherKinds, NEW v, NEW old, NEW new,
         IsSummary(s), TakenUp(s), KeptRight(s), v[1] = kind, Longer(t.seen, s.seen, v),
         old = s.files[kind], new = t.files[kind], Longer(new, old, v[2]),
         \A k \in Kinds : k # kind => t.files[k] = s.files[k], t.units = s.units
  PROVE  KeptRight(t)
<1>1. Balanced(t)
  <2>1. IsFiniteSet(Positions(s.units)) /\ IsFiniteSet(DOMAIN s.units)
    BY DEF TakenUp, UnitsRight
  <2>2. Unreadable(s.units) \subseteq DOMAIN s.units
    BY DEF Unreadable
  <2>3. IsFiniteSet(Unreadable(s.units))
    BY <2>1, <2>2, FS_Subset
  <2>4. Cardinality(Unreadable(s.units)) \in Nat /\ Cardinality(Positions(s.units)) \in Nat
    BY <2>1, <2>3, FS_CardinalityType
  <2>11. Len(s.files["wideners"]) \in Nat /\ Len(s.files["transformers"]) \in Nat
    BY DEF IsSummary, Kinds
  <2>12. Len(s.seen) \in Nat
    BY DEF Longer
  <2>5. PICK a, b, c, d, n \in Nat :
           /\ a = Cardinality(Positions(s.units)) /\ b = Cardinality(Unreadable(s.units))
           /\ c = Len(s.files["wideners"]) /\ d = Len(s.files["transformers"]) /\ n = Len(s.seen)
    BY <2>4, <2>11, <2>12
  <2>6. n = a + b + c + d
    BY <2>5 DEF KeptRight, Balanced
  <2>7. n + 1 = a + b + (c + 1) + d /\ n + 1 = a + b + c + (d + 1)
    BY <2>6
  <2>8. Len(t.seen) = n + 1 /\ t.units = s.units
    BY <2>5 DEF Longer
  <2>9. CASE kind = "wideners"
    <3>1. Len(t.files["wideners"]) = c + 1 /\ Len(t.files["transformers"]) = d
      BY <2>5, <2>9 DEF Kinds, Longer
    <3> QED
      BY <2>5, <2>7, <2>8, <3>1 DEF Balanced
  <2>10. CASE kind = "transformers"
    <3>1. Len(t.files["wideners"]) = c /\ Len(t.files["transformers"]) = d + 1
      BY <2>5, <2>10 DEF Kinds, Longer
    <3> QED
      BY <2>5, <2>7, <2>8, <3>1 DEF Balanced
  <2> QED
    BY <2>9, <2>10 DEF OtherKinds
<1>2. \A x : Retained(s, x) => Retained(t, x)
  <2> SUFFICES ASSUME NEW x, Retained(s, x) PROVE Retained(t, x)
    OBVIOUS
  <2>1. CASE x[1] \in OtherKinds /\ \E i \in DOMAIN s.files[x[1]] : s.files[x[1]][i] = x[2]
    <3>1. PICK k, i : k = x[1] /\ i \in DOMAIN s.files[k] /\ s.files[k][i] = x[2]
      BY <2>1
    <3>2. i \in DOMAIN t.files[k] /\ t.files[k][i] = x[2]
      <4>1. CASE k = kind
        BY <3>1, <4>1 DEF Longer
      <4>2. CASE k # kind
        BY <2>1, <3>1, <4>2 DEF OtherKinds, Kinds
      <4> QED
        BY <4>1, <4>2
    <3> QED
      BY <2>1, <3>1, <3>2 DEF Retained
  <2>2. CASE ~(x[1] \in OtherKinds /\ \E i \in DOMAIN s.files[x[1]] : s.files[x[1]][i] = x[2])
    BY <2>2 DEF Retained
  <2> QED
    BY <2>1, <2>2
<1>3. Retained(t, v)
  <2>1. Len(old) + 1 \in DOMAIN t.files[kind] /\ t.files[kind][Len(old) + 1] = v[2]
    BY DEF Longer
  <2> QED
    BY <2>1 DEF Retained
<1>4. AllKept(t) /\ \A k : HasThrown(s, k) => HasThrown(t, k)
  <2>1. /\ DOMAIN t.seen = DOMAIN s.seen \cup {Len(s.seen) + 1} /\ t.seen[Len(s.seen) + 1] = v
        /\ \A n \in DOMAIN s.seen : t.seen[n] = s.seen[n]
    BY DEF Longer
  <2> QED
    BY <1>2, <1>3, <2>1, KeptGrows
<1>5. ThrowsSeen(t)
  <2>1. ThrowsSeen(s)
    BY DEF KeptRight
  <2>2. Unreadable(t.units) # {} => HasThrown(t, "config")
    BY <1>4, <2>1 DEF ThrowsSeen
  <2>3. ASSUME NEW k \in OtherKinds, NEW i \in DOMAIN t.files[k], t.files[k][i] = "throws"
        PROVE  HasThrown(t, k)
    <3>1. CASE k = kind /\ i = Len(old) + 1
      <4>1. v[2] = "throws"
        BY <2>3, <3>1 DEF Longer
      <4>2. Len(s.seen) + 1 \in DOMAIN t.seen /\ t.seen[Len(s.seen) + 1] = v
        BY DEF Longer
      <4> QED
        BY <3>1, <4>1, <4>2 DEF HasThrown
    <3>2. CASE ~(k = kind /\ i = Len(old) + 1)
      <4>1. i \in DOMAIN s.files[k] /\ s.files[k][i] = "throws"
        <5>1. CASE k = kind
          BY <2>3, <3>2, <5>1 DEF Longer
        <5>2. CASE k # kind
          BY <2>3, <5>2 DEF OtherKinds, Kinds
        <5> QED
          BY <5>1, <5>2
      <4> QED
        BY <1>4, <2>1, <4>1 DEF ThrowsSeen
    <3> QED
      BY <3>1, <3>2
  <2> QED
    BY <2>2, <2>3 DEF ThrowsSeen
<1> QED
  BY <1>1, <1>4, <1>5 DEF KeptRight

(* A file is checked. *)
LEMMA FileKeeps ==
  ASSUME ProjectInv, NEW kind \in OtherKinds, NEW then, CheckFile(kind, then),
         ~(Len(summary.files[kind]) + 1 > Len(summary.found[kind]))
  PROVE  ProjectInv'
<1>1. PICK s, now, verdict :
         /\ s = summary /\ now = VersionNow
         /\ verdict = project[kind][summary.found[kind][Len(summary.files[kind]) + 1]]
  OBVIOUS
<1>2. s.pc = kind /\ kind # "mixins" /\ s.pc # "asked"
  BY <1>1 DEF OtherKinds, CheckFile
<1>3. SummaryRight(s, project, question, edits)
  BY <1>1 DEF ProjectInv
<1>4. IsSummary(s) /\ TakenUp(s) /\ KeptRight(s) /\ PhaseRight(s) /\ VersionsAgree(s, project, question, edits)
  BY <1>3 DEF SummaryRight
<1>5. /\ s.files \in [Kinds -> Seq(FileVerdicts)] /\ s.found \in [Kinds -> Seq(Nat)]
      /\ kind \in Kinds
  BY <1>4 DEF IsSummary, Kinds, OtherKinds
<1>6. /\ Len(s.files[kind]) \in Nat /\ Len(s.files[kind]) + 1 \in Nat \ {0}
      /\ Len(s.found[kind]) \in Nat /\ Len(s.files[kind]) + 1 <= Len(s.found[kind])
  BY <1>1, <1>5
<1>7. verdict \in FileVerdicts
  <2>1. PICK at \in Nat \ {0} : at = Len(s.files[kind]) + 1
    BY <1>6
  <2>2. at <= Len(summary.found[kind]) /\ verdict = project[kind][summary.found[kind][at]]
    BY <1>1, <1>6, <2>1
  <2>3. project[kind][summary.found[kind][at]] \in FileVerdicts
    BY <2>2, FileIs
  <2> QED
    BY <2>2, <2>3
<1>8. /\ now \in Nat
      /\ question.version # 0 /\ question.prefer # "yes" => now = question.version
      /\ edits = 0 => now = s.version
  BY <1>1, <1>2, VersionNowIs
<1>9. PICK v : v = <<kind, verdict, now>>
  OBVIOUS
<1>10. v \in SeenVerdicts /\ v[1] = kind /\ v[2] = verdict /\ v[3] = now
  BY <1>7, <1>8, <1>9 DEF SeenVerdicts, OtherKinds
<1>11. PICK seen : seen = Append(s.seen, v)
  OBVIOUS
<1>12. seen \in Seq(SeenVerdicts) /\ Longer(seen, s.seen, v)
  <2>1. PICK q, T : q = s.seen /\ T = SeenVerdicts
    OBVIOUS
  <2>2. q \in Seq(T) /\ v \in T
    BY <1>4, <1>10, <2>1 DEF IsSummary
  <2> QED
    BY <1>11, <2>1, <2>2, LongerIs
<1>13. PICK old, new : old = s.files[kind] /\ new = Append(s.files[kind], verdict)
  OBVIOUS
<1>14. new \in Seq(FileVerdicts) /\ Longer(new, old, verdict)
  <2>1. PICK T : T = FileVerdicts
    OBVIOUS
  <2>2. old \in Seq(T) /\ verdict \in T
    BY <1>5, <1>7, <1>13, <2>1
  <2> QED
    BY <1>13, <2>1, <2>2, LongerIs
<1>15. PICK files : files = [s.files EXCEPT ![kind] = new]
  OBVIOUS
<1>16. /\ files \in [Kinds -> Seq(FileVerdicts)] /\ files[kind] = new
       /\ \A k \in Kinds : k # kind => files[k] = s.files[k]
  BY <1>5, <1>14, <1>15
<1>17. PICK t : t = [s EXCEPT !.files = files, !.seen = seen]
  OBVIOUS
<1>18. Turn(t)
  <2>1. [s EXCEPT !.files[kind] = Append(@, verdict), !.seen = Append(@, <<kind, verdict, now>>)] = t
    BY <1>4, <1>9, <1>11, <1>13, <1>15, <1>17 DEF IsSummary
  <2>2. Turn([s EXCEPT !.files[kind] = Append(@, verdict), !.seen = Append(@, <<kind, verdict, now>>)])
    BY <1>1 DEF CheckFile
  <2> QED
    BY <2>1, <2>2
<1>19. /\ t.files = files /\ t.seen = seen /\ t.pc = s.pc /\ t.next = s.next /\ t.lanes = s.lanes
       /\ t.version = s.version /\ t.prefer = s.prefer /\ t.found = s.found /\ t.units = s.units
       /\ IsSummary(t)
  BY <1>4, <1>12, <1>16, <1>17 DEF IsSummary
<1>20. FoundThere(t, project)
  BY <1>3, <1>19 DEF SummaryRight, FoundThere
<1>21. TakenUp(t)
  BY <1>4, <1>19 DEF TakenUp
<1>22. KeptRight(t)
  <2>1. IsSummary(s) /\ TakenUp(s) /\ KeptRight(s)
    BY <1>4
  <2>2. v[1] = kind /\ Longer(t.seen, s.seen, v) /\ t.units = s.units
    BY <1>10, <1>12, <1>19
  <2>3. old = s.files[kind] /\ new = t.files[kind] /\ Longer(new, old, v[2])
    BY <1>10, <1>13, <1>14, <1>16, <1>19
  <2>4. \A k \in Kinds : k # kind => t.files[k] = s.files[k]
    BY <1>16, <1>19
  <2> QED
    BY <2>1, <2>2, <2>3, <2>4, FileKept
<1>27. VersionsAgree(t, project, question, edits)
  <2>1. question.version # 0 /\ question.prefer # "yes" => v[3] = question.version
    BY <1>8, <1>10
  <2>2. edits = 0 => v[3] = s.version
    BY <1>8, <1>10
  <2> QED
    BY <1>2, <1>4, <1>12, <1>19, <2>1, <2>2, SeenVersionsGrow DEF Longer
<1>28. PhaseRight(t)
  <2>1. Len(s.found[kind]) \in Nat /\ Len(s.files[kind]) + 1 <= Len(s.found[kind])
    BY <1>6
  <2>2. Len(t.files[kind]) <= Len(t.found[kind])
    BY <1>13, <1>14, <1>16, <1>19, <2>1 DEF Longer
  <2>3. t.pc = kind /\ t.version # 0 /\ t.next = Len(t.found["mixins"]) + 1
    BY <1>2, <1>4, <1>19 DEF PhaseRight, OtherKinds
  <2>4. CASE kind = "wideners"
    <3>1. t.files["transformers"] = <<>>
      BY <1>2, <1>4, <1>16, <1>19, <2>4 DEF PhaseRight, Kinds
    <3> QED
      BY <2>2, <2>3, <2>4, <3>1 DEF PhaseRight, Late
  <2>5. CASE kind = "transformers"
    <3>1. Len(t.files["wideners"]) = Len(t.found["wideners"])
      BY <1>2, <1>4, <1>16, <1>19, <2>5 DEF PhaseRight, Kinds
    <3> QED
      BY <2>2, <2>3, <2>5, <3>1 DEF PhaseRight, Late
  <2> QED
    BY <2>4, <2>5 DEF OtherKinds
<1> QED
  BY <1>18, <1>19, <1>20, <1>21, <1>22, <1>27, <1>28, TurnKeeps DEF SummaryRight

(* All files of a kind are checked. *)
LEMMA FilesDoneKeeps ==
  ASSUME ProjectInv, NEW kind, NEW then, summary.pc = kind,
         <<kind, then>> \in {<<"wideners", "transformers">>, <<"transformers", "judging">>},
         Len(summary.files[kind]) + 1 > Len(summary.found[kind]), Turn([summary EXCEPT !.pc = then])
  PROVE  ProjectInv'
<1>1. PICK s : s = summary
  OBVIOUS
<1>2. PICK t : t = [s EXCEPT !.pc = then]
  OBVIOUS
<1>3. SummaryRight(s, project, question, edits) /\ Turn(t) /\ s.pc = kind
  BY <1>1, <1>2 DEF ProjectInv
<1>4. IsSummary(s) /\ TakenUp(s) /\ PhaseRight(s)
  BY <1>3 DEF SummaryRight
<1>5. /\ t.pc = then /\ t.lanes = s.lanes /\ SameKept(s, t) /\ IsSummary(t)
  BY <1>2, <1>4 DEF IsSummary, SameKept, Pcs
<1>6. \A m \in 1 .. MixinLanes : t.lanes[m] < t.next
  BY <1>4, <1>5 DEF SameKept, TakenUp
<1>7. FoundThere(t, project) /\ TakenUp(t) /\ KeptRight(t) /\ VersionsAgree(t, project, question, edits)
  <2>1. s.pc # "asked" /\ t.pc # "asked"
    BY <1>3, <1>5
  <2> QED
    BY <1>3, <1>5, <1>6, <2>1, CoreSame
<1>8. PhaseRight(t)
  <2>1. /\ Len(s.files["wideners"]) \in Nat /\ Len(s.files["transformers"]) \in Nat
        /\ Len(s.found["wideners"]) \in Nat /\ Len(s.found["transformers"]) \in Nat
    BY <1>4 DEF IsSummary, Kinds
  <2>2. CASE kind = "wideners"
    <3>1. Len(s.files["wideners"]) <= Len(s.found["wideners"]) /\ s.files["transformers"] = <<>>
      BY <1>3, <1>4, <2>2 DEF PhaseRight
    <3>2. Len(s.files["wideners"]) = Len(s.found["wideners"]) /\ Len(s.files["transformers"]) <= Len(s.found["transformers"])
      BY <1>1, <2>1, <2>2, <3>1
    <3>3. s.version # 0 /\ s.next = Len(s.found["mixins"]) + 1 /\ t.pc = "transformers"
      BY <1>3, <1>4, <1>5, <2>2 DEF PhaseRight
    <3> QED
      BY <1>5, <3>2, <3>3 DEF PhaseRight, Late, SameKept
  <2>3. CASE kind = "transformers"
    <3>1. /\ Len(s.files["wideners"]) = Len(s.found["wideners"])
          /\ Len(s.files["transformers"]) <= Len(s.found["transformers"])
      BY <1>3, <1>4, <2>3 DEF PhaseRight
    <3>2. Len(s.files["transformers"]) = Len(s.found["transformers"])
      BY <1>1, <2>1, <2>3, <3>1
    <3>3. s.version # 0 /\ s.next = Len(s.found["mixins"]) + 1 /\ t.pc = "judging"
      BY <1>3, <1>4, <1>5, <2>3 DEF PhaseRight
    <3> QED
      BY <1>5, <3>1, <3>2, <3>3 DEF PhaseRight, Late, SameKept, Complete
  <2> QED
    BY <2>2, <2>3
<1> QED
  BY <1>3, <1>5, <1>7, <1>8, TurnKeeps DEF SummaryRight

(* One file is checked, or all were. *)
LEMMA CheckFileKeeps ==
  ASSUME ProjectInv, NEW kind, NEW then, CheckFile(kind, then),
         <<kind, then>> \in {<<"wideners", "transformers">>, <<"transformers", "judging">>}
  PROVE  ProjectInv'
<1>1. kind \in OtherKinds /\ kind \in Kinds
  BY DEF OtherKinds, Kinds
<1>2. Len(summary.files[kind]) \in Nat /\ Len(summary.found[kind]) \in Nat
  BY <1>1 DEF ProjectInv, SummaryRight, IsSummary
<1>3. summary.pc = kind
  BY DEF CheckFile
<1>4. CASE Len(summary.files[kind]) + 1 > Len(summary.found[kind])
  <2>1. Turn([summary EXCEPT !.pc = then])
    BY <1>4 DEF CheckFile
  <2> QED
    BY <1>3, <1>4, <2>1, FilesDoneKeeps
<1>5. CASE ~(Len(summary.files[kind]) + 1 > Len(summary.found[kind]))
  BY <1>1, <1>5, FileKeeps
<1> QED
  BY <1>4, <1>5

-----------------------------------------------------------------------------
(* What was counted of what was kept *)
CountsOf(s) ==
    [valid |-> Cardinality(SaidIn(s.units, {"clean", "unsure", "partial"}))
                  + (Number(s.files["wideners"], {"clean"}) + Number(s.files["transformers"], {"clean"})),
     partial |-> Cardinality(SaidIn(s.units, {"partial"})),
     invalid |-> Cardinality(SaidIn(s.units, {"invalid"})) + Cardinality(Unreadable(s.units))
                    + (Number(s.files["wideners"], {"invalid", "throws"})
                          + Number(s.files["transformers"], {"invalid", "throws"})),
     unprocessed |-> Cardinality(SaidIn(s.units, {"throws"}))
                        + (Number(s.files["wideners"], {"other format"})
                              + Number(s.files["transformers"], {"other format"}))]

(* The counts of a summary, by cardinalities. *)
LEMMA CountsAre ==
  ASSUME NEW s, s = summary
  PROVE  Counts = CountsOf(s) /\ Threw = Cardinality(Unreadable(s.units))
<1>1. Given = Positions(s.units)
  BY DEF Given, Positions
<1>2. InUnits({"clean", "unsure", "partial"}) = Cardinality(SaidIn(s.units, {"clean", "unsure", "partial"}))
  BY <1>1 DEF InUnits, SaidIn, SaidAt
<1>3. InUnits({"partial"}) = Cardinality(SaidIn(s.units, {"partial"}))
  BY <1>1 DEF InUnits, SaidIn, SaidAt
<1>4. InUnits({"invalid"}) = Cardinality(SaidIn(s.units, {"invalid"}))
  BY <1>1 DEF InUnits, SaidIn, SaidAt
<1>5. InUnits({"throws"}) = Cardinality(SaidIn(s.units, {"throws"}))
  BY <1>1 DEF InUnits, SaidIn, SaidAt
<1>6. Threw = Cardinality(Unreadable(s.units))
  BY DEF Threw, Unreadable
<1>7. \A wanted : InFiles(wanted) = Number(s.files["wideners"], wanted) + Number(s.files["transformers"], wanted)
  BY DEF InFiles
<1> QED
  BY <1>2, <1>3, <1>4, <1>5, <1>6, <1>7 DEF Counts, CountsOf

(* They count every verdict once, and nothing but what is clean where they say "ok". *)
LEMMA CountsSay ==
  ASSUME NEW s, IsSummary(s), TakenUp(s), KeptRight(s), NEW c, c = CountsOf(s)
  PROVE  /\ c.valid + c.invalid + c.unprocessed = Len(s.seen) /\ c.partial <= c.valid
         /\ StatusFrom(c) = "ok" => \A n \in DOMAIN s.seen : s.seen[n][2] \in {"clean", "unsure"}
<1>1. PICK u, f, g : u = s.units /\ f = s.files["wideners"] /\ g = s.files["transformers"]
  OBVIOUS
<1>2. f \in Seq(FileVerdicts) /\ g \in Seq(FileVerdicts) /\ s.seen \in Seq(SeenVerdicts)
  BY <1>1 DEF IsSummary, Kinds
<1>3. UnitsRight(u) /\ IsFiniteSet(Unreadable(u))
  <2>1. UnitsRight(u)
    BY <1>1 DEF TakenUp
  <2>2. Unreadable(u) \subseteq DOMAIN u /\ IsFiniteSet(DOMAIN u)
    BY <2>1 DEF Unreadable, UnitsRight
  <2> QED
    BY <2>1, <2>2, FS_Subset
<1>4. PICK a, p, b, d, t, z \in Nat :
         /\ a = Cardinality(SaidIn(u, {"clean", "unsure", "partial"}))
         /\ p = Cardinality(SaidIn(u, {"partial"})) /\ b = Cardinality(SaidIn(u, {"invalid"}))
         /\ d = Cardinality(SaidIn(u, {"throws"})) /\ t = Cardinality(Unreadable(u))
         /\ z = Cardinality(Positions(u))
  <2>1. /\ Cardinality(SaidIn(u, {"clean", "unsure", "partial"})) \in Nat
        /\ Cardinality(SaidIn(u, {"partial"})) \in Nat
        /\ Cardinality(SaidIn(u, {"invalid"})) \in Nat
        /\ Cardinality(SaidIn(u, {"throws"})) \in Nat
    BY <1>3, UnitsCount
  <2>2. Cardinality(Unreadable(u)) \in Nat /\ Cardinality(Positions(u)) \in Nat
    BY <1>3, FS_CardinalityType DEF UnitsRight
  <2> QED
    BY <2>1, <2>2
<1>5. /\ z = a + b + d /\ p <= a
      /\ p = 0 /\ b = 0 /\ d = 0 => \A at \in Positions(u) : SaidAt(u, at) \in {"clean", "unsure"}
  BY <1>3, <1>4, UnitsCount
<1>6. PICK fa, fb, fd \in Nat :
         /\ fa = Number(f, {"clean"}) /\ fb = Number(f, {"invalid", "throws"})
         /\ fd = Number(f, {"other format"}) /\ Len(f) = fa + fb + fd
         /\ fb = 0 /\ fd = 0 => \A i \in DOMAIN f : f[i] = "clean"
  BY <1>2, FilesCount
<1>7. PICK ga, gb, gd \in Nat :
         /\ ga = Number(g, {"clean"}) /\ gb = Number(g, {"invalid", "throws"})
         /\ gd = Number(g, {"other format"}) /\ Len(g) = ga + gb + gd
         /\ gb = 0 /\ gd = 0 => \A i \in DOMAIN g : g[i] = "clean"
  BY <1>2, FilesCount
<1>8. /\ c.valid = a + (fa + ga) /\ c.partial = p
      /\ c.invalid = b + t + (fb + gb) /\ c.unprocessed = d + (fd + gd)
  BY <1>1, <1>4, <1>6, <1>7 DEF CountsOf
<1>9. Len(s.seen) = z + t + Len(f) + Len(g)
  BY <1>1, <1>4 DEF KeptRight, Balanced
<1>10. c.valid + c.invalid + c.unprocessed = Len(s.seen)
  <2>1. z + t + (fa + fb + fd) + (ga + gb + gd)
           = (a + (fa + ga)) + (b + t + (fb + gb)) + (d + (fd + gd))
    BY <1>5
  <2> QED
    BY <1>6, <1>7, <1>8, <1>9, <2>1
<1>11. c.partial <= c.valid
  BY <1>5, <1>8
<1>12. ASSUME StatusFrom(c) = "ok", NEW n \in DOMAIN s.seen
       PROVE  s.seen[n][2] \in {"clean", "unsure"}
  <2>1. ~(c.invalid > 0) /\ ~(c.partial > 0) /\ ~(c.unprocessed > 0)
    BY <1>12 DEF StatusFrom
  <2>2. p = 0 /\ b = 0 /\ t = 0 /\ fb = 0 /\ gb = 0 /\ d = 0 /\ fd = 0 /\ gd = 0
    BY <1>8, <2>1
  <2>3. /\ \A at \in Positions(u) : SaidAt(u, at) \in {"clean", "unsure"}
        /\ \A i \in DOMAIN f : f[i] = "clean"
        /\ \A i \in DOMAIN g : g[i] = "clean"
    BY <1>5, <1>6, <1>7, <2>2
  <2>4. Unreadable(u) = {}
    BY <1>3, <1>4, <2>2, NoneIsEmpty
  <2>5. PICK v : v = s.seen[n]
    OBVIOUS
  <2>6. Retained(s, v)
    BY <1>12, <2>5 DEF KeptRight, AllKept
  <2>7. v[2] \in {"clean", "unsure"}
    <3>1. CASE v[1] = "config" /\ v[2] = "throws" /\ Unreadable(s.units) # {}
      BY <1>1, <2>4, <3>1
    <3>2. CASE v[1] = "mixin" /\ \E at \in Positions(s.units) : SaidAt(s.units, at) = v[2]
      BY <1>1, <2>3, <3>2
    <3>3. CASE v[1] \in OtherKinds /\ \E i \in DOMAIN s.files[v[1]] : s.files[v[1]][i] = v[2]
      <4>1. CASE v[1] = "wideners"
        BY <1>1, <2>3, <3>3, <4>1
      <4>2. CASE v[1] = "transformers"
        BY <1>1, <2>3, <3>3, <4>2
      <4> QED
        BY <3>3, <4>1, <4>2 DEF OtherKinds
    <3> QED
      BY <2>6, <3>1, <3>2, <3>3 DEF Retained
  <2> QED
    BY <2>5, <2>7
<1> QED
  BY <1>10, <1>11, <1>12

(* The counts are taken and the status given. *)
LEMMA JudgeKeeps ==
  ASSUME ProjectInv, Judge PROVE ProjectInv'
<1>1. PICK s, counts, status, told :
         /\ s = summary /\ counts = Counts /\ status = StatusFrom(Counts) /\ told = (Total(summary.found) = 0)
  OBVIOUS
<1>2. PICK t : t = [s EXCEPT !.pc = "probing", !.counts = counts, !.status = status, !.told = told]
  OBVIOUS
<1>3. s.pc = "judging" /\ Turn(t)
  BY <1>1, <1>2 DEF Judge
<1>4. SummaryRight(s, project, question, edits)
  BY <1>1 DEF ProjectInv
<1>5. IsSummary(s) /\ TakenUp(s) /\ KeptRight(s) /\ PhaseRight(s)
  BY <1>4 DEF SummaryRight
<1>6. /\ t.pc = "probing" /\ t.lanes = s.lanes /\ SameKept(s, t) /\ IsSummary(t)
      /\ t.counts = counts /\ t.status = status /\ t.told = told
  BY <1>2, <1>5 DEF IsSummary, SameKept, Pcs
<1>7. \A m \in 1 .. MixinLanes : t.lanes[m] < t.next
  BY <1>5, <1>6 DEF SameKept, TakenUp
<1>8. FoundThere(t, project) /\ TakenUp(t) /\ KeptRight(t) /\ VersionsAgree(t, project, question, edits)
  <2>1. s.pc # "asked" /\ t.pc # "asked"
    BY <1>3, <1>6
  <2> QED
    BY <1>4, <1>6, <1>7, <2>1, CoreSame
<1>9. /\ counts.valid + counts.invalid + counts.unprocessed = Len(s.seen) /\ counts.partial <= counts.valid
      /\ status = "ok" => \A n \in DOMAIN s.seen : s.seen[n][2] \in {"clean", "unsure"}
  <2>1. counts = CountsOf(s) /\ status = StatusFrom(counts)
    BY <1>1, CountsAre
  <2> QED
    BY <1>5, <2>1, CountsSay
<1>10. Complete(s) /\ s.version # 0
  BY <1>3, <1>5 DEF PhaseRight
<1>11. Complete(t) /\ t.version # 0
  BY <1>6, <1>10 DEF Complete, SameKept
<1>12. t.told <=> Total(t.found) = 0
  BY <1>1, <1>6 DEF SameKept
<1>13. JudgedWell(t)
  BY <1>6, <1>9, <1>11, <1>12 DEF JudgedWell, SameKept
<1>14. PhaseRight(t)
  BY <1>6, <1>13 DEF PhaseRight
<1> QED
  BY <1>3, <1>6, <1>8, <1>14, TurnKeeps DEF SummaryRight

-----------------------------------------------------------------------------
(* The probes change nothing of the verdict. *)
SameVerdict(s, t) ==
    SameKept(s, t) /\ t.lanes = s.lanes /\ t.status = s.status /\ t.counts = s.counts /\ t.told = s.told

(* What comes after the verdict leaves it as it is. *)
LEMMA VerdictStays ==
  ASSUME ProjectInv, NEW t, Turn(t), SameVerdict(summary, t), IsSummary(t),
         summary.pc \in Late, t.pc \in Late,
         t.pc = "done" => \A k \in Kinds : t.tasks[k] = "error" <=> Erred(t, k)
  PROVE  ProjectInv'
<1>1. PICK s : s = summary
  OBVIOUS
<1>2. SummaryRight(s, project, question, edits) /\ SameVerdict(s, t)
  BY <1>1 DEF ProjectInv
<1>3. TakenUp(s) /\ PhaseRight(s)
  BY <1>2 DEF SummaryRight
<1>4. \A m \in 1 .. MixinLanes : t.lanes[m] < t.next
  BY <1>2, <1>3 DEF SameVerdict, SameKept, TakenUp
<1>5. FoundThere(t, project) /\ TakenUp(t) /\ KeptRight(t) /\ VersionsAgree(t, project, question, edits)
  <2>1. s.pc # "asked" /\ t.pc # "asked" /\ SameKept(s, t)
    BY <1>1, <1>2 DEF Late, SameVerdict
  <2> QED
    BY <1>2, <1>4, <2>1, CoreSame
<1>6. s.status = "blocked" \/ JudgedWell(s)
  BY <1>1, <1>3 DEF PhaseRight
<1>7. t.status = "blocked" \/ JudgedWell(t)
  BY <1>2, <1>6 DEF JudgedWell, Complete, SameVerdict, SameKept
<1>8. PhaseRight(t)
  BY <1>7 DEF PhaseRight, Late
<1> QED
  BY <1>5, <1>8, TurnKeeps DEF SummaryRight

(* The workspace is probed for the report. *)
LEMMA ProbesKeep ==
  ASSUME ProjectInv, Probe PROVE ProjectInv'
<1>1. PICK pc, tasks, t :
         /\ pc = IF Detects = "ok" THEN "reading" ELSE "reporting"
         /\ tasks = [k \in {"workspace", "gradle", "artifact"} |->
                        IF k = "workspace" THEN Detects ELSE "skipped"]
         /\ t = [summary EXCEPT !.pc = pc, !.tasks = tasks]
  OBVIOUS
<1>2. summary.pc = "probing" /\ Turn(t)
  BY <1>1 DEF Probe
<1>3. IsSummary(summary)
  BY DEF ProjectInv, SummaryRight
<1>4. t.pc \in {"reading", "reporting"} /\ SameVerdict(summary, t) /\ IsSummary(t)
  BY <1>1, <1>3 DEF IsSummary, SameVerdict, SameKept, Pcs
<1>5. summary.pc \in Late /\ t.pc \in Late /\ t.pc # "done"
  BY <1>2, <1>4 DEF Late
<1> QED
  BY <1>2, <1>4, <1>5, VerdictStays

(* The build scripts are probed for the report. *)
LEMMA ReadGradleKeeps ==
  ASSUME ProjectInv, ReadGradle PROVE ProjectInv'
<1>1. PICK gradle, artifact :
         /\ summary.pc = "reading"
         /\ Turn([summary EXCEPT !.pc = "reporting", !.tasks["gradle"] = gradle,
                                 !.tasks["artifact"] = artifact])
  BY DEF ReadGradle
<1>2. PICK s, t : s = summary /\ t = [summary EXCEPT !.pc = "reporting", !.tasks["gradle"] = gradle,
                                                     !.tasks["artifact"] = artifact]
  OBVIOUS
<1>3. IsSummary(s)
  BY <1>2 DEF ProjectInv, SummaryRight
<1>4. PICK tasks : tasks = [[s.tasks EXCEPT !["gradle"] = gradle] EXCEPT !["artifact"] = artifact]
  OBVIOUS
<1>5. t = [s EXCEPT !.pc = "reporting", !.tasks = tasks]
  BY <1>2, <1>3, <1>4 DEF IsSummary
<1>6. t.pc = "reporting" /\ SameVerdict(s, t) /\ IsSummary(t)
  BY <1>3, <1>5 DEF IsSummary, SameVerdict, SameKept, Pcs
<1>7. summary.pc \in Late /\ t.pc \in Late /\ t.pc # "done"
  BY <1>1, <1>6 DEF Late
<1>8. Turn(t) /\ SameVerdict(summary, t)
  BY <1>1, <1>2, <1>6
<1> QED
  BY <1>6, <1>7, <1>8, VerdictStays

(* A task is an error exactly if a file of its kind was not read. *)
LEMMA TaskIs ==
  ASSUME ProjectInv, NEW k \in Kinds
  PROVE  TaskOf(k) = "error" <=> Erred(summary, k)
<1>1. PICK s : s = summary
  OBVIOUS
<1>2. TakenUp(s)
  BY <1>1 DEF ProjectInv, SummaryRight
<1>3. Threw # 0 <=> Unreadable(s.units) # {}
  <2>1. Unreadable(s.units) \subseteq DOMAIN s.units /\ IsFiniteSet(DOMAIN s.units)
    BY <1>2 DEF Unreadable, UnitsRight, TakenUp
  <2>2. IsFiniteSet(Unreadable(s.units))
    BY <2>1, FS_Subset
  <2>3. Threw = Cardinality(Unreadable(s.units))
    BY <1>1, CountsAre
  <2> QED
    BY <2>2, <2>3, NoneIsEmpty
<1> QED
  BY <1>1, <1>3 DEF TaskOf, Erred, HasVersion

(* The tasks are reported, each of them by its own files. *)
LEMMA ReportKeeps ==
  ASSUME ProjectInv, Report PROVE ProjectInv'
<1>1. PICK s, tasks : /\ s = summary
                      /\ tasks = [k \in DOMAIN summary.tasks \cup Kinds |->
                                     IF k \in Kinds THEN TaskOf(k) ELSE summary.tasks[k]]
  OBVIOUS
<1>2. PICK t : t = [s EXCEPT !.pc = "done", !.tasks = tasks]
  OBVIOUS
<1>3. s.pc = "reporting" /\ Turn(t)
  BY <1>1, <1>2 DEF Report
<1>4. IsSummary(s)
  BY <1>1 DEF ProjectInv, SummaryRight
<1>5. t.pc = "done" /\ SameVerdict(s, t) /\ IsSummary(t) /\ t.tasks = tasks
  BY <1>2, <1>4 DEF IsSummary, SameVerdict, SameKept, Pcs
<1>6. \A k \in Kinds : t.tasks[k] = "error" <=> Erred(t, k)
  <2> SUFFICES ASSUME NEW k \in Kinds PROVE t.tasks[k] = "error" <=> Erred(t, k)
    OBVIOUS
  <2>1. t.tasks[k] = TaskOf(k)
    BY <1>1, <1>5
  <2>2. TaskOf(k) = "error" <=> Erred(s, k)
    BY <1>1, TaskIs
  <2>3. Erred(s, k) <=> Erred(t, k)
    BY <1>5 DEF SameVerdict, SameKept, Erred
  <2> QED
    BY <2>1, <2>2, <2>3
<1>7. summary.pc \in Late /\ t.pc \in Late /\ SameVerdict(summary, t)
  BY <1>1, <1>3, <1>5 DEF Late
<1> QED
  BY <1>3, <1>5, <1>6, <1>7, VerdictStays

-----------------------------------------------------------------------------
(* An edit leaves the files where they are. *)
LEMMA FilesStay ==
  ASSUME project \in WorkspaceState, EditWorkspace
  PROVE  /\ project' \in WorkspaceState /\ DOMAIN project'.mixins = DOMAIN project.mixins
         /\ DOMAIN project'.wideners = DOMAIN project.wideners
         /\ DOMAIN project'.transformers = DOMAIN project.transformers
<1>1. PICK p, M, F : p = project /\ M = Seq(Config) /\ F = Seq(FileVerdicts)
  OBVIOUS
<1>2. p \in [version : Nat, gradle : {"none", "scripts", "readable", "unreadable"},
             mixins : M, wideners : F, transformers : F]
  BY <1>1 DEF WorkspaceState
<1> DEFINE Well(q) ==
              /\ q \in [version : Nat, gradle : {"none", "scripts", "readable", "unreadable"},
                        mixins : M, wideners : F, transformers : F]
              /\ DOMAIN q.mixins = DOMAIN p.mixins /\ DOMAIN q.wideners = DOMAIN p.wideners
              /\ DOMAIN q.transformers = DOMAIN p.transformers
<1>3. Well([p EXCEPT !.version = @ + 1])
  BY <1>2
<1>4. Well([p EXCEPT !.version = 0, !.gradle = "scripts"])
  BY <1>2
<1>5. ASSUME NEW i \in DOMAIN p.mixins, NEW state \in {"broken", "gone"}
      PROVE  Well([p EXCEPT !.mixins[i].state = state])
  <2>1. PICK m, c, d, n : /\ m = p.mixins /\ c = m[i] /\ d = [c EXCEPT !.state = state]
                          /\ n = [m EXCEPT ![i] = d]
    OBVIOUS
  <2>2. m \in Seq(Config)
    BY <1>1, <1>2, <2>1
  <2>3. c \in Config
    BY <2>1, <2>2
  <2>4. d \in Config
    <3>1. PICK E : E = Seq(MixinVerdicts)
      OBVIOUS
    <3>2. c \in [state : {"whole", "broken", "gone"}, entries : E]
      BY <2>3, <3>1 DEF Config
    <3>3. d \in [state : {"whole", "broken", "gone"}, entries : E]
      BY <2>1, <3>2
    <3> QED
      BY <3>1, <3>3 DEF Config
  <2>5. n \in Seq(Config) /\ DOMAIN n = DOMAIN m
    <3>1. PICK T : T = Config
      OBVIOUS
    <3>2. m \in Seq(T) /\ d \in T /\ i \in DOMAIN m
      BY <2>1, <2>2, <2>4, <3>1
    <3>3. n \in Seq(T) /\ DOMAIN n = DOMAIN m
      BY <2>1, <3>2
    <3> QED
      BY <3>1, <3>3
  <2>6. [p EXCEPT !.mixins[i].state = state] = [p EXCEPT !.mixins = n]
    BY <1>2, <2>1
  <2>7. Well([p EXCEPT !.mixins = n])
    BY <1>1, <1>2, <2>1, <2>5
  <2> QED
    BY <2>6, <2>7
<1>6. ASSUME NEW q \in Seq(FileVerdicts), NEW i \in DOMAIN q, NEW n, n = [q EXCEPT ![i] = "throws"]
      PROVE  n \in F /\ DOMAIN n = DOMAIN q
  <2>1. PICK T : T = FileVerdicts
    OBVIOUS
  <2>2. q \in Seq(T) /\ "throws" \in T
    BY <1>6, <2>1 DEF FileVerdicts
  <2>3. n \in Seq(T) /\ DOMAIN n = DOMAIN q
    BY <1>6, <2>2
  <2> QED
    BY <1>1, <2>1, <2>3
<1>7. ASSUME NEW i \in DOMAIN p.wideners PROVE Well([p EXCEPT !.wideners[i] = "throws"])
  <2>1. PICK q, n : q = p.wideners /\ n = [q EXCEPT ![i] = "throws"]
    OBVIOUS
  <2>2. q \in Seq(FileVerdicts) /\ i \in DOMAIN q
    BY <1>1, <1>2, <2>1
  <2>3. n \in F /\ DOMAIN n = DOMAIN q
    BY <1>6, <2>1, <2>2
  <2>4. [p EXCEPT !.wideners[i] = "throws"] = [p EXCEPT !.wideners = n]
    BY <1>2, <2>1
  <2>5. Well([p EXCEPT !.wideners = n])
    BY <1>2, <2>1, <2>3
  <2> QED
    BY <2>4, <2>5
<1>8. ASSUME NEW i \in DOMAIN p.transformers PROVE Well([p EXCEPT !.transformers[i] = "throws"])
  <2>1. PICK q, n : q = p.transformers /\ n = [q EXCEPT ![i] = "throws"]
    OBVIOUS
  <2>2. q \in Seq(FileVerdicts) /\ i \in DOMAIN q
    BY <1>1, <1>2, <2>1
  <2>3. n \in F /\ DOMAIN n = DOMAIN q
    BY <1>6, <2>1, <2>2
  <2>4. [p EXCEPT !.transformers[i] = "throws"] = [p EXCEPT !.transformers = n]
    BY <1>2, <2>1
  <2>5. Well([p EXCEPT !.transformers = n])
    BY <1>2, <2>1, <2>3
  <2> QED
    BY <2>4, <2>5
<1>9. Well(project')
  <2>1. CASE project' = [project EXCEPT !.version = @ + 1]
    BY <1>1, <1>3, <2>1
  <2>2. CASE project' = [project EXCEPT !.version = 0, !.gradle = "scripts"]
    BY <1>1, <1>4, <2>2
  <2>3. CASE \E i \in DOMAIN project.mixins, state \in {"broken", "gone"} :
                project' = [project EXCEPT !.mixins[i].state = state]
    <3>1. PICK i \in DOMAIN project.mixins : \E state \in {"broken", "gone"} :
             project' = [project EXCEPT !.mixins[i].state = state]
      BY <2>3
    <3>2. PICK state \in {"broken", "gone"} : project' = [project EXCEPT !.mixins[i].state = state]
      BY <3>1
    <3>3. i \in DOMAIN p.mixins /\ project' = [p EXCEPT !.mixins[i].state = state]
      BY <1>1, <3>2
    <3>4. Well([p EXCEPT !.mixins[i].state = state])
      BY <1>5, <3>3
    <3> HIDE DEF Well
    <3> QED
      BY <3>3, <3>4
  <2>4. CASE \E kind \in {"wideners", "transformers"} : \E i \in DOMAIN project[kind] :
                project' = [project EXCEPT ![kind][i] = "throws"]
    <3>1. PICK kind \in {"wideners", "transformers"} : \E i \in DOMAIN project[kind] :
             project' = [project EXCEPT ![kind][i] = "throws"]
      BY <2>4
    <3>2. PICK i \in DOMAIN p[kind] : project' = [p EXCEPT ![kind][i] = "throws"]
      BY <1>1, <3>1
    <3>3. CASE kind = "wideners"
      <4>1. i \in DOMAIN p.wideners /\ project' = [p EXCEPT !.wideners[i] = "throws"]
        BY <3>2, <3>3
      <4> QED
        BY <1>7, <4>1
    <3>4. CASE kind = "transformers"
      <4>1. i \in DOMAIN p.transformers /\ project' = [p EXCEPT !.transformers[i] = "throws"]
        BY <3>2, <3>4
      <4> QED
        BY <1>8, <4>1
    <3> QED
      BY <3>3, <3>4
  <2> QED
    BY <2>1, <2>2, <2>3, <2>4 DEF EditWorkspace
<1> QED
  BY <1>1, <1>9 DEF WorkspaceState

(* The workspace is edited while the call is under way. *)
LEMMA WorkspaceEdited ==
  ASSUME ProjectInv, EditWorkspace PROVE ProjectInv'
<1>1. PICK s, p : s = summary /\ p = project'
  OBVIOUS
<1>2. /\ summary' = s /\ question' = question /\ edits' = edits + 1
  BY <1>1 DEF EditWorkspace
<1>3. /\ p \in WorkspaceState /\ DOMAIN p.mixins = DOMAIN project.mixins
      /\ DOMAIN p.wideners = DOMAIN project.wideners /\ DOMAIN p.transformers = DOMAIN project.transformers
  BY <1>1, FilesStay DEF ProjectInv
<1>4. SummaryRight(s, project, question, edits) /\ edits \in Nat /\ question \in Question
  BY <1>1 DEF ProjectInv
<1>5. edits + 1 \in Nat /\ edits + 1 # 0
  BY <1>4
<1>6. FoundThere(s, p)
  BY <1>3, <1>4 DEF SummaryRight, FoundThere
<1>7. VersionsAgree(s, p, question, edits + 1)
  BY <1>4, <1>5 DEF SummaryRight, VersionsAgree
<1>8. SummaryRight(s, p, question, edits + 1)
  BY <1>4, <1>6, <1>7 DEF SummaryRight
<1> QED
  BY <1>1, <1>2, <1>3, <1>4, <1>5, <1>8 DEF ProjectInv

(* A step of another part. *)
LEMMA ProjectStutters == ProjectInv /\ UNCHANGED projectVars => ProjectInv'
BY DEF ProjectInv, projectVars

(* Every step keeps the invariant. *)
LEMMA ProjectKept ==
  ASSUME ProjectInv, [ProjectNext]_projectVars PROVE ProjectInv'
<1>1. CASE Infer
  BY <1>1, InferKeeps
<1>2. CASE Find
  BY <1>2, FindKeeps
<1>3. CASE Gather
  BY <1>3, GatherKeeps
<1>4. CASE Judge
  BY <1>4, JudgeKeeps
<1>5. CASE Probe
  BY <1>5, ProbesKeep
<1>6. CASE ReadGradle
  BY <1>6, ReadGradleKeeps
<1>7. CASE Report
  BY <1>7, ReportKeeps
<1>8. CASE EditWorkspace
  BY <1>8, WorkspaceEdited
<1>9. CASE \E l \in 1 .. MixinLanes : Take(l) \/ Validate(l) \/ Settle(l)
  BY <1>9, TakeKeeps, ValidateKeeps, SettleKeeps
<1>10. CASE CheckFile("wideners", "transformers")
  BY <1>10, CheckFileKeeps
<1>11. CASE CheckFile("transformers", "judging")
  BY <1>11, CheckFileKeeps
<1>12. CASE UNCHANGED projectVars
  BY <1>12, ProjectStutters
<1> QED
  BY <1>1, <1>2, <1>3, <1>4, <1>5, <1>6, <1>7, <1>8, <1>9, <1>10, <1>11, <1>12 DEF ProjectNext

(* Before anything was asked. *)
LEMMA NoSummaryRight ==
  ASSUME NEW p, NEW q, NEW e
  PROVE  SummaryRight(NoSummary, p, q, e)
<1>1. PICK s : s = NoSummary
  OBVIOUS
<1>2. IsSummary(s)
  BY <1>1 DEF IsSummary, NoSummary, Pcs
<1>3. /\ s.pc = "asked" /\ s.prefer = "unset" /\ s.version = 0
      /\ s.found["mixins"] = <<>> /\ s.found["wideners"] = <<>> /\ s.found["transformers"] = <<>>
  BY <1>1 DEF NoSummary, Kinds
<1>4. Untouched(s)
  BY <1>1 DEF NoSummary, Untouched, Kinds
<1>5. KeptRight(s) /\ UnitsRight(s.units) /\ DOMAIN s.units = {}
  BY <1>4, UntouchedKept
<1>6. FoundThere(s, p)
  BY <1>3 DEF FoundThere
<1>7. TakenUp(s)
  <2>1. s.next = 1 /\ Len(s.found["mixins"]) = 0
    BY <1>3, <1>4 DEF Untouched
  <2> QED
    BY <1>4, <1>5, <2>1 DEF TakenUp, Untouched
<1>8. VersionsAgree(s, p, q, e)
  BY <1>3, <1>4 DEF VersionsAgree, Untouched
<1>9. PhaseRight(s)
  BY <1>3, <1>4 DEF PhaseRight, Late
<1> QED
  BY <1>1, <1>2, <1>5, <1>6, <1>7, <1>8, <1>9 DEF SummaryRight

(* The summary starts right. *)
LEMMA ProjectStarts == ProjectInit => ProjectInv
BY ProjectAssumption, NoSummaryRight DEF ProjectInit, ProjectInv

(* Whatever the lanes do side by side and the author meanwhile, every verdict of a workspace
   is counted once, "ok" is said of what was read and clean alone, all of it is about one
   version where nothing was edited, and a task is an error exactly if a file was not read. *)
THEOREM ProjectAlwaysRight == ProjectSpec => []ProjectRight
<1>1. ProjectInit => ProjectInv
  BY ProjectStarts
<1>2. ProjectInv /\ [ProjectNext]_projectVars => ProjectInv'
  BY ProjectKept
<1>3. ProjectInv => ProjectRight
  BY ProjectIsRight
<1> QED
  BY <1>1, <1>2, <1>3, PTL DEF ProjectSpec

-----------------------------------------------------------------------------
(* What a call of resolve-workspace-symbol, check-symbol-exists or the detection of a
   dependency knows by the time it is in a place, of a build that was not edited. *)
ScriptsSeen ==
    /\ inquiry.asks.tool = "resolve"
    /\ edited = 0 =>
          /\ inquiry.listed = DOMAIN tree.scripts /\ DOMAIN evidence \subseteq DOMAIN tree.scripts
          /\ \A i \in DOMAIN evidence :
                evidence[i] = IF tree.scripts[i].readable THEN tree.scripts[i].declares ELSE {}

NoneDeclares == \A i \in Readable : tree.scripts[i].declares = {}

RuntimeAsked ==
    /\ ~runtime.obfuscated /\ inquiry.asks.label # "yarn" /\ inquiry.base # "resolved"
    /\ \/ inquiry.asks.tool = "check"
       \/ /\ inquiry.asks.tool = "resolve" /\ inquiry.base = "not_found"
          /\ edited = 0 => Readable # {} /\ NoneDeclares

ReleasesIn(t) == {v \in t.cached : v <= 9}
PomsRead ==
    /\ inquiry.asks.tool = "dependency" /\ inquiry.next \in Nat \ {0}
    /\ edited = 0 =>
          /\ tree.own = 0 /\ tree.umbrella # 0 /\ inquiry.candidates = ReleasesIn(tree)
          /\ Cardinality(ReleasesIn(tree)) # 1

PlaceRight ==
    /\ InPlace("graph") => inquiry.asks.tool = "check"
    /\ InPlace("scripts") => ScriptsSeen
    /\ InPlace("probe") =>
          inquiry.asks.tool = "resolve" /\ ~runtime.obfuscated /\ (edited = 0 => NoneDeclares)
    /\ InPlace("runtime") => RuntimeAsked
    /\ InPlace("properties") => inquiry.asks.tool = "dependency"
    /\ InPlace("modules") =>
          inquiry.asks.tool = "dependency"
          /\ (edited = 0 => tree.own = 0 /\ inquiry.umbrella = tree.umbrella)
    /\ InPlace("poms") => PomsRead

BuildInv ==
    /\ tree \in BuildTree /\ IsFiniteSet(tree.cached) /\ runtime \in Runtime /\ edited \in Nat
    /\ InPlace("idle") \/ inquiry.asks \in SymbolQuestion
    /\ InPlace("idle") => evidence = <<>>
    /\ PlaceRight /\ BuildRight

(* An answer is right when it is about what was asked for. *)
LEMMA NothingAnswered ==
  ASSUME inquiry'.at # "answered" PROVE BuildRight'
BY DEF BuildRight, RuntimeRight, DetectionRight, DependencyRight, SymbolReplied, InPlace

(* A question is asked. *)
LEMMA AskKeeps ==
  ASSUME BuildInv, NEW q \in SymbolQuestions, AskSymbol(q) PROVE BuildInv'
<1>1. /\ inquiry.at = "idle" /\ evidence = <<>> /\ q \in SymbolQuestion
      /\ UNCHANGED <<tree, runtime, evidence, edited>>
      /\ inquiry' = [at |-> CASE q.tool = "check" -> "graph" [] q.tool = "resolve" -> "scripts"
                              [] OTHER -> "properties",
                     asks |-> q, listed |-> DOMAIN tree.scripts]
  BY BuildAssumption DEF AskSymbol, InPlace, BuildInv
<1>2. inquiry'.asks = q /\ inquiry'.listed = DOMAIN tree.scripts
      /\ inquiry'.at = CASE q.tool = "check" -> "graph" [] q.tool = "resolve" -> "scripts"
                         [] OTHER -> "properties"
  BY <1>1
<1>3. q.tool \in {"check", "resolve", "dependency"}
  BY <1>1 DEF SymbolQuestion
<1>4. inquiry'.at \in {"graph", "scripts", "properties"}
      /\ (inquiry'.at = "graph" => q.tool = "check")
      /\ (inquiry'.at = "scripts" => q.tool = "resolve")
      /\ (inquiry'.at = "properties" => q.tool = "dependency")
  BY <1>2, <1>3
<1>5. ScriptsSeen' <=> q.tool = "resolve"
  BY <1>1, <1>2 DEF ScriptsSeen
<1>6. PlaceRight'
  BY <1>2, <1>4, <1>5 DEF PlaceRight, InPlace
<1>7. BuildRight'
  BY <1>4, NothingAnswered
<1> QED
  BY <1>1, <1>2, <1>4, <1>6, <1>7 DEF BuildInv, InPlace

(* The build is edited while a question is under way. *)
LEMMA TreeEditKeeps ==
  ASSUME BuildInv, EditScripts PROVE BuildInv'
<1>1. /\ inquiry.at \in {"scripts", "probe", "modules", "poms"} /\ tree' \in BuildTrees
      /\ edited' = edited + 1 /\ UNCHANGED <<runtime, inquiry, evidence>>
  BY DEF EditScripts
<1>2. edited' \in Nat /\ edited' # 0 /\ tree' \in BuildTree /\ IsFiniteSet(tree'.cached)
  BY <1>1, BuildAssumption DEF BuildInv
<1>3. PlaceRight'
  BY <1>1, <1>2 DEF BuildInv, PlaceRight, InPlace, ScriptsSeen, PomsRead
<1>4. BuildRight'
  BY <1>1, NothingAnswered
<1> QED
  BY <1>1, <1>2, <1>3, <1>4 DEF BuildInv, InPlace

(* One build script is read. *)
LEMMA ReadScriptKeeps ==
  ASSUME BuildInv, NEW i, ReadScript(i) PROVE BuildInv'
<1>1. /\ inquiry.at = "scripts" /\ i \in inquiry.listed /\ UNCHANGED <<tree, runtime, inquiry, edited>>
      /\ evidence' = [j \in DOMAIN evidence \cup {i} |->
                         IF j # i THEN evidence[j]
                         ELSE IF i \in Readable THEN tree.scripts[i].declares ELSE {}]
  BY DEF ReadScript, InPlace
<1>2. ScriptsSeen
  BY <1>1 DEF BuildInv, PlaceRight, InPlace
<1>3. ScriptsSeen'
  BY <1>1, <1>2 DEF ScriptsSeen, Readable
<1>4. PlaceRight'
  BY <1>1, <1>3 DEF PlaceRight, InPlace
<1>5. BuildRight'
  BY <1>1, NothingAnswered
<1> QED
  BY <1>1, <1>4, <1>5 DEF BuildInv, InPlace

(* An answer about a symbol *)
LEMMA ReplyKeeps ==
  ASSUME BuildInv, NEW status, NEW by, Reply(status, by), inquiry.at # "idle",
         UNCHANGED <<tree, runtime, evidence, edited>>,
         RuntimeRight', DetectionRight', inquiry.asks.tool # "dependency"
  PROVE  BuildInv'
<1>1. inquiry'.at = "answered" /\ inquiry'.asks = inquiry.asks
  BY DEF Reply
<1>2. PlaceRight'
  BY <1>1 DEF PlaceRight, InPlace
<1>3. BuildRight'
  BY <1>1 DEF BuildRight, DependencyRight
<1> QED
  BY <1>1, <1>2, <1>3 DEF BuildInv, InPlace

(* A reply, field by field. *)
LEMMA ReplyIs ==
  ASSUME NEW status, NEW by, Reply(status, by)
  PROVE  /\ inquiry'.at = "answered" /\ inquiry'.asks = inquiry.asks
         /\ inquiry'.status = status /\ inquiry'.by = by
BY DEF Reply

(* What all scripts that were read declare is what those that can be read do. *)
LEMMA EvidenceIs ==
  ASSUME BuildInv, inquiry.at = "scripts", DOMAIN evidence = inquiry.listed, edited = 0
  PROVE  Declared = UNION {tree.scripts[i].declares : i \in Readable}
<1>1. /\ DOMAIN evidence = DOMAIN tree.scripts
      /\ \A i \in DOMAIN evidence :
            evidence[i] = IF tree.scripts[i].readable THEN tree.scripts[i].declares ELSE {}
  BY DEF BuildInv, PlaceRight, InPlace, ScriptsSeen
<1>2. ASSUME NEW x \in Declared PROVE x \in UNION {tree.scripts[i].declares : i \in Readable}
  <2>1. PICK i \in DOMAIN evidence : x \in evidence[i]
    BY DEF Declared
  <2>2. i \in Readable /\ x \in tree.scripts[i].declares
    BY <1>1, <2>1 DEF Readable
  <2> QED
    BY <2>2
<1>3. ASSUME NEW x \in UNION {tree.scripts[i].declares : i \in Readable} PROVE x \in Declared
  <2>1. PICK i \in Readable : x \in tree.scripts[i].declares
    OBVIOUS
  <2>2. i \in DOMAIN evidence /\ x \in evidence[i]
    BY <1>1, <2>1 DEF Readable
  <2> QED
    BY <2>2 DEF Declared
<1> QED
  BY <1>2, <1>3

(* All scripts were read: what they declare is weighed. *)
LEMMA WeighKeeps ==
  ASSUME BuildInv, WeighEvidence PROVE BuildInv'
<1>1. /\ inquiry.at = "scripts" /\ DOMAIN evidence = inquiry.listed
      /\ UNCHANGED <<tree, runtime, evidence, edited>>
  BY DEF WeighEvidence, InPlace
<1>2. inquiry.asks.tool = "resolve" /\ inquiry.asks \in SymbolQuestion
  BY <1>1 DEF BuildInv, PlaceRight, InPlace, ScriptsSeen
<1>3. CASE Declared = {} /\ ~runtime.obfuscated
  <2>1. inquiry' = [inquiry EXCEPT !.at = "probe"]
    BY <1>3 DEF WeighEvidence
  <2>2. inquiry'.at = "probe" /\ inquiry'.asks = inquiry.asks
    BY <1>1, <2>1, <1>2 DEF BuildInv
  <2>3. edited = 0 => NoneDeclares
    BY <1>1, <1>3, EvidenceIs DEF NoneDeclares
  <2>4. PlaceRight'
    BY <1>1, <1>2, <1>3, <2>2, <2>3 DEF PlaceRight, InPlace, NoneDeclares, Readable
  <2>5. BuildRight'
    BY <2>2, NothingAnswered
  <2> QED
    BY <1>1, <1>2, <2>2, <2>4, <2>5 DEF BuildInv, InPlace
<1>4. CASE ~(Declared = {} /\ ~runtime.obfuscated)
  <2> DEFINE Said(status, by) ==
        /\ Reply(status, by) /\ (by = "build" \/ by = "graph")
        /\ by = "build" => status = "mapping_unavailable"
        /\ by = "graph" => Cardinality(Declared) = 1
  <2>1. \E status, by : Said(status, by)
    <3>1. CASE Cardinality(Declared) # 1
      <4>1. Said("mapping_unavailable", "build")
        BY <1>4, <3>1 DEF WeighEvidence
      <4> QED
        BY <4>1
    <3>2. CASE Cardinality(Declared) = 1 /\ inquiry.asks.kind \in {"class", "short class"}
      <4>1. Said(IF runtime.graph = "resolved" THEN "resolved" ELSE "not_found", "graph")
        BY <1>4, <3>2 DEF WeighEvidence
      <4> QED
        BY <4>1
    <3>3. CASE Cardinality(Declared) = 1 /\ inquiry.asks.kind \notin {"class", "short class"}
      <4>1. Said(runtime.graph, "graph")
        BY <1>4, <3>3 DEF WeighEvidence
      <4> QED
        BY <4>1
    <3> QED
      BY <3>1, <3>2, <3>3
  <2>6. PICK status, by : Said(status, by)
    BY <2>1
  <2>2. /\ inquiry'.at = "answered" /\ inquiry'.asks = inquiry.asks
        /\ inquiry'.status = status /\ inquiry'.by = by
    BY <2>6, ReplyIs
  <2>3. RuntimeRight'
    BY <1>2, <2>6, <2>2 DEF RuntimeRight
  <2>4. DetectionRight'
    <3>1. edited = 0 /\ by = "graph" => Cardinality(UNION {tree.scripts[i].declares : i \in Readable}) = 1
      BY <1>1, <2>6, EvidenceIs
    <3> QED
      BY <1>1, <2>6, <2>2, <3>1 DEF DetectionRight, Readable
  <2> QED
    BY <1>1, <1>2, <2>6, <2>3, <2>4, ReplyKeeps
<1> QED
  BY <1>3, <1>4

(* Is there a build script at all? *)
LEMMA ProbeKeeps ==
  ASSUME BuildInv, ProbeScripts PROVE BuildInv'
<1>1. inquiry.at = "probe" /\ UNCHANGED <<tree, runtime, evidence, edited>>
  BY DEF ProbeScripts, InPlace
<1>2. /\ inquiry.asks.tool = "resolve" /\ inquiry.asks \in SymbolQuestion /\ ~runtime.obfuscated
      /\ edited = 0 => NoneDeclares
  BY <1>1 DEF BuildInv, PlaceRight, InPlace
<1>3. CASE ~BuildThere \/ inquiry.asks.label = "yarn"
  <2>1. PICK by : /\ Reply("mapping_unavailable", by) /\ (by = "build" \/ by = "identity")
                  /\ by = "identity" => BuildThere
    BY <1>3 DEF ProbeScripts
  <2>2. /\ inquiry'.at = "answered" /\ inquiry'.asks = inquiry.asks
        /\ inquiry'.status = "mapping_unavailable" /\ inquiry'.by = by
    BY <2>1, ReplyIs
  <2>3. RuntimeRight'
    BY <1>2, <2>1, <2>2 DEF RuntimeRight
  <2>4. DetectionRight'
    BY <1>1, <1>2, <2>1, <2>2 DEF DetectionRight, Readable, BuildThere, NoneDeclares
  <2> QED
    BY <1>1, <1>2, <2>1, <2>3, <2>4, ReplyKeeps
<1>4. CASE BuildThere /\ inquiry.asks.label # "yarn"
  <2>1. inquiry' = [at |-> "runtime", asks |-> inquiry.asks, base |-> "not_found"]
    BY <1>4 DEF ProbeScripts
  <2>2. inquiry'.at = "runtime" /\ inquiry'.asks = inquiry.asks /\ inquiry'.base = "not_found"
    BY <2>1
  <2>3. PlaceRight'
    BY <1>1, <1>2, <1>4, <2>2 DEF PlaceRight, InPlace, RuntimeAsked, NoneDeclares, Readable, BuildThere
  <2>4. BuildRight'
    BY <2>2, NothingAnswered
  <2> QED
    BY <1>1, <1>2, <2>2, <2>3, <2>4 DEF BuildInv, InPlace
<1> QED
  BY <1>3, <1>4

(* check-symbol-exists asks the mappings first. *)
LEMMA AskGraphKeeps ==
  ASSUME BuildInv, AskGraph PROVE BuildInv'
<1>1. inquiry.at = "graph" /\ UNCHANGED <<tree, runtime, evidence, edited>>
  BY DEF AskGraph, InPlace
<1>2. inquiry.asks.tool = "check" /\ inquiry.asks \in SymbolQuestion
  BY <1>1 DEF BuildInv, PlaceRight, InPlace
<1>3. CASE Rechecked(runtime.graph) /\ ~runtime.obfuscated /\ inquiry.asks.label # "yarn"
  <2>1. inquiry' = [at |-> "runtime", asks |-> inquiry.asks, base |-> runtime.graph]
    BY <1>3 DEF AskGraph
  <2>2. inquiry'.at = "runtime" /\ inquiry'.asks = inquiry.asks /\ inquiry'.base = runtime.graph
    BY <2>1
  <2>3. PlaceRight'
    BY <1>1, <1>2, <1>3, <2>2 DEF PlaceRight, InPlace, RuntimeAsked, Rechecked
  <2>4. BuildRight'
    BY <2>2, NothingAnswered
  <2> QED
    BY <1>1, <1>2, <2>2, <2>3, <2>4 DEF BuildInv, InPlace
<1>4. CASE ~(Rechecked(runtime.graph) /\ ~runtime.obfuscated /\ inquiry.asks.label # "yarn")
  <2>1. Reply(runtime.graph, "graph")
    BY <1>4 DEF AskGraph
  <2>2. /\ inquiry'.at = "answered" /\ inquiry'.asks = inquiry.asks
        /\ inquiry'.status = runtime.graph /\ inquiry'.by = "graph"
    BY <2>1, ReplyIs
  <2>3. RuntimeRight'
    BY <1>1, <1>2, <1>4, <2>2 DEF RuntimeRight, Rechecked
  <2>4. DetectionRight'
    BY <1>2, <2>2 DEF DetectionRight
  <2> QED
    BY <1>1, <1>2, <2>1, <2>3, <2>4, ReplyKeeps
<1> QED
  BY <1>3, <1>4

(* The bytecode of the runtime jar is asked. *)
LEMMA CheckRuntimeKeeps ==
  ASSUME BuildInv, CheckRuntime PROVE BuildInv'
<1>1. inquiry.at = "runtime" /\ UNCHANGED <<tree, runtime, evidence, edited>>
  BY DEF CheckRuntime, InPlace
<1>2. RuntimeAsked /\ inquiry.asks \in SymbolQuestion
  BY <1>1 DEF BuildInv, PlaceRight, InPlace
<1>3. PICK q : q = inquiry.asks
  OBVIOUS
<1>4. /\ q.kind \in {"class", "short class", "field", "method"} /\ q.tool \in {"check", "resolve"}
      /\ runtime.class \in {"present", "missing", "broken"}
  BY <1>2, <1>3 DEF BuildInv, SymbolQuestion, Runtime, RuntimeAsked
<1>5. MatchedMethods(q) # {} <=>
         \E m \in runtime.methods : /\ m.name = q.name /\ (m.own \/ q.name # "init")
                                    /\ q.exact => m.descriptor = q.descriptor
  BY DEF MatchedMethods, MethodsListed
<1> DEFINE Found(found) == IF found THEN "resolved" ELSE "not_found"
           Looked ==
             CASE q.kind = "class" -> "resolved"
               [] q.kind = "field" -> Found(q.name \in runtime.fields)
               [] q.kind = "method" -> Found(MatchedMethods(q) # {})
           Said(status, by) ==
             /\ Reply(status, by) /\ by \in {"nothing", "runtime"}
             /\ by = "nothing" =>
                  ~CanVerify(q) /\ (q.tool = "resolve" => status = "mapping_unavailable")
             /\ by = "runtime" => CanVerify(q)
             /\ by = "runtime" /\ runtime.class = "missing" => status = inquiry.base
             /\ by = "runtime" /\ runtime.class # "missing" => status = Looked
<1>12. \E status, by : Said(status, by)
  <2>1. CASE ~CanVerify(q)
    <3>1. Said(IF q.tool = "resolve" THEN "mapping_unavailable" ELSE inquiry.base, "nothing")
      BY <1>3, <2>1 DEF CheckRuntime
    <3> QED
      BY <3>1
  <2>2. CASE CanVerify(q) /\ runtime.class = "missing"
    <3>1. Said(inquiry.base, "runtime")
      BY <1>3, <2>2 DEF CheckRuntime
    <3> QED
      BY <3>1
  <2>3. CASE CanVerify(q) /\ runtime.class # "missing"
    <3>1. Said(Looked, "runtime")
      BY <1>3, <2>3 DEF CheckRuntime
    <3> QED
      BY <3>1
  <2> QED
    BY <2>1, <2>2, <2>3
<1>6. PICK status, by : Said(status, by)
  BY <1>12
<1>7. /\ inquiry'.at = "answered" /\ inquiry'.asks = q
      /\ inquiry'.status = status /\ inquiry'.by = by
  BY <1>3, <1>6, ReplyIs
<1>8. by = "runtime" => /\ status = "resolved" => Ships(q)
                        /\ status = "not_found" => ~Ships(q)
                        /\ runtime.served /\ runtime.class # "broken"
  <2> SUFFICES ASSUME by = "runtime"
               PROVE  /\ status = "resolved" => Ships(q)
                      /\ status = "not_found" => ~Ships(q)
                      /\ runtime.served /\ runtime.class # "broken"
    OBVIOUS
  <2>1. CanVerify(q)
    BY <1>6
  <2>2. q.kind # "short class" /\ runtime.served /\ runtime.class # "broken"
    BY <2>1 DEF CanVerify
  <2>3. CASE runtime.class = "missing"
    <3>1. status = inquiry.base
      BY <1>6, <2>3
    <3> QED
      BY <2>2, <2>3, <3>1, <1>2 DEF Ships, RuntimeAsked
  <2>4. CASE runtime.class = "present" /\ q.kind = "class"
    BY <1>6, <2>2, <2>4 DEF Ships
  <2>5. CASE runtime.class = "present" /\ q.kind = "field"
    BY <1>6, <2>2, <2>5 DEF Ships
  <2>6. CASE runtime.class = "present" /\ q.kind = "method"
    BY <1>5, <1>6, <2>2, <2>6 DEF Ships
  <2> QED
    BY <1>4, <2>2, <2>3, <2>4, <2>5, <2>6
<1>9. RuntimeRight'
  <2>1. Ships(q)' <=> Ships(q)
    BY <1>1 DEF Ships
  <2>2. CanVerify(q)' <=> CanVerify(q)
    BY <1>1 DEF CanVerify
  <2> QED
    BY <1>1, <1>6, <1>7, <1>8, <2>1, <2>2 DEF RuntimeRight
<1>10. DetectionRight'
  BY <1>1, <1>2, <1>3, <1>6, <1>7 DEF DetectionRight, RuntimeAsked, NoneDeclares, Readable
<1>11. q.tool # "dependency"
  BY <1>4
<1> QED
  BY <1>1, <1>3, <1>6, <1>9, <1>10, <1>11, ReplyKeeps

(* A version of a dependency *)
DependsRight(version) ==
    edited = 0 =>
        /\ version # 0 /\ version # tree.own =>
              /\ tree.own = 0 /\ version \in ReleasesIn(tree)
              /\ Cardinality(ReleasesIn(tree)) > 1 =>
                    tree.umbrella # 0 /\ \E i \in DOMAIN tree.poms : tree.poms[i] = version
        /\ version = 0 /\ tree.own = 0 => Cardinality(ReleasesIn(tree)) # 1

(* The version of a dependency is answered. *)
LEMMA DependsKeeps ==
  ASSUME BuildInv, NEW version, NEW from, Depends(version, from), inquiry.at # "idle",
         UNCHANGED <<tree, runtime, evidence, edited>>,
         DependsRight(version), inquiry.asks.tool = "dependency"
  PROVE  BuildInv'
<1>1. /\ inquiry'.at = "answered" /\ inquiry'.asks = inquiry.asks /\ inquiry'.version = version
  BY DEF Depends
<1>2. PlaceRight'
  BY <1>1 DEF PlaceRight, InPlace
<1>3. RuntimeRight' /\ DetectionRight'
  BY <1>1 DEF RuntimeRight, DetectionRight, SymbolReplied, InPlace
<1>4. DependencyRight'
  BY <1>1 DEF DependencyRight, DependsRight, ReleasesIn
<1> QED
  BY <1>1, <1>2, <1>3, <1>4 DEF BuildInv, InPlace, BuildRight

(* gradle.properties may name the version. *)
LEMMA ReadPropertiesKeeps ==
  ASSUME BuildInv, ReadProperties PROVE BuildInv'
<1>1. inquiry.at = "properties" /\ UNCHANGED <<tree, runtime, evidence, edited>>
  BY DEF ReadProperties, InPlace
<1>2. inquiry.asks.tool = "dependency" /\ inquiry.asks \in SymbolQuestion
  BY <1>1 DEF BuildInv, PlaceRight, InPlace
<1>3. CASE tree.own # 0
  <2>1. Depends(tree.own, "properties")
    BY <1>3 DEF ReadProperties
  <2>2. DependsRight(tree.own)
    BY <1>3 DEF DependsRight
  <2> QED
    BY <1>1, <1>2, <2>1, <2>2, DependsKeeps
<1>4. CASE tree.own = 0
  <2>1. inquiry' = [at |-> "modules", asks |-> inquiry.asks, umbrella |-> tree.umbrella]
    BY <1>4 DEF ReadProperties
  <2>2. inquiry'.at = "modules" /\ inquiry'.asks = inquiry.asks /\ inquiry'.umbrella = tree.umbrella
    BY <2>1
  <2>3. PlaceRight'
    BY <1>1, <1>2, <1>4, <2>2 DEF PlaceRight, InPlace
  <2>4. BuildRight'
    BY <2>2, NothingAnswered
  <2> QED
    BY <1>1, <1>2, <2>2, <2>3, <2>4 DEF BuildInv, InPlace
<1> QED
  BY <1>3, <1>4

(* The versions in the cache of Gradle that are no snapshots *)
LEMMA ReleasesFinite ==
  ASSUME BuildInv
  PROVE  /\ ReleasesIn(tree) \subseteq Nat \ {0} /\ IsFiniteSet(ReleasesIn(tree))
         /\ Cardinality(ReleasesIn(tree)) \in Nat
<1>1. ReleasesIn(tree) \subseteq tree.cached /\ tree.cached \subseteq Nat \ {0} /\ IsFiniteSet(tree.cached)
  BY DEF BuildInv, BuildTree, ReleasesIn
<1> QED
  BY <1>1, FS_Subset, FS_CardinalityType

(* The cache may have one release only. *)
LEMMA ListModulesKeeps ==
  ASSUME BuildInv, ListModules PROVE BuildInv'
<1>1. inquiry.at = "modules" /\ UNCHANGED <<tree, runtime, evidence, edited>>
  BY DEF ListModules, InPlace
<1>2. /\ inquiry.asks.tool = "dependency" /\ inquiry.asks \in SymbolQuestion
      /\ edited = 0 => tree.own = 0 /\ inquiry.umbrella = tree.umbrella
  BY <1>1 DEF BuildInv, PlaceRight, InPlace
<1>3. PICK candidates : candidates = ReleasesIn(tree)
  OBVIOUS
<1>4. /\ candidates \subseteq Nat \ {0} /\ IsFiniteSet(candidates) /\ Cardinality(candidates) \in Nat
  BY <1>3, ReleasesFinite
<1>5. IF Cardinality(candidates) = 1 THEN Depends(CHOOSE v \in candidates : TRUE, "cache")
      ELSE IF candidates = {} \/ inquiry.umbrella = 0 THEN Depends(0, "nothing")
      ELSE inquiry' = [at |-> "poms", asks |-> inquiry.asks, candidates |-> candidates, next |-> 1]
  BY <1>3 DEF ListModules, ReleasesIn
<1>6. CASE Cardinality(candidates) = 1
  <2>1. PICK v : v = CHOOSE w \in candidates : TRUE
    OBVIOUS
  <2>2. candidates # {}
    BY <1>6, FS_EmptySet
  <2>3. v \in candidates
    BY <2>1, <2>2
  <2>4. Depends(v, "cache")
    BY <1>5, <1>6, <2>1
  <2>5. DependsRight(v)
    BY <1>2, <1>3, <1>4, <1>6, <2>3 DEF DependsRight
  <2> QED
    BY <1>1, <1>2, <2>4, <2>5, DependsKeeps
<1>7. CASE Cardinality(candidates) # 1 /\ (candidates = {} \/ inquiry.umbrella = 0)
  <2>1. Depends(0, "nothing")
    BY <1>5, <1>7
  <2>2. DependsRight(0)
    BY <1>3, <1>7 DEF DependsRight
  <2> QED
    BY <1>1, <1>2, <2>1, <2>2, DependsKeeps
<1>8. CASE Cardinality(candidates) # 1 /\ candidates # {} /\ inquiry.umbrella # 0
  <2>1. inquiry' = [at |-> "poms", asks |-> inquiry.asks, candidates |-> candidates, next |-> 1]
    BY <1>5, <1>8
  <2>2. /\ inquiry'.at = "poms" /\ inquiry'.asks = inquiry.asks /\ inquiry'.candidates = candidates
        /\ inquiry'.next = 1
    BY <2>1
  <2>3. PomsRead'
    BY <1>1, <1>2, <1>3, <1>8, <2>2 DEF PomsRead, ReleasesIn
  <2>4. PlaceRight'
    BY <2>2, <2>3 DEF PlaceRight, InPlace
  <2>5. BuildRight'
    BY <2>2, NothingAnswered
  <2> QED
    BY <1>1, <1>2, <2>2, <2>4, <2>5 DEF BuildInv, InPlace
<1> QED
  BY <1>6, <1>7, <1>8

(* The POM of the umbrella may name the release. *)
LEMMA ReadPomKeeps ==
  ASSUME BuildInv, ReadPom PROVE BuildInv'
<1>1. inquiry.at = "poms" /\ UNCHANGED <<tree, runtime, evidence, edited>>
  BY DEF ReadPom, InPlace
<1>2. PomsRead /\ inquiry.asks \in SymbolQuestion
  BY <1>1 DEF BuildInv, PlaceRight, InPlace
<1>3. tree.poms \in Seq(Nat)
  BY DEF BuildInv, BuildTree
<1>4. CASE inquiry.next > Len(tree.poms)
  <2>1. Depends(0, "nothing") /\ DependsRight(0)
    BY <1>2, <1>4 DEF ReadPom, DependsRight, PomsRead
  <2> QED
    BY <1>1, <1>2, <2>1, DependsKeeps DEF PomsRead
<1>5. CASE ~(inquiry.next > Len(tree.poms)) /\ tree.poms[inquiry.next] = 0
  <2>1. inquiry' = [inquiry EXCEPT !.next = inquiry.next + 1]
    BY <1>5 DEF ReadPom
  <2>2. /\ inquiry'.at = inquiry.at /\ inquiry'.asks = inquiry.asks
        /\ inquiry'.candidates = inquiry.candidates
    BY <2>1
  <2>3. inquiry'.next \in Nat \ {0}
    BY <1>2, <2>1 DEF PomsRead
  <2>4. PomsRead'
    BY <1>1, <1>2, <2>2, <2>3 DEF PomsRead, ReleasesIn
  <2>5. PlaceRight'
    BY <1>1, <2>2, <2>4 DEF PlaceRight, InPlace
  <2>6. BuildRight'
    BY <1>1, <2>2, NothingAnswered
  <2> QED
    BY <1>1, <1>2, <2>2, <2>5, <2>6 DEF BuildInv, InPlace
<1>6. CASE ~(inquiry.next > Len(tree.poms)) /\ tree.poms[inquiry.next] # 0
  <2>1. PICK i : i = inquiry.next
    OBVIOUS
  <2>2. i \in DOMAIN tree.poms
    BY <1>2, <1>3, <1>6, <2>1 DEF PomsRead
  <2>3. CASE tree.poms[i] \in inquiry.candidates
    <3>1. Depends(tree.poms[i], "pom")
      BY <1>6, <2>1, <2>3 DEF ReadPom, Adopts
    <3>2. DependsRight(tree.poms[i])
      BY <1>2, <2>2, <2>3 DEF DependsRight, PomsRead
    <3> QED
      BY <1>1, <1>2, <3>1, <3>2, DependsKeeps DEF PomsRead
  <2>4. CASE tree.poms[i] \notin inquiry.candidates
    <3>1. Depends(0, "nothing") /\ DependsRight(0)
      BY <1>2, <1>6, <2>1, <2>4 DEF ReadPom, Adopts, DependsRight, PomsRead
    <3> QED
      BY <1>1, <1>2, <3>1, DependsKeeps DEF PomsRead
  <2> QED
    BY <2>3, <2>4
<1> QED
  BY <1>4, <1>5, <1>6

(* No question was asked yet. *)
LEMMA BuildStarts == BuildInit => BuildInv
<1> SUFFICES ASSUME BuildInit PROVE BuildInv
  OBVIOUS
<1>1. tree \in BuildTree /\ IsFiniteSet(tree.cached) /\ runtime \in Runtime /\ edited \in Nat
  BY BuildAssumption DEF BuildInit
<1>2. inquiry.at = "idle" /\ evidence = <<>>
  BY DEF BuildInit, NoInquiry
<1> QED
  BY <1>1, <1>2 DEF BuildInv, PlaceRight, InPlace, BuildRight, RuntimeRight, DetectionRight,
                    DependencyRight, SymbolReplied

(* A step of another part. *)
LEMMA BuildStutters ==
  ASSUME BuildInv, UNCHANGED buildVars PROVE BuildInv'
<1>1. UNCHANGED <<tree, runtime, inquiry, evidence, edited>>
  BY DEF buildVars
<1>2. PlaceRight'
  BY <1>1 DEF BuildInv, PlaceRight, InPlace, ScriptsSeen, NoneDeclares, Readable, RuntimeAsked,
              ReleasesIn, PomsRead
<1>3. RuntimeRight'
  BY <1>1 DEF BuildInv, BuildRight, RuntimeRight, SymbolReplied, InPlace, Ships, CanVerify
<1>4. DetectionRight'
  BY <1>1 DEF BuildInv, BuildRight, DetectionRight, SymbolReplied, InPlace, Readable
<1>5. DependencyRight'
  BY <1>1 DEF BuildInv, BuildRight, DependencyRight, InPlace
<1> QED
  BY <1>1, <1>2, <1>3, <1>4, <1>5 DEF BuildInv, InPlace, BuildRight

(* Every step keeps the invariant. *)
LEMMA BuildKept ==
  ASSUME BuildInv, [BuildNext]_buildVars PROVE BuildInv'
BY AskKeeps, ReadScriptKeeps, WeighKeeps, ProbeKeeps, AskGraphKeeps, CheckRuntimeKeeps,
   ReadPropertiesKeeps, ListModulesKeeps, ReadPomKeeps, TreeEditKeeps, BuildStutters DEF BuildNext

(* What the bytecode is asked it answers in truth, the mappings of a build are those that its
   scripts declare, and no version of a dependency is guessed: of any workspaces, versions
   and questions (resolveWorkspaceSymbol, checkSymbolExists, detectDependencyVersion). *)
THEOREM BuildAlwaysRight == BuildSpec => []BuildRight
<1>1. BuildInv => BuildRight
  BY DEF BuildInv
<1> QED
  BY BuildStarts, BuildKept, <1>1, PTL DEF BuildSpec

-----------------------------------------------------------------------------
(* What is known of a target that was looked up *)
RemapOutcomes(t) == [IF t \in DOMAIN Classes THEN Classes[t] ELSE {} -> Remaps]
Looks == [target : STRING, mapped : BOOLEAN,
          signature : {"exists", "missing", "unknown", "loaded"}, whole : BOOLEAN,
          remaps : UNION {RemapOutcomes(t) : t \in STRING}]
PassStates == [priority : {"loom-first", "maven-first"}, retry : BOOLEAN,
           lookup : {"none", "same", "remapped", "other"},
           applied : {"requested", "other", "lookup"},
           healthy : BOOLEAN, remappable : BOOLEAN, exhausted : BOOLEAN]

(* The targets are looked up in order; what is loaded is a class; and where a whole
   signature was not remapped, the run knows that its names are not those asked for. *)
LookRight(i) ==
    /\ looked[i].target = mixin.targets[i] /\ looked[i].remaps \in RemapOutcomes(mixin.targets[i])
    /\ looked[i].signature = "loaded" => mixin.targets[i] \in DOMAIN Classes
    /\ looked[i].whole => pass.applied # "requested"

LooksRight ==
    /\ looked \in Seq(Looks) /\ Len(looked) <= Len(mixin.targets)
    /\ \A i \in 1 .. Len(looked) : LookRight(i)

(* There is no answer before the end, and nothing was looked up for an earlier run. *)
AnswerRight ==
    /\ stage \in {"resolve", "health", "targets", "answered"}
    /\ stage \in {"resolve", "health"} => looked = <<>>
    /\ stage # "answered" => given = None
    /\ earlier.status \in {"none", "partial"}
    /\ given.status \in {"none", "error", "invalid", "partial", "full"}

(* The invariant of a validation *)
MixinInv ==
    /\ IsMixin(mixin) /\ pass \in PassStates /\ choice \in Filters \cup {None}
    /\ LooksRight /\ AnswerRight /\ FullIsTrue

(* The types of what is validated. *)
LEMMA MixinIs == MixinInv => IsMixin(mixin) /\ mixin.targets \in Seq(STRING)
BY DEF MixinInv, IsMixin

-----------------------------------------------------------------------------
(* What the issues say, in any state of the invariant *)
LEMMA KnownIs ==
  ASSUME NEW t, LookedUp(t)
  PROVE  \E i \in DOMAIN looked : looked[i].target = t /\ Known(t) = looked[i]
<1> DEFINE i == CHOOSE j \in DOMAIN looked : looked[j].target = t
<1>1. i \in DOMAIN looked /\ looked[i].target = t
  BY DEF LookedUp
<1> QED
  BY <1>1 DEF Known

(* A target that was loaded is a class and was looked up. *)
LEMMA LoadedIs ==
  ASSUME MixinInv, NEW t, Loaded(t)
  PROVE  /\ LookedUp(t) /\ t \in DOMAIN Classes /\ Known(t).remaps \in [Classes[t] -> Remaps]
         /\ Known(t).whole => pass.applied # "requested"
         /\ \E i \in DOMAIN looked : looked[i].target = t /\ Known(t) = looked[i]
<1>1. looked \in Seq(Looks) /\ \A i \in 1 .. Len(looked) : LookRight(i)
  BY DEF MixinInv, LooksRight
<1>2. DOMAIN looked = 1 .. Len(looked)
  BY <1>1
<1>3. PICK i \in DOMAIN looked : looked[i].target = t /\ looked[i].signature = "loaded"
  BY DEF Loaded
<1>4. t \in DOMAIN Classes
  BY <1>1, <1>2, <1>3 DEF LookRight
<1>5. LookedUp(t)
  BY <1>3 DEF LookedUp
<1>6. PICK j \in DOMAIN looked : looked[j].target = t /\ Known(t) = looked[j]
  BY <1>5, KnownIs
<1>7. LookRight(j)
  BY <1>1, <1>2, <1>6
<1>8. mixin.targets[j] = t
  BY <1>6, <1>7 DEF LookRight
<1>9. looked[j].remaps \in [Classes[t] -> Remaps] /\ (looked[j].whole => pass.applied # "requested")
  BY <1>4, <1>7, <1>8 DEF LookRight, RemapOutcomes
<1> QED
  BY <1>4, <1>5, <1>6, <1>9

(* The members of the class that a member of the mixin may mean *)
MembersAsked(m, t) == {c \in Classes[t] : c.kind = m.kind /\ c.name \in m.names}

(* When a member of the mixin really has what it names. *)
LEMMA ReallyIs ==
  ASSUME NEW m, NEW t, m.form \in Forms
  PROVE  Really(m, t) <=> /\ t \in DOMAIN Classes
                          /\ \/ m.form = "pattern"
                             \/ m.form = "once" /\ MembersAsked(m, t) # {}
                             \/ m.form = "twice" /\ Cardinality(MembersAsked(m, t)) >= 2
                             \/ m.form = "described" /\ \E c \in MembersAsked(m, t) : c.descriptor = m.descriptor
BY DEF Really, MembersAsked, Forms

(* When a member of the mixin is taken to have what it names. *)
LEMMA MatchIs ==
  ASSUME NEW m, NEW t, m.form \in Forms
  PROVE  /\ MatchOf(m, t) \in {"skipped", "resolved", "not-found"}
         /\ MatchOf(m, t) = "skipped" <=> m.form = "pattern"
         /\ MatchOf(m, t) = "resolved" <=>
               \/ m.form = "once" /\ Matches(m, t) # {}
               \/ m.form = "twice" /\ Cardinality(Matches(m, t)) >= 2
               \/ m.form = "described" /\ \E l \in Matches(m, t) : l.descriptor = m.descriptor
BY DEF MatchOf, Forms

(* What matches is a member that is there, when none is mistaken for another. *)
LEMMA MatchesReal ==
  ASSUME NEW m, NEW t, ~MistakenFor(m, t), NEW l \in Matches(m, t), Fits(l, m)
  PROVE  \E c \in MembersAsked(m, t) : l = Listed(c, Known(t).remaps[c]) /\ Fits(c, m)
<1>1. PICK c \in Classes[t] : l = Listed(c, Known(t).remaps[c])
  BY DEF Matches, MembersOf
<1>2. Fits(c, m)
  BY <1>1 DEF MistakenFor
<1> QED
  BY <1>1, <1>2 DEF MembersAsked, Fits

(* What was kept matches. *)
LEMMA RealMatches ==
  ASSUME MixinInv, NEW m \in mixin.members, NEW t, Loaded(t), NEW c \in MembersAsked(m, t),
         Known(t).remaps[c] = "kept"
  PROVE  /\ Listed(c, "kept") \in Matches(m, t)
         /\ Listed(c, "kept") = [name |-> c.name, kind |-> c.kind, descriptor |-> c.descriptor]
<1>1. Listed(c, "kept") = [name |-> c.name, kind |-> c.kind, descriptor |-> c.descriptor]
  BY DEF Listed
<1>2. Listed(c, "kept") \in MembersOf(t)
  BY DEF MembersOf, MembersAsked
<1> QED
  BY <1>1, <1>2 DEF Matches, MembersAsked

(* A class has finitely many members. *)
LEMMA MatchesFinite ==
  ASSUME MixinInv, NEW m \in mixin.members, NEW t, Loaded(t)
  PROVE  /\ IsFiniteSet(Matches(m, t)) /\ IsFiniteSet(MembersAsked(m, t))
         /\ Cardinality(Matches(m, t)) \in Nat /\ Cardinality(MembersAsked(m, t)) \in Nat
<1>1. IsFiniteSet(Classes[t])
  BY LoadedIs, MixinAssumption DEF IsClass
<1>2. IsFiniteSet(MembersAsked(m, t))
  BY <1>1, FS_Subset DEF MembersAsked
<1> DEFINE f == [c \in Classes[t] |-> Listed(c, Known(t).remaps[c])]
<1>3. f \in Surjection(Classes[t], MembersOf(t))
  BY DEF MembersOf, Surjection
<1>4. IsFiniteSet(MembersOf(t))
  BY <1>1, <1>3, FS_Surjection
<1>5. IsFiniteSet(Matches(m, t))
  BY <1>4, FS_Subset DEF Matches
<1> QED
  BY <1>2, <1>5, FS_CardinalityType

(* As many members as match are there. *)
LEMMA NoMoreMatch ==
  ASSUME MixinInv, NEW m \in mixin.members, NEW t, Loaded(t), ~MistakenFor(m, t),
         m.form # "described"
  PROVE  Cardinality(Matches(m, t)) <= Cardinality(MembersAsked(m, t))
<1> DEFINE f == [l \in Matches(m, t) |->
                    CHOOSE c \in MembersAsked(m, t) : l = Listed(c, Known(t).remaps[c])]
<1>1. ASSUME NEW l \in Matches(m, t)
      PROVE  f[l] \in MembersAsked(m, t) /\ l = Listed(f[l], Known(t).remaps[f[l]])
  <2>1. \E c \in MembersAsked(m, t) : l = Listed(c, Known(t).remaps[c])
    <3>1. Fits(l, m)
      BY DEF Matches, Fits
    <3> QED
      BY <3>1, MatchesReal
  <2>2. f[l] = CHOOSE c \in MembersAsked(m, t) : l = Listed(c, Known(t).remaps[c])
    OBVIOUS
  <2> QED
    BY <2>1, <2>2, Zenon
<1>2. f \in [Matches(m, t) -> MembersAsked(m, t)]
  BY <1>1
<1> HIDE DEF f
<1>3. f \in Injection(Matches(m, t), MembersAsked(m, t))
  BY <1>1, <1>2 DEF Injection, IsInjective
<1> QED
  BY <1>3, MatchesFinite, FS_Injection

(* As many members as were kept match. *)
LEMMA NoFewerMatch ==
  ASSUME MixinInv, NEW m \in mixin.members, NEW t, Loaded(t),
         \A c \in MembersAsked(m, t) : Known(t).remaps[c] = "kept"
  PROVE  Cardinality(MembersAsked(m, t)) <= Cardinality(Matches(m, t))
<1> DEFINE f == [c \in MembersAsked(m, t) |-> Listed(c, "kept")]
<1>1. f \in [MembersAsked(m, t) -> Matches(m, t)]
  BY RealMatches
<1>2. \A c \in MembersAsked(m, t) : f[c] = [name |-> c.name, kind |-> c.kind, descriptor |-> c.descriptor]
  BY RealMatches
<1>3. \A c, d \in MembersAsked(m, t) : f[c] = f[d] => c.name = d.name /\ c.kind = d.kind /\ c.descriptor = d.descriptor
  BY <1>2
<1>4. IsClass(Classes[t])
  BY LoadedIs, MixinAssumption
<1>5. \A c, d \in MembersAsked(m, t) : f[c] = f[d] => c = d
  BY <1>3, <1>4 DEF IsClass, MembersAsked
<1> HIDE DEF f
<1>6. f \in Injection(MembersAsked(m, t), Matches(m, t))
  BY <1>1, <1>5 DEF Injection, IsInjective
<1> QED
  BY <1>6, MatchesFinite, FS_Injection

(* The issues and whom they are about *)
LEMMA IssuesAre ==
  ASSUME NEW i \in Issues
  PROVE  \/ \E t \in Range(mixin.targets) : i \in TargetIssue(t)
         \/ \E p \in Places : Loaded(p[2]) /\ i \in MemberIssue(p[1], p[2])
         \/ i.about = {} /\ i.target = "file"
<1>1. CASE i \in UNION {TargetIssue(t) : t \in Range(mixin.targets) \ TargetsLoaded}
  BY <1>1
<1>2. CASE i \in UNION {MemberIssue(p[1], p[2]) : p \in {q \in Places : Loaded(q[2])}}
  BY <1>2
<1>3. CASE i \in IF mixin.unread THEN {Issue({}, "file", "warning", "uncertain", "none", "parse")} ELSE {}
  BY <1>3 DEF Issue
<1> QED
  BY <1>1, <1>2, <1>3 DEF Issues

(* An issue about a target is about none of the members. *)
LEMMA TargetIssueIs ==
  ASSUME NEW t, NEW i \in TargetIssue(t)
  PROVE  LookedUp(t) /\ i.about = {} /\ i.target = t
BY DEF TargetIssue, Issue

(* An issue about a member comes from a lookup that failed. *)
LEMMA MemberIssueIs ==
  ASSUME NEW m, NEW t, NEW i \in MemberIssue(m, t)
  PROVE  /\ i.about = {m} /\ i.target = t /\ MatchOf(m, t) = "not-found"
         /\ i.confidence \in {"likely", "uncertain", Sureness}
         /\ i.confidence = "likely" => i.severity = "warning" \/ Sureness = "likely"
BY DEF MemberIssue, Issue

(* A definite error is right, unless the remap lost the name silently. *)
LEMMA HedgedIs == MixinInv => ErrorsHedged
<1> SUFFICES ASSUME MixinInv, NEW i \in Issues, NEW m \in i.about,
                    Really(m, i.target), i.confidence = "definite"
             PROVE  LostSilently(m, i.target)
  BY DEF ErrorsHedged
<1>1. PICK p \in Places : Loaded(p[2]) /\ i \in MemberIssue(p[1], p[2])
  BY IssuesAre, TargetIssueIs
<1>2. PICK t : t = p[2]
  OBVIOUS
<1>3. m = p[1] /\ i.target = t /\ Loaded(t) /\ MatchOf(m, t) = "not-found" /\ Sureness = "definite"
  BY <1>1, <1>2, MemberIssueIs
<1>4. m \in mixin.members
  BY <1>3 DEF Places
<1>5. m.form \in Forms
  BY <1>4, MixinIs DEF IsMixin
<1>6. PICK j \in DOMAIN looked : looked[j].target = t /\ Known(t) = looked[j]
  BY <1>3, LoadedIs
<1>7. pass.applied = "requested" /\ ~(Loaded(looked[j].target) /\ ~looked[j].whole /\ Unremapped(looked[j].target) # {})
  BY <1>3 DEF Sureness
<1>8. Unremapped(t) = {}
  BY <1>3, <1>6, <1>7, LoadedIs
<1>9. SUFFICES ASSUME ~LostSilently(m, t) PROVE FALSE
  BY <1>3
<1>10. \A c \in MembersAsked(m, t) : Known(t).remaps[c] = "kept"
  <2> TAKE c \in MembersAsked(m, t)
  <2>1. c \in Classes[t] /\ c.kind = m.kind /\ c.name \in m.names
    BY DEF MembersAsked
  <2>2. Known(t).remaps[c] \in Remaps
    BY <1>3, <2>1, LoadedIs
  <2>3. /\ Known(t).remaps[c] \notin {"guessed", "undescribed"}
        /\ ~(c.synthetic /\ Known(t).remaps[c] = "unremapped")
    BY <1>9, <2>1 DEF LostSilently, Silently
  <2>4. ~(Known(t).remaps[c] = "unremapped" /\ ~c.synthetic)
    BY <1>8, <2>1 DEF Unremapped
  <2> QED
    BY <2>2, <2>3, <2>4 DEF Remaps
<1>11. MatchOf(m, t) = "resolved" \/ MatchOf(m, t) = "skipped"
  <2>1. Really(m, t)
    BY <1>3
  <2>2. CASE m.form = "pattern"
    BY <1>5, <2>2, MatchIs
  <2>3. CASE m.form = "once" /\ MembersAsked(m, t) # {}
    BY <1>3, <1>4, <1>5, <1>10, <2>3, MatchIs, RealMatches
  <2>4. CASE m.form = "twice" /\ Cardinality(MembersAsked(m, t)) >= 2
    <3>1. Cardinality(Matches(m, t)) >= 2
      BY <1>3, <1>4, <1>10, <2>4, NoFewerMatch, MatchesFinite
    <3> QED
      BY <1>5, <2>4, <3>1, MatchIs
  <2>5. CASE m.form = "described" /\ \E c \in MembersAsked(m, t) : c.descriptor = m.descriptor
    <3>1. PICK c \in MembersAsked(m, t) : c.descriptor = m.descriptor
      BY <2>5
    <3>2. Listed(c, "kept") \in Matches(m, t) /\ Listed(c, "kept").descriptor = m.descriptor
      BY <1>3, <1>4, <1>10, <3>1, RealMatches
    <3> QED
      BY <1>5, <2>5, <3>2, MatchIs
  <2> QED
    BY <1>5, <2>1, <2>2, <2>3, <2>4, <2>5, ReallyIs
<1> QED
  BY <1>3, <1>11

(* A result that is full and hides nothing has every member found. *)
LEMMA FullResult ==
  ASSUME MixinInv, AtEnd, NEW filters \in Filters, Result(filters).status = "full",
         filters.minSeverity = "all", ~filters.hideUncertain
  PROVE  /\ Range(mixin.targets) \subseteq DOMAIN Classes /\ ~pass.exhausted
         /\ \A p \in Places : Really(p[1], p[2]) \/ MistakenFor(p[1], p[2])
<1>1. StatusOf(Judged(filters)) = "full"
  BY DEF Result
<1>2. Judged(filters) = {} /\ Skipped = {} /\ ~pass.exhausted
  BY <1>1 DEF StatusOf
<1>3. Judged(filters) = Issues
  BY DEF Judged
<1>4. Issues = {}
  BY <1>2, <1>3
<1>5. looked \in Seq(Looks) /\ \A i \in 1 .. Len(looked) : LookRight(i)
  BY DEF MixinInv, LooksRight
<1>6. Len(looked) = Len(mixin.targets) /\ DOMAIN looked = 1 .. Len(looked)
  BY <1>2, <1>5 DEF AtEnd
<1>7. \A t \in Range(mixin.targets) : LookedUp(t)
  <2> TAKE t \in Range(mixin.targets)
  <2>1. PICK i \in DOMAIN mixin.targets : mixin.targets[i] = t
    BY DEF Range
  <2>2. i \in 1 .. Len(looked)
    BY <1>6, <2>1, MixinIs
  <2>3. looked[i].target = t
    BY <1>5, <2>1, <2>2 DEF LookRight
  <2> QED
    BY <1>6, <2>2, <2>3 DEF LookedUp
<1>8. \A t \in Range(mixin.targets) : Loaded(t)
  <2> SUFFICES ASSUME NEW t \in Range(mixin.targets), ~Loaded(t) PROVE FALSE
    OBVIOUS
  <2>1. TargetIssue(t) # {}
    BY <1>7 DEF TargetIssue
  <2>2. TargetIssue(t) \subseteq Issues
    BY DEF Issues, TargetsLoaded
  <2> QED
    BY <1>4, <2>1, <2>2
<1>9. \A t \in Range(mixin.targets) : t \in DOMAIN Classes
  BY <1>8, LoadedIs
<1>10. ASSUME NEW p \in Places, ~MistakenFor(p[1], p[2]) PROVE Really(p[1], p[2])
  <2>1. PICK m \in mixin.members, t \in Range(mixin.targets) : p = <<m, t>>
    BY DEF Places
  <2>2. m.form \in Forms /\ Loaded(t) /\ ~MistakenFor(m, t)
    BY <1>8, <1>10, <2>1, MixinIs DEF IsMixin
  <2>3. MemberIssue(m, t) = {}
    <3>1. p \in {q \in Places : Loaded(q[2])} /\ p[1] = m /\ p[2] = t
      BY <1>10, <2>1, <2>2
    <3>2. MemberIssue(p[1], p[2]) \subseteq Issues
      BY <3>1 DEF Issues
    <3> QED
      BY <1>4, <3>1, <3>2
  <2>4. MatchOf(m, t) # "not-found"
    BY <2>3 DEF MemberIssue
  <2>5. MatchOf(m, t) # "skipped"
    BY <1>2, <1>10, <2>1, <2>2 DEF Skipped
  <2>6. MatchOf(m, t) = "resolved"
    BY <2>2, <2>4, <2>5, MatchIs
  <2>7. CASE m.form = "once" /\ Matches(m, t) # {}
    <3>1. MembersAsked(m, t) # {}
      <4>1. PICK l \in Matches(m, t) : Fits(l, m)
        BY <2>7 DEF Matches, Fits
      <4> QED
        BY <2>2, <4>1, MatchesReal
    <3> QED
      BY <1>9, <2>1, <2>2, <2>7, <3>1, ReallyIs
  <2>8. CASE m.form = "twice" /\ Cardinality(Matches(m, t)) >= 2
    <3>1. Cardinality(MembersAsked(m, t)) >= 2
      BY <2>2, <2>8, NoMoreMatch, MatchesFinite
    <3> QED
      BY <1>9, <2>1, <2>2, <2>8, <3>1, ReallyIs
  <2>9. CASE m.form = "described" /\ \E l \in Matches(m, t) : l.descriptor = m.descriptor
    <3>1. PICK l \in Matches(m, t) : l.descriptor = m.descriptor
      BY <2>9
    <3>2. Fits(l, m)
      BY <3>1 DEF Matches, Fits
    <3>3. PICK c \in MembersAsked(m, t) : Fits(c, m)
      BY <2>2, <3>1, <3>2, MatchesReal
    <3>4. c.descriptor = m.descriptor
      BY <2>9, <3>3 DEF Fits
    <3> QED
      BY <1>9, <2>1, <2>2, <2>9, <3>4, ReallyIs
  <2> QED
    BY <2>2, <2>6, <2>7, <2>8, <2>9, MatchIs
<1> QED
  BY <1>2, <1>9, <1>10

(* Who ran out of time tells which targets he did not look up. *)
LEMMA ToldIs == MixinInv => BudgetTold
<1> SUFFICES ASSUME MixinInv, pass.exhausted
             PROVE  /\ \A i \in Issues : i.target \in Range(mixin.targets) => LookedUp(i.target)
                    /\ \A filters \in Filters : Result(filters).status # "full" /\ ~Retries(filters)
  BY DEF BudgetTold
<1>1. ASSUME NEW i \in Issues, i.target \in Range(mixin.targets) PROVE LookedUp(i.target)
  <2>1. i.target # "file"
    BY <1>1, MixinIs DEF IsMixin
  <2>2. ASSUME NEW p \in Places, Loaded(p[2]), i \in MemberIssue(p[1], p[2]) PROVE LookedUp(i.target)
    BY <2>2, LoadedIs, MemberIssueIs
  <2>3. ASSUME NEW t \in Range(mixin.targets), i \in TargetIssue(t) PROVE LookedUp(i.target)
    BY <2>3, TargetIssueIs
  <2> QED
    BY <1>1, <2>1, <2>2, <2>3, IssuesAre
<1>2. ASSUME NEW filters \in Filters PROVE Result(filters).status # "full" /\ ~Retries(filters)
  BY DEF Result, StatusOf, Retries
<1> QED
  BY <1>1, <1>2

(* The filter of categories is applied after the verdict. *)
LEMMA ShowsOnly ==
  ASSUME NEW filters \in Filters
  PROVE  LET all == [filters EXCEPT !.categories = {}]
         IN  /\ Result(filters).status = Result(all).status
             /\ Result(filters).valid = Result(all).valid /\ Retries(filters) = Retries(all)
<1>1. PICK all : all = [filters EXCEPT !.categories = {}]
  OBVIOUS
<1>2. all.minSeverity = filters.minSeverity /\ all.hideUncertain = filters.hideUncertain
  BY <1>1, MixinAssumption DEF IsFilter
<1>3. Judged(all) = Judged(filters)
  BY <1>2 DEF Judged
<1>4. Result(filters).status = Result(all).status /\ Result(filters).valid = Result(all).valid
  BY <1>3 DEF Result
<1>5. Retries(filters) = Retries(all)
  BY <1>3, <1>4 DEF Retries
<1> QED
  BY <1>1, <1>4, <1>5

(* Hence it changes no verdict. *)
LEMMA ShownIs == CategoriesOnlyShow
<1>1. \A filters \in {f \in Filters : f.categories # {}} : filters \in Filters
  OBVIOUS
<1> QED
  BY <1>1, ShowsOnly, Zenon DEF CategoriesOnlyShow

-----------------------------------------------------------------------------
(* The steps *)
LEMMA MixinStarts ==
  ASSUME IsMixin(mixin), NEW priority \in {"loom-first", "maven-first"},
         pass = FirstPass(priority, FALSE), stage = "resolve", looked = <<>>,
         choice = None, earlier = None, given = None
  PROVE  MixinInv
<1>1. pass \in PassStates
  BY DEF FirstPass, PassStates
<1>2. Len(mixin.targets) \in Nat
  BY DEF IsMixin
<1>3. LooksRight
  BY <1>2 DEF LooksRight
<1>4. AnswerRight /\ FullIsTrue
  BY DEF AnswerRight, FullIsTrue, None
<1> QED
  BY <1>1, <1>3, <1>4 DEF MixinInv

(* The validation starts right. *)
LEMMA MixinInitRight == MixinInit => MixinInv
<1> SUFFICES ASSUME MixinInit PROVE MixinInv
  OBVIOUS
<1>1. PICK priority \in {"loom-first", "maven-first"} : pass = FirstPass(priority, FALSE)
  BY DEF MixinInit
<1>2. /\ IsMixin(mixin) /\ stage = "resolve" /\ looked = <<>>
      /\ choice = None /\ earlier = None /\ given = None
  BY MixinAssumption DEF MixinInit
<1> QED
  BY <1>1, <1>2, MixinStarts

(* Without an answer that is full there is nothing to show. *)
LEMMA NotFull ==
  ASSUME given'.status # "full" PROVE FullIsTrue'
BY DEF FullIsTrue

(* Before the answer there is none. *)
LEMMA NoneGiven ==
  ASSUME MixinInv, stage # "answered" PROVE given = None /\ given.status = "none"
BY DEF MixinInv, AnswerRight, None

(* The jar is resolved, maybe under other names. *)
LEMMA ResolveStageRight ==
  ASSUME MixinInv, NEW lookup \in {"same", "remapped", "other"}, ResolveStage(lookup)
  PROVE  MixinInv'
<1>1. /\ stage = "resolve" /\ stage' = "health" /\ UNCHANGED <<mixin, looked, choice, earlier, given>>
      /\ pass' = [pass EXCEPT !.lookup = lookup,
                              !.applied = IF lookup = "other" THEN "other" ELSE "requested"]
  BY DEF ResolveStage
<1>2. pass' \in PassStates
  BY <1>1 DEF MixinInv, PassStates
<1>3. looked = <<>> /\ given.status = "none"
  BY <1>1, NoneGiven DEF MixinInv, AnswerRight
<1>4. LooksRight'
  BY <1>1, <1>3 DEF MixinInv, LooksRight
<1>5. AnswerRight' /\ FullIsTrue'
  BY <1>1, <1>3, NotFull DEF MixinInv, AnswerRight
<1> QED
  BY <1>1, <1>2, <1>4, <1>5 DEF MixinInv

(* The mappings are probed. *)
LEMMA HealthStageRight ==
  ASSUME MixinInv, NEW healthy \in BOOLEAN, NEW remappable \in BOOLEAN, HealthStage(healthy, remappable)
  PROVE  MixinInv'
<1>1. /\ stage = "health" /\ stage' = "targets" /\ UNCHANGED <<mixin, looked, choice, earlier, given>>
      /\ pass' = [pass EXCEPT !.healthy = healthy, !.remappable = remappable]
  BY DEF HealthStage
<1>2. pass' \in PassStates
  BY <1>1 DEF MixinInv, PassStates
<1>3. looked = <<>> /\ given.status = "none"
  BY <1>1, NoneGiven DEF MixinInv, AnswerRight
<1>4. LooksRight'
  BY <1>1, <1>3 DEF MixinInv, LooksRight
<1>5. AnswerRight' /\ FullIsTrue'
  BY <1>1, <1>3, NotFull DEF MixinInv, AnswerRight
<1> QED
  BY <1>1, <1>2, <1>4, <1>5 DEF MixinInv

(* A stage fails; an earlier answer is given if there is one. *)
LEMMA StageFailsRight ==
  ASSUME MixinInv, StageFails
  PROVE  MixinInv'
<1>1. /\ stage' = "answered" /\ UNCHANGED <<mixin, pass, looked, choice, earlier>>
      /\ given' = earlier \/ given' = Failed
  BY DEF StageFails
<1>2. given'.status \in {"none", "partial", "error"}
  BY <1>1 DEF MixinInv, AnswerRight, Failed
<1>3. LooksRight'
  BY <1>1 DEF MixinInv, LooksRight, LookRight
<1>4. AnswerRight' /\ FullIsTrue'
  BY <1>1, <1>2, NotFull DEF MixinInv, AnswerRight
<1> QED
  BY <1>1, <1>3, <1>4 DEF MixinInv

(* What a lookup of a target may find. *)
LEMMA LooksLikeIs ==
  ASSUME NEW t \in STRING, NEW seen \in LooksLike(t)
  PROVE  seen \in Looks /\ seen.target = t /\ seen.remaps \in RemapOutcomes(t)
<1>1. Plain(t) \in RemapOutcomes(t) /\ DOMAIN Plain(t) = IF t \in DOMAIN Classes THEN Classes[t] ELSE {}
  BY DEF Plain, RemapOutcomes, Remaps
<1>2. [m \in DOMAIN Plain(t) |-> "unremapped"] \in RemapOutcomes(t)
  BY <1>1 DEF RemapOutcomes, Remaps
<1>3. [DOMAIN Plain(t) -> Remaps] = RemapOutcomes(t)
  BY <1>1 DEF RemapOutcomes
<1>4. seen \in [target : {t}, mapped : BOOLEAN,
                  signature : {"exists", "missing", "unknown", "loaded"}, whole : BOOLEAN,
                  remaps : RemapOutcomes(t)]
  BY <1>1, <1>2, <1>3 DEF LooksLike, Seen
<1> QED
  BY <1>4 DEF Looks

(* The next target is looked up. *)
LEMMA LookUpRight ==
  ASSUME MixinInv, LookUpTarget
  PROVE  MixinInv'
<1>1. /\ stage = "targets" /\ Len(looked) < Len(mixin.targets)
      /\ UNCHANGED <<mixin, stage, choice, earlier, given>>
  BY DEF LookUpTarget
<1>2. PICK seen \in LooksLike(mixin.targets[Len(looked) + 1]) :
         /\ seen.signature = "loaded" => seen.target \in DOMAIN Classes
         /\ looked' = Append(looked, seen)
         /\ pass' = IF seen.whole THEN [pass EXCEPT !.applied = "lookup"] ELSE pass
  BY DEF LookUpTarget
<1>3. PICK n \in Nat : n = Len(looked) + 1
  BY DEF MixinInv, LooksRight
<1>4. /\ looked \in Seq(Looks) /\ mixin.targets \in Seq(STRING) /\ pass \in PassStates
      /\ \A i \in 1 .. Len(looked) : LookRight(i)
  BY MixinIs DEF MixinInv, LooksRight
<1>5. n \in 1 .. Len(mixin.targets) /\ mixin.targets[n] \in STRING
  BY <1>1, <1>3, <1>4
<1>6. seen \in Looks /\ seen.target = mixin.targets[n] /\ seen.remaps \in RemapOutcomes(mixin.targets[n])
  BY <1>2, <1>3, <1>5, LooksLikeIs
<1>7. pass' \in PassStates /\ (seen.whole => pass'.applied = "lookup") /\ (pass'.applied \in {pass.applied, "lookup"})
  BY <1>2, <1>4 DEF PassStates
<1>8. /\ looked' \in Seq(Looks) /\ Len(looked') = n /\ looked'[n] = seen
      /\ \A i \in 1 .. Len(looked) : looked'[i] = looked[i]
  <2>1. PICK T : T = Looks
    OBVIOUS
  <2>2. looked \in Seq(T) /\ seen \in T
    BY <1>4, <1>6, <2>1
  <2>3. /\ looked' \in Seq(T) /\ Len(looked') = n /\ looked'[n] = seen
        /\ \A i \in 1 .. Len(looked) : looked'[i] = looked[i]
    BY <1>2, <1>3, <2>2
  <2> QED
    BY <2>1, <2>3
<1>9. \A i \in 1 .. n : i = n \/ i \in 1 .. Len(looked)
  BY <1>3, <1>4
<1>10. ASSUME NEW i \in 1 .. n PROVE LookRight(i)'
  <2>1. CASE i = n
    BY <1>1, <1>2, <1>6, <1>7, <1>8, <2>1 DEF LookRight, RemapOutcomes
  <2>2. CASE i \in 1 .. Len(looked)
    <3>1. LookRight(i) /\ looked'[i] = looked[i]
      BY <1>4, <1>8, <2>2
    <3> QED
      BY <1>1, <1>7, <3>1 DEF LookRight, RemapOutcomes
  <2> QED
    BY <1>9, <2>1, <2>2
<1>11. LooksRight'
  BY <1>1, <1>3, <1>5, <1>8, <1>10 DEF LooksRight
<1>12. AnswerRight' /\ FullIsTrue'
  BY <1>1, NoneGiven, NotFull DEF MixinInv, AnswerRight
<1> QED
  BY <1>1, <1>7, <1>11, <1>12 DEF MixinInv

(* The time runs out. *)
LEMMA RunOutRight ==
  ASSUME MixinInv, RunOut
  PROVE  MixinInv'
<1>1. /\ stage = "targets" /\ pass' = [pass EXCEPT !.exhausted = TRUE]
      /\ UNCHANGED <<mixin, stage, looked, choice, earlier, given>>
  BY DEF RunOut
<1>2. pass' \in PassStates /\ pass'.applied = pass.applied
  BY <1>1 DEF MixinInv, PassStates
<1>3. LooksRight'
  BY <1>1, <1>2 DEF MixinInv, LooksRight, LookRight
<1>4. AnswerRight' /\ FullIsTrue'
  BY <1>1, NoneGiven, NotFull DEF MixinInv, AnswerRight
<1> QED
  BY <1>1, <1>2, <1>3, <1>4 DEF MixinInv

(* The verdict is given, or the other source is tried. *)
LEMMA FinalizeRight ==
  ASSUME MixinInv, NEW filters \in Filters, Finalize(filters)
  PROVE  MixinInv'
<1>1. /\ AtEnd /\ stage = "targets" /\ choice' = filters /\ UNCHANGED mixin
      /\ given = None /\ given.status = "none"
  BY NoneGiven DEF Finalize, AtEnd
<1>2. CASE Retries(filters)
  <2>1. /\ earlier' = Result(filters) /\ stage' = "resolve" /\ looked' = <<>>
        /\ pass' = FirstPass("maven-first", TRUE) /\ UNCHANGED given
    BY <1>2 DEF Finalize
  <2>2. earlier'.status = "partial"
    BY <1>2, <2>1 DEF Retries
  <2>3. pass' \in PassStates
    BY <2>1 DEF FirstPass, PassStates
  <2>4. LooksRight'
    <3>1. Len(mixin.targets) \in Nat
      BY MixinIs
    <3> QED
      BY <1>1, <2>1, <3>1 DEF LooksRight
  <2>5. AnswerRight' /\ FullIsTrue'
    BY <1>1, <2>1, <2>2, NotFull DEF AnswerRight
  <2> QED
    BY <1>1, <2>3, <2>4, <2>5 DEF MixinInv
<1>3. CASE ~Retries(filters)
  <2>1. given' = Result(filters) /\ stage' = "answered" /\ UNCHANGED <<pass, looked, earlier>>
    BY <1>3 DEF Finalize
  <2>2. given'.status \in {"invalid", "partial", "full"} /\ given'.exhausted = pass.exhausted
    BY <2>1 DEF Result, StatusOf
  <2>3. LooksRight'
    BY <1>1, <2>1 DEF MixinInv, LooksRight, LookRight
  <2>4. AnswerRight'
    BY <2>1, <2>2 DEF MixinInv, AnswerRight
  <2>5. FullIsTrue'
    <3>1. SUFFICES ASSUME given'.status = "full", filters.minSeverity = "all", ~filters.hideUncertain
                   PROVE  /\ Range(mixin.targets) \subseteq DOMAIN Classes /\ ~given'.exhausted
                          /\ \A p \in Places : Really(p[1], p[2]) \/ MistakenFor(p[1], p[2])
      BY <1>1, <2>1 DEF FullIsTrue, Places, MistakenFor, Known
    <3> QED
      BY <1>1, <2>1, <2>2, <3>1, FullResult
  <2> QED
    BY <1>1, <2>1, <2>3, <2>4, <2>5 DEF MixinInv
<1> QED
  BY <1>2, <1>3

(* Every step keeps the invariant. *)
LEMMA MixinKept ==
  ASSUME MixinInv, [MixinNext]_mixinVars
  PROVE  MixinInv'
<1>1. CASE MixinNext
  BY <1>1, ResolveStageRight, HealthStageRight, StageFailsRight, LookUpRight, RunOutRight,
     FinalizeRight DEF MixinNext
<1>2. CASE UNCHANGED mixinVars
  <2>1. UNCHANGED <<mixin, stage, pass, looked, choice, earlier, given>>
    BY <1>2 DEF mixinVars
  <2> QED
    BY <2>1 DEF MixinInv, LooksRight, LookRight, AnswerRight, FullIsTrue, Places, MistakenFor, Known
<1> QED
  BY <1>1, <1>2

(* The invariant is what the property says, and more. *)
LEMMA MixinIsRight == MixinInv => MixinRight
BY HedgedIs, ToldIs, ShownIs DEF MixinInv, MixinRight

(* validate-mixin says no more than it knows, for any file, class and filter, whatever fails
   and whenever the time runs out: an error about a member that is there is hedged, a full
   verdict is true, and what was left out is told (finalizeValidateMixinPipeline). *)
THEOREM MixinAlwaysRight == MixinSpec => []MixinRight
BY MixinInitRight, MixinKept, MixinIsRight, PTL DEF MixinSpec
=============================================================================
