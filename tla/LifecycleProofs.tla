---------------------------- MODULE LifecycleProofs ----------------------------
(***************************************************************************)
(* For every set of configuration files and environments: which files      *)
(* start the process, and what becomes of the pools of any number of       *)
(* sources from startup to the end of the process.  While it serves, its   *)
(* clients are shown each configured source once, in the order of the ids. *)
(***************************************************************************)
EXTENDS Lifecycle, FiniteSetTheorems, TLAPS

\* Ids are distinct once the file is loaded, so NewRegistry never refuses.  The
\* sources before the current one are checked and those after it untouched; a closing
\* loop still has every pool that is open.
Pools ==
    /\ stage = "loading" => current = 1 /\ \A s \in Sources : pool[s] = "none"
    /\ stage \in {"opening", "serving"} => DistinctIds
    /\ stage = "opening" =>
          \A s \in Sources :
              /\ s < current => pool[s] = "checked"
              /\ s = current => pool[s] \in {"none", "opened"}
              /\ s > current => pool[s] = "none"
    /\ stage = "aborting" =>
          /\ current \in Sources
          /\ \A s \in Sources \ closing : pool[s] \in {"none", "closed"}
    /\ stage \in {"serving", "closing"} => current = N + 1
    /\ stage = "serving" => \A s \in Sources : pool[s] = "checked"
    /\ stage = "closing" => \A s \in Sources \ closing : pool[s] = "closed"
    /\ stage = "stopped" /\ (exit = "clean" \/ current \in Sources) =>
          \A s \in Sources : pool[s] \in {"none", "closed"}

IInv == TypeOK /\ Pools

-----------------------------------------------------------------------------
\* The configured sources are numbered.
LEMMA Numbered ==
    ASSUME file \in Files
    PROVE  N \in Nat /\ file.sources \in Seq(SourceConfigs) /\ Sources = DOMAIN file.sources
BY LifecycleAssumption DEF N, Sources, ConfigFiles

\* A trimmed text fits exactly when what it says does.
LEMMA TrimmedFits ==
    ASSUME NEW t \in Texts, NEW field
    PROVE  validateRequiredProfileField(field, TrimSpace(t))
             <=> t.ink # "" /\ t.ink \in ValidUTF8 /\ Runes[t.ink] <= MaxRunes[field]
<1>1. TrimSpace(t).ink = t.ink /\ TrimSpace(t).pad = FALSE /\ t.ink \in Inks
  BY DEF Texts, TrimSpace
<1>2. Runes[t.ink] + 0 = Runes[t.ink]
  BY <1>1, ConfigAssumption
<1>3. RuneCount(TrimSpace(t)) = Runes[t.ink]
  BY <1>1, <1>2 DEF RuneCount
<1>4. QED
  BY <1>1, <1>3 DEF validateRequiredProfileField

\* Trimmed texts are the same exactly when they say the same.
LEMMA TrimmedEqual ==
    ASSUME NEW t \in Texts, NEW u \in Texts
    PROVE  TrimSpace(t) = TrimSpace(u) <=> t.ink = u.ink
BY DEF Texts, TrimSpace

\* What the normalisation of a source leaves and what it rewrites.
LEMMA NormalizedSource ==
    ASSUME NEW source \in SourceConfigs, NEW kept, kept = normalizeSourceProfile(source)
    PROVE  /\ kept.name = source.name /\ kept.type = source.type /\ kept.dsn = source.dsn
           /\ kept.display_name = TrimSpace(source.display_name)
           /\ kept.description = TrimSpace(source.description)
           /\ kept.aliases = [k \in DOMAIN source.aliases |-> TrimSpace(source.aliases[k])]
           /\ kept.keywords = [k \in DOMAIN source.keywords |-> TrimSpace(source.keywords[k])]
BY DEF normalizeSourceProfile, SourceConfigs

\* The loop over trimmed items, which compares each with those before it, accepts
\* the lists in which every item fits and none says what another says.
LEMMA TrimmedItems ==
    ASSUME NEW items \in Seq(Texts), NEW field,
           NEW trimmed, trimmed = [k \in DOMAIN items |-> TrimSpace(items[k])]
    PROVE  validateProfileItems(field, trimmed)
             <=> /\ Len(items) <= MaxItems[field]
                 /\ \A j, k \in DOMAIN items :
                       /\ items[k].ink # "" /\ items[k].ink \in ValidUTF8
                       /\ Runes[items[k].ink] <= MaxRunes["item"]
                       /\ items[j].ink = items[k].ink => j = k
<1> DEFINE Fits(t) == t.ink # "" /\ t.ink \in ValidUTF8 /\ Runes[t.ink] <= MaxRunes["item"]
<1>1. Len(trimmed) = Len(items) /\ DOMAIN trimmed = DOMAIN items
  <2>1. ASSUME NEW k \in DOMAIN items PROVE TrimSpace(items[k]) \in Texts
    <3>1. items[k] \in Texts
      OBVIOUS
    <3>2. QED
      BY <3>1 DEF TrimSpace, Texts
  <2>2. trimmed \in Seq(Texts)
    BY <2>1
  <2>3. QED
    BY <2>2
<1>2. \A k \in DOMAIN items : items[k] \in Texts /\ trimmed[k] = TrimSpace(items[k])
  OBVIOUS
<1>3. \A k \in DOMAIN items : validateRequiredProfileField("item", trimmed[k]) <=> Fits(items[k])
  BY <1>2, TrimmedFits
<1>4. \A j, k \in DOMAIN items : trimmed[j] = trimmed[k] <=> items[j].ink = items[k].ink
  BY <1>2, TrimmedEqual
<1>5. (\A k \in DOMAIN items : trimmed[k] \notin {trimmed[j] : j \in 1 .. (k - 1)})
        <=> \A j, k \in DOMAIN items : items[j].ink = items[k].ink => j = k
  <2>1. ASSUME NEW k \in DOMAIN items PROVE \A j \in 1 .. (k - 1) : j \in DOMAIN items /\ j < k
    OBVIOUS
  <2>2. ASSUME NEW j \in DOMAIN items, NEW k \in DOMAIN items, j # k
        PROVE  j \in 1 .. (k - 1) \/ k \in 1 .. (j - 1)
    BY <2>2
  <2>3. QED
    BY <1>4, <2>1, <2>2
<1> HIDE DEF Fits
<1>6. validateProfileItems(field, trimmed)
        <=> /\ Len(items) <= MaxItems[field]
            /\ \A k \in DOMAIN items : Fits(items[k])
            /\ \A j, k \in DOMAIN items : items[j].ink = items[k].ink => j = k
  BY <1>1, <1>3, <1>5 DEF validateProfileItems
<1>7. QED
  BY <1>6 DEF Fits

\* The two loops over sources rewritten one by one accept exactly the files that
\* the rules of the design allow.
LEMMA LoadsDocumented == ASSUME file \in Files PROVE Loads(file, environment) <=> Documented
<1> DEFINE F == file.sources
           G == Normalized(file)
<1>1. F \in Seq(SourceConfigs) /\ Sources = DOMAIN F /\ N \in Nat /\ N = Len(F)
  BY Numbered DEF N
<1>2. ASSUME NEW s \in DOMAIN F
      PROVE  /\ F[s] \in SourceConfigs
             /\ G[s] = normalizeSourceProfile(F[s])
             /\ G[s].name = F[s].name /\ G[s].type = F[s].type /\ G[s].dsn = F[s].dsn
             /\ G[s].display_name = TrimSpace(F[s].display_name)
             /\ G[s].description = TrimSpace(F[s].description)
             /\ G[s].aliases = [k \in DOMAIN F[s].aliases |-> TrimSpace(F[s].aliases[k])]
             /\ G[s].keywords = [k \in DOMAIN F[s].keywords |-> TrimSpace(F[s].keywords[k])]
  <2>1. F[s] \in SourceConfigs
    BY <1>1
  <2>2. G[s] = normalizeSourceProfile(F[s])
    BY DEF Normalized
  <2>3. QED
    BY <2>1, <2>2, NormalizedSource
<1> DEFINE Fits(t, field) ==
               t.ink # "" /\ t.ink \in ValidUTF8 /\ Runes[t.ink] <= MaxRunes[field]
           List(items, field) ==
               /\ Len(items) <= MaxItems[field]
               /\ \A j, k \in DOMAIN items :
                     /\ Fits(items[k], "item")
                     /\ items[j].ink = items[k].ink => j = k
           Profile(source) ==
               /\ Fits(source.display_name, "display_name")
               /\ Fits(source.description, "description")
               /\ List(source.aliases, "aliases")
               /\ List(source.keywords, "keywords")
<1>3. ASSUME NEW s \in DOMAIN F PROVE validateSourceProfile(G[s]) <=> Profile(F[s])
  <2>1. /\ F[s].display_name \in Texts /\ F[s].description \in Texts
        /\ F[s].aliases \in Seq(Texts) /\ F[s].keywords \in Seq(Texts)
    BY <1>2 DEF SourceConfigs
  <2>2. /\ validateRequiredProfileField("display_name", G[s].display_name)
             <=> Fits(F[s].display_name, "display_name")
        /\ validateRequiredProfileField("description", G[s].description)
             <=> Fits(F[s].description, "description")
    BY <1>2, <2>1, TrimmedFits
  <2>3. validateProfileItems("aliases", G[s].aliases) <=> List(F[s].aliases, "aliases")
    <3> DEFINE items == F[s].aliases
               trimmed == G[s].aliases
    <3>1. items \in Seq(Texts) /\ trimmed = [k \in DOMAIN items |-> TrimSpace(items[k])]
      BY <1>2, <2>1
    <3> HIDE DEF items, trimmed
    <3>2. validateProfileItems("aliases", trimmed) <=> List(items, "aliases")
      BY <3>1, TrimmedItems
    <3>3. QED
      BY <3>2 DEF items, trimmed
  <2>4. validateProfileItems("keywords", G[s].keywords) <=> List(F[s].keywords, "keywords")
    <3> DEFINE items == F[s].keywords
               trimmed == G[s].keywords
    <3>1. items \in Seq(Texts) /\ trimmed = [k \in DOMAIN items |-> TrimSpace(items[k])]
      BY <1>2, <2>1
    <3> HIDE DEF items, trimmed
    <3>2. validateProfileItems("keywords", trimmed) <=> List(items, "keywords")
      BY <3>1, TrimmedItems
    <3>3. QED
      BY <3>2 DEF items, trimmed
  <2> HIDE DEF Fits, List
  <2>5. QED
    BY <2>2, <2>3, <2>4 DEF validateSourceProfile
<1>4. (\A s \in DOMAIN F : G[s].name \notin {G[t].name : t \in 1 .. (s - 1)})
        <=> \A s, t \in DOMAIN F : F[s].name = F[t].name => s = t
  <2>1. ASSUME NEW s \in DOMAIN F PROVE \A t \in 1 .. (s - 1) : t \in DOMAIN F /\ t < s
    BY <1>1
  <2>2. ASSUME NEW s \in DOMAIN F, NEW t \in DOMAIN F, s # t
        PROVE  s \in 1 .. (t - 1) \/ t \in 1 .. (s - 1)
    BY <1>1, <2>2
  <2>3. \A s \in DOMAIN F : G[s].name = F[s].name
    BY <1>2
  <2> HIDE DEF F, G
  <2>4. QED
    BY <2>1, <2>2, <2>3
<1> HIDE DEF Fits, List, Profile, G
<1>5. Loads(file, environment)
        <=> /\ Decodes(file) /\ file.mode \in {"", "quick", "strict"} /\ F # <<>>
            /\ \A s \in DOMAIN F : SourceAccepted(G, s)
            /\ \A s \in DOMAIN F : Resolved(G, environment, s)
  BY DEF Loads, G
<1>6. \A s \in DOMAIN F :
        SourceAccepted(G, s)
          <=> /\ F[s].name # 0 /\ G[s].name \notin {G[t].name : t \in 1 .. (s - 1)}
              /\ Profile(F[s])
              /\ F[s].type \in {"mysql", "clickhouse"} /\ F[s].dsn # NoReference
  BY <1>2, <1>3 DEF SourceAccepted
<1>7. \A s \in DOMAIN F :
        Resolved(G, environment, s)
          <=> F[s].dsn \in DOMAIN environment /\ environment[F[s].dsn] # ""
  BY <1>2 DEF Resolved
<1>8. F # <<>> <=> Sources # {}
  <2>1. F # <<>> <=> N # 0
    BY <1>1
  <2>2. N \in Nat
    BY <1>1
  <2>3. N # 0 <=> 1 \in Sources
    BY <2>2 DEF Sources
  <2>4. N = 0 => Sources = {}
    BY DEF Sources
  <2>5. QED
    BY <2>1, <2>3, <2>4
<1>9. Documented
        <=> /\ file.form = "one_document" /\ file.mode \in {"", "quick", "strict"}
            /\ Sources # {}
            /\ \A s, t \in DOMAIN F : F[s].name = F[t].name => s = t
            /\ \A s \in DOMAIN F :
                  /\ F[s].name # 0 /\ Profile(F[s])
                  /\ F[s].type \in {"mysql", "clickhouse"} /\ F[s].dsn # NoReference
                  /\ F[s].dsn \in DOMAIN environment /\ environment[F[s].dsn] # ""
  <2>1. \A source :
           (\A field \in {"aliases", "keywords"} : List(source[field], field))
             <=> List(source.aliases, "aliases") /\ List(source.keywords, "keywords")
    OBVIOUS
  <2>2. QED
    BY <1>1, <2>1 DEF Documented, Profile, List, Fits
<1> HIDE DEF F
<1>10. QED
  BY <1>4, <1>5, <1>6, <1>7, <1>8, <1>9 DEF Decodes

\* Of a file that loads the ids are distinct.
LEMMA LoadedDistinct ==
    ASSUME file \in Files, Loads(file, environment)
    PROVE  DistinctIds
<1>1. Documented
  BY LoadsDocumented
<1>2. \A s \in Sources : Loaded(file).sources[s].name = file.sources[s].name
  <2>1. \A s \in Sources : file.sources[s] \in SourceConfigs
    BY Numbered
  <2>2. \A s \in Sources : Loaded(file).sources[s] = normalizeSourceProfile(file.sources[s])
    BY Numbered DEF Loaded, Normalized
  <2>3. QED
    BY <2>1, <2>2, NormalizedSource
<1>3. \A s, t \in Sources : file.sources[s].name = file.sources[t].name => s = t
  BY <1>1 DEF Documented
<1>4. QED
  BY <1>2, <1>3 DEF DistinctIds

-----------------------------------------------------------------------------
\* The process begins with no pool.
LEMMA InitInv == Init => IInv
<1> SUFFICES ASSUME Init PROVE IInv
  OBVIOUS
<1>1. file \in Files
  BY DEF Init
<1>2. QED
  BY <1>1, Numbered DEF Init, IInv, TypeOK, Pools, Sources

\* Every step of main and of the registry keeps the invariant.
LEMMA NextInv == IInv /\ [Next]_vars => IInv'
<1> SUFFICES ASSUME IInv, [Next]_vars PROVE IInv'
  OBVIOUS
<1>1. file' = file /\ environment' = environment
  BY DEF Next, Process, Environment, Load, LoadFails, OpenPool, OpenFails, PingSucceeds, PingFails,
         PingTimesOut, StartupExpires, Serve, InputEnds, RunFails, CloseSource, Finish, vars, launch
<1>2. file \in Files
  BY DEF IInv, TypeOK
<1>3. /\ N \in Nat /\ Sources = 1 .. N
      /\ N' = N /\ Sources' = Sources /\ (DistinctIds' <=> DistinctIds)
  BY <1>1, <1>2, Numbered DEF N, Sources, DistinctIds
<1>4. CASE Load
  BY <1>1, <1>2, <1>3, <1>4, LoadedDistinct DEF Load, IInv, TypeOK, Pools
<1>5. CASE LoadFails
  BY <1>1, <1>2, <1>3, <1>5 DEF LoadFails, Exit, IInv, TypeOK, Pools
<1>6. CASE OpenPool
  BY <1>1, <1>2, <1>3, <1>6 DEF OpenPool, IInv, TypeOK, Pools
<1>7. CASE OpenFails
  BY <1>1, <1>2, <1>3, <1>7 DEF OpenFails, IInv, TypeOK, Pools
<1>8. CASE PingSucceeds
  BY <1>1, <1>2, <1>3, <1>8 DEF PingSucceeds, IInv, TypeOK, Pools
<1>9. CASE PingFails
  BY <1>1, <1>2, <1>3, <1>9 DEF PingFails, Abort, IInv, TypeOK, Pools
<1>10. CASE PingTimesOut
  BY <1>1, <1>2, <1>3, <1>10 DEF PingTimesOut, Abort, IInv, TypeOK, Pools
<1>11. CASE StartupExpires
  BY <1>1, <1>2, <1>3, <1>11 DEF StartupExpires, IInv, TypeOK, Pools
<1>12. CASE Serve
  <2>1. stage = "opening" /\ DistinctIds /\ current = N + 1
    BY <1>3, <1>12 DEF Serve, IInv, TypeOK, Pools
  <2>2. stage' = "serving" /\ closing' = closing
    BY <1>12, <2>1 DEF Serve
  <2>3. QED
    BY <1>1, <1>2, <1>3, <1>12, <2>1, <2>2 DEF Serve, IInv, TypeOK, Pools
<1>13. CASE InputEnds
  BY <1>1, <1>2, <1>3, <1>13 DEF InputEnds, IInv, TypeOK, Pools
<1>14. CASE RunFails
  BY <1>1, <1>2, <1>3, <1>14 DEF RunFails, Exit, IInv, TypeOK, Pools
<1>15. ASSUME NEW s \in Sources, CloseSource(s) PROVE IInv'
  BY <1>1, <1>2, <1>3, <1>15 DEF CloseSource, IInv, TypeOK, Pools
<1>16. CASE Finish
  BY <1>1, <1>2, <1>3, <1>16 DEF Finish, Exit, IInv, TypeOK, Pools
<1>17. CASE UNCHANGED vars
  BY <1>1, <1>2, <1>3, <1>17 DEF vars, IInv, TypeOK, Pools
<1>18. QED
  BY <1>4, <1>5, <1>6, <1>7, <1>8, <1>9, <1>10, <1>11, <1>12, <1>13, <1>14, <1>15, <1>16, <1>17
     DEF Next, Process, Environment

\* Lifecycle has its invariant in every state.
LEMMA Inductive == Spec => []IInv
BY InitInv, NextInv, PTL DEF Spec

\* The process keeps its form with any number of sources; the loop over them ends
\* one past the last.
THEOREM Typed == Spec => []TypeOK
<1>1. IInv => TypeOK
  BY DEF IInv
<1>2. QED
  BY <1>1, Inductive, PTL

\* Whatever the files and the limits: a file starts the process exactly when the
\* design allows it.
THEOREM DocumentedStart == Spec => StartsAsDocumented
<1>1. ASSUME IInv, [Next]_vars
      PROVE  [stage = "loading" => stage' = (IF Documented THEN "opening" ELSE "stopped")]_vars
  <2> SUFFICES ASSUME Next, stage = "loading"
               PROVE  stage' = (IF Documented THEN "opening" ELSE "stopped")
    BY <1>1
  <2>1. Loads(file, environment) <=> Documented
    BY <1>1, LoadsDocumented DEF IInv, TypeOK
  <2>2. Load \/ LoadFails
    BY DEF Next, Process, Environment, OpenPool, OpenFails, PingSucceeds, PingFails, PingTimesOut,
           StartupExpires, Serve, InputEnds, RunFails, CloseSource, Finish
  <2>3. QED
    BY <2>1, <2>2 DEF Load, LoadFails, Exit
<1>2. QED
  BY <1>1, Inductive, PTL DEF Spec, StartsAsDocumented

\* The server runs only on sources whose databases have answered, however many.
THEOREM CheckedBeforeServing == Spec => []ServesCheckedSources
<1>1. IInv => ServesCheckedSources
  BY DEF IInv, Pools, ServesCheckedSources
<1>2. QED
  BY <1>1, Inductive, PTL

\* Whichever of any number of sources fails, a startup that is given up leaves no
\* pool behind, and neither does a clean end.
THEOREM AbortReleasesPools == Spec => []NoPoolLeftOpen
<1>1. IInv => NoPoolLeftOpen
  BY DEF IInv, Pools, NoPoolLeftOpen, Open
<1>2. QED
  BY <1>1, Inductive, PTL

\* No step opens a closed pool or serves with one.
THEOREM ClosedForGood == Spec => ClosedStaysClosed
<1>1. ASSUME IInv, IInv', [Next]_vars
      PROVE  [\A s \in Sources : pool[s] = "closed" => pool'[s] = "closed" /\ stage' # "serving"]_vars
  <2> SUFFICES ASSUME Next, NEW s \in Sources, pool[s] = "closed"
               PROVE  pool'[s] = "closed" /\ stage' # "serving"
    BY <1>1
  <2>1. pool'[s] = "closed"
    BY <1>1 DEF Next, Process, Environment, Load, LoadFails, OpenPool, OpenFails, PingSucceeds,
           PingFails, PingTimesOut, Abort, StartupExpires, Serve, InputEnds, RunFails,
           CloseSource, Finish, Exit, IInv, TypeOK
  <2>2. Sources' = Sources
    BY <1>1 DEF Sources, N, Next, Process, Environment, Load, LoadFails, OpenPool, OpenFails,
           PingSucceeds, PingFails, PingTimesOut, StartupExpires, Serve, InputEnds, RunFails,
           CloseSource, Finish, launch
  <2>3. QED
    BY <1>1, <2>1, <2>2 DEF IInv, Pools
<1>2. QED
  BY <1>1, Inductive, PTL DEF Spec, ClosedStaysClosed

-----------------------------------------------------------------------------
(* The list of the sources.                                                *)

\* Places by the number of lower ids: one for each source, in the order of the ids.
LEMMA Places ==
    ASSUME NEW n \in Nat, NEW id \in [1 .. n -> Nat],
           \A s, t \in 1 .. n : id[s] = id[t] => s = t,
           NEW rank, rank = [s \in 1 .. n |-> Cardinality({t \in 1 .. n : id[t] < id[s]})]
    PROVE  /\ \A s \in 1 .. n : rank[s] \in 0 .. (n - 1)
           /\ \A k \in 1 .. n : \E s \in 1 .. n : rank[s] = k - 1
           /\ \A s, t \in 1 .. n : rank[s] < rank[t] => id[s] < id[t]
           /\ \A s, t \in 1 .. n : rank[s] = rank[t] => s = t
<1> DEFINE below(s) == {t \in 1 .. n : id[t] < id[s]}
           place == [s \in 1 .. n |-> rank[s] + 1]
<1>1. IsFiniteSet(1 .. n) /\ Cardinality(1 .. n) = n
  BY FS_Interval
<1>2. \A s \in 1 .. n : /\ rank[s] = Cardinality(below(s))
                        /\ below(s) \subseteq 1 .. n /\ s \in 1 .. n /\ s \notin below(s)
  OBVIOUS
<1>3. \A s, t \in 1 .. n : id[s] < id[t] =>
         below(s) \subseteq below(t) /\ s \in below(t) /\ s \notin below(s)
  OBVIOUS
<1> HIDE DEF below
<1>4. ASSUME NEW s \in 1 .. n PROVE IsFiniteSet(below(s)) /\ rank[s] \in 0 .. (n - 1)
  <2>1. below(s) \in SUBSET (1 .. n) /\ below(s) # 1 .. n
    BY <1>2
  <2>2. /\ IsFiniteSet(below(s)) /\ Cardinality(below(s)) <= n
        /\ Cardinality(below(s)) # n
    BY <1>1, <2>1, FS_Subset
  <2>3. Cardinality(below(s)) \in Nat
    BY <2>2, FS_CardinalityType
  <2> DEFINE m == Cardinality(below(s))
  <2>4. m \in Nat /\ m <= n /\ m # n
    BY <2>2, <2>3
  <2> HIDE DEF m
  <2>5. m \in 0 .. (n - 1)
    BY <2>4
  <2>6. QED
    BY <1>2, <2>2, <2>5 DEF m
<1>5. \A s \in 1 .. n : rank[s] \in Int /\ id[s] \in Int
  BY <1>4
<1>6. ASSUME NEW s \in 1 .. n, NEW t \in 1 .. n, id[s] < id[t] PROVE rank[s] < rank[t]
  <2>1. below(s) \in SUBSET below(t) /\ below(s) # below(t) /\ IsFiniteSet(below(t))
    BY <1>3, <1>4, <1>6
  <2>2. Cardinality(below(s)) <= Cardinality(below(t)) /\ Cardinality(below(s)) # Cardinality(below(t))
    BY <2>1, FS_Subset
  <2>3. rank[s] # rank[t] /\ rank[s] <= rank[t]
    BY <1>2, <2>2
  <2> DEFINE a == rank[s]
             b == rank[t]
  <2>4. a \in Int /\ b \in Int /\ a # b /\ a <= b
    BY <1>5, <2>3
  <2> HIDE DEF a, b
  <2>5. a < b
    BY <2>4
  <2>6. QED
    BY <2>5 DEF a, b
<1> HIDE DEF place
<1>7. ASSUME NEW s \in 1 .. n, NEW t \in 1 .. n
      PROVE  /\ rank[s] < rank[t] => id[s] < id[t]
             /\ rank[s] = rank[t] => s = t
  <2>1. id[s] < id[t] => rank[s] < rank[t]
    BY <1>6
  <2>2. id[t] < id[s] => rank[t] < rank[s]
    BY <1>6
  <2> DEFINE a == rank[s]
             b == rank[t]
             x == id[s]
             y == id[t]
  <2>3. a \in Int /\ b \in Int /\ x \in Int /\ y \in Int
    BY <1>5
  <2>4. (x < y => a < b) /\ (y < x => b < a) /\ (x = y => a = b /\ s = t)
    BY <2>1, <2>2
  <2> HIDE DEF a, b, x, y
  <2>5. (a < b => x < y) /\ (a = b => x = y)
    BY <2>3, <2>4
  <2>6. QED
    BY <2>4, <2>5 DEF a, b, x, y
<1>8. place \in Injection(1 .. n, 1 .. n)
  <2>1. \A s \in 1 .. n : rank[s] + 1 \in 1 .. n
    BY <1>4
  <2>2. place \in [1 .. n -> 1 .. n]
    BY <2>1 DEF place
  <2>3. \A s, t \in 1 .. n : place[s] = place[t] => rank[s] = rank[t]
    <3>1. \A s \in 1 .. n : place[s] = rank[s] + 1
      BY DEF place
    <3>2. SUFFICES ASSUME NEW s \in 1 .. n, NEW t \in 1 .. n, place[s] = place[t]
                   PROVE  rank[s] = rank[t]
      OBVIOUS
    <3> DEFINE a == rank[s]
               b == rank[t]
    <3>3. a \in Int /\ b \in Int /\ a + 1 = b + 1
      BY <1>5, <3>1, <3>2
    <3> HIDE DEF a, b
    <3>4. a = b
      BY <3>3
    <3>5. QED
      BY <3>4 DEF a, b
  <2>4. \A s, t \in 1 .. n : place[s] = place[t] => s = t
    BY <1>7, <2>3
  <2>5. DOMAIN place = 1 .. n
    BY <2>2
  <2>6. IsInjective(place)
    BY <2>4, <2>5 DEF IsInjective
  <2>7. QED
    BY <2>2, <2>6 DEF Injection
<1>9. place \in Surjection(1 .. n, 1 .. n)
  BY <1>1, <1>8, FS_Injection
<1>10. ASSUME NEW k \in 1 .. n PROVE \E s \in 1 .. n : rank[s] = k - 1
  <2>1. PICK s \in 1 .. n : place[s] = k
    BY <1>9 DEF Surjection
  <2>2. rank[s] + 1 = k /\ rank[s] \in Int
    BY <1>5, <2>1 DEF place
  <2>3. rank[s] = k - 1
    BY <2>2
  <2>4. QED
    BY <2>3
<1>11. QED
  BY <1>4, <1>7, <1>10

\* What is listed: the sources in the order of their names, each as it was loaded.
LEMMA Listed ==
    ASSUME file \in Files, DistinctIds
    PROVE  /\ Len(ListSources) = N /\ DOMAIN ListSources = Sources
           /\ \A k \in 1 .. (N - 1) : ListSources[k].id < ListSources[k + 1].id
           /\ \A s \in Sources : \E k \in Sources :
                 LET source == Loaded(file).sources[s] IN
                 ListSources[k] = [id |-> source.name, engine |-> source.type,
                                   display_name |-> source.display_name,
                                   description |-> source.description,
                                   aliases |-> source.aliases, keywords |-> source.keywords]
<1> DEFINE sources == Loaded(file).sources
           id == [s \in Sources |-> sources[s].name]
           rank == [s \in Sources |-> Cardinality({t \in Sources : id[t] < id[s]})]
           Info(s) == [id |-> sources[s].name, engine |-> sources[s].type,
                       display_name |-> sources[s].display_name,
                       description |-> sources[s].description,
                       aliases |-> sources[s].aliases, keywords |-> sources[s].keywords]
           At(k) == CHOOSE s \in Sources : rank[s] = k - 1
<1>1. N \in Nat /\ Sources = 1 .. N
  BY Numbered DEF Sources
<1>2. id \in [1 .. N -> Nat]
  <2>1. ASSUME NEW s \in Sources PROVE sources[s].name \in Nat
    <3>1. file.sources[s] \in SourceConfigs
      BY Numbered
    <3>2. sources[s] = normalizeSourceProfile(file.sources[s])
      BY Numbered DEF Loaded, Normalized
    <3>3. sources[s].name = file.sources[s].name
      BY <3>1, <3>2, NormalizedSource
    <3>4. QED
      BY <3>1, <3>3 DEF SourceConfigs
  <2>2. QED
    BY <1>1, <2>1
<1>3. \A s, t \in 1 .. N : id[s] = id[t] => s = t
  BY <1>1 DEF DistinctIds
<1>4. ListSources = [k \in Sources |-> Info(At(k))]
  <2>1. \A s \in Sources : rank[s] = Cardinality({t \in Sources : sources[t].name < sources[s].name})
    OBVIOUS
  <2>2. \A k \in Sources : At(k) = CHOOSE s \in Sources :
           Cardinality({t \in Sources : sources[t].name < sources[s].name}) = k - 1
    BY <2>1
  <2> HIDE DEF sources, rank, At, id
  <2>3. QED
    BY <2>2 DEF ListSources, SourcesByID, sources
<1> HIDE DEF id, rank, At, sources
<1>5. /\ \A s \in 1 .. N : rank[s] \in 0 .. (N - 1)
      /\ \A k \in 1 .. N : \E s \in 1 .. N : rank[s] = k - 1
      /\ \A s, t \in 1 .. N : rank[s] < rank[t] => id[s] < id[t]
      /\ \A s, t \in 1 .. N : rank[s] = rank[t] => s = t
  <2>1. rank = [s \in 1 .. N |-> Cardinality({t \in 1 .. N : id[t] < id[s]})]
    BY <1>1 DEF rank
  <2>2. \A s, t \in 1 .. N : id[s] = id[t] => s = t
    BY <1>3
  <2>3. \A n \in Nat : \A f \in [1 .. n -> Nat] :
           (\A s, t \in 1 .. n : f[s] = f[t] => s = t) =>
              \A g : g = [s \in 1 .. n |-> Cardinality({t \in 1 .. n : f[t] < f[s]})] =>
                  /\ \A s \in 1 .. n : g[s] \in 0 .. (n - 1)
                  /\ \A k \in 1 .. n : \E s \in 1 .. n : g[s] = k - 1
                  /\ \A s, t \in 1 .. n : g[s] < g[t] => f[s] < f[t]
                  /\ \A s, t \in 1 .. n : g[s] = g[t] => s = t
    BY Places, Zenon
  <2>4. \A g : g = [s \in 1 .. N |-> Cardinality({t \in 1 .. N : id[t] < id[s]})] =>
                  /\ \A s \in 1 .. N : g[s] \in 0 .. (N - 1)
                  /\ \A k \in 1 .. N : \E s \in 1 .. N : g[s] = k - 1
                  /\ \A s, t \in 1 .. N : g[s] < g[t] => id[s] < id[t]
                  /\ \A s, t \in 1 .. N : g[s] = g[t] => s = t
    BY <1>1, <1>2, <2>2, <2>3, Zenon
  <2>5. QED
    BY <2>1, <2>4, Zenon
<1>6. \A s \in Sources : Info(s).id = id[s]
  BY DEF id
<1>7. \A k \in Sources : At(k) \in Sources /\ rank[At(k)] = k - 1
  BY <1>1, <1>5 DEF At
<1>8. ASSUME NEW s \in Sources PROVE rank[s] + 1 \in Sources /\ At(rank[s] + 1) = s
  <2> DEFINE r == rank[s]
  <2>1. r \in 0 .. (N - 1)
    BY <1>1, <1>5
  <2> HIDE DEF r
  <2>2. r + 1 \in 1 .. N /\ (r + 1) - 1 = r
    BY <1>1, <2>1
  <2>3. At(r + 1) \in 1 .. N /\ rank[At(r + 1)] = r
    BY <1>1, <1>7, <2>2
  <2>4. QED
    BY <1>1, <1>5, <2>2, <2>3 DEF r
<1>9. ASSUME NEW k \in 1 .. (N - 1) PROVE ListSources[k].id < ListSources[k + 1].id
  <2>1. k \in 1 .. N /\ k + 1 \in 1 .. N /\ k - 1 < (k + 1) - 1
    BY <1>1
  <2>2. rank[At(k)] < rank[At(k + 1)]
    BY <1>1, <1>7, <2>1
  <2>3. id[At(k)] < id[At(k + 1)]
    BY <1>1, <1>5, <1>7, <2>1, <2>2
  <2>4. ListSources[k].id = id[At(k)] /\ ListSources[k + 1].id = id[At(k + 1)]
    BY <1>1, <1>4, <1>6, <1>7, <2>1
  <2>5. QED
    BY <2>3, <2>4
<1>10. DOMAIN ListSources = Sources /\ Len(ListSources) = N
  BY <1>1, <1>4
<1>11. ASSUME NEW s \in Sources PROVE \E k \in Sources : ListSources[k] = Info(s)
  BY <1>4, <1>8
<1>12. QED
  BY <1>9, <1>10, <1>11 DEF sources

\* Clients of a server with any number of sources, whatever their profiles say, are
\* shown what was configured: each source once, in the order of the ids, and no text
\* differs by more than the white space around it.
THEOREM ListedAsConfigured == Spec => []ListsWhatIsConfigured
<1>1. ASSUME IInv, stage = "serving" PROVE ListsWhatIsConfigured
  <2>1. file \in Files /\ DistinctIds
    BY <1>1 DEF IInv, TypeOK, Pools
  <2> DEFINE kept(s) == Loaded(file).sources[s]
             Info(s) == [id |-> kept(s).name, engine |-> kept(s).type,
                         display_name |-> kept(s).display_name,
                         description |-> kept(s).description,
                         aliases |-> kept(s).aliases, keywords |-> kept(s).keywords]
             Same(a, b) == a = [ink |-> b.ink, pad |-> FALSE]
             Shows(shown, source) ==
                /\ shown.id = source.name /\ shown.engine = source.type
                /\ Same(shown.display_name, source.display_name)
                /\ Same(shown.description, source.description)
                /\ \A field \in {"aliases", "keywords"} :
                      /\ DOMAIN shown[field] = DOMAIN source[field]
                      /\ \A j \in DOMAIN source[field] : Same(shown[field][j], source[field][j])
  <2>2. /\ Len(ListSources) = N /\ DOMAIN ListSources = Sources
        /\ \A k \in 1 .. (N - 1) : ListSources[k].id < ListSources[k + 1].id
        /\ \A s \in Sources : \E k \in Sources : ListSources[k] = Info(s)
    BY <2>1, Listed
  <2>3. ASSUME NEW s \in Sources PROVE Shows(Info(s), file.sources[s])
    <3> DEFINE source == file.sources[s]
    <3>1. source \in SourceConfigs
      BY <2>1, Numbered
    <3>2. kept(s) = normalizeSourceProfile(source)
      BY <2>1, Numbered DEF Loaded, Normalized
    <3>3. /\ Info(s).id = source.name /\ Info(s).engine = source.type
          /\ Info(s).display_name = TrimSpace(source.display_name)
          /\ Info(s).description = TrimSpace(source.description)
          /\ Info(s).aliases = [k \in DOMAIN source.aliases |-> TrimSpace(source.aliases[k])]
          /\ Info(s).keywords = [k \in DOMAIN source.keywords |-> TrimSpace(source.keywords[k])]
      BY <3>1, <3>2, NormalizedSource
    <3>4. ASSUME NEW t \in Texts PROVE Same(TrimSpace(t), t)
      <4>1. TrimSpace(t) \in Texts /\ TrimSpace(t).ink = t.ink /\ TrimSpace(t).pad = FALSE
        BY DEF Texts, TrimSpace
      <4>2. TrimSpace(t) = [ink |-> TrimSpace(t).ink, pad |-> TrimSpace(t).pad]
        BY <4>1 DEF Texts
      <4>3. QED
        BY <4>1, <4>2
    <3>5. /\ source.display_name \in Texts /\ source.description \in Texts
          /\ source.aliases \in Seq(Texts) /\ source.keywords \in Seq(Texts)
      BY <3>1 DEF SourceConfigs
    <3>6. /\ \A j \in DOMAIN source.aliases : source.aliases[j] \in Texts
          /\ \A j \in DOMAIN source.keywords : source.keywords[j] \in Texts
      BY <3>5
    <3> HIDE DEF source, Same, Info
    <3>7. QED
      BY <3>3, <3>4, <3>5, <3>6 DEF source
  <2>4. \A s \in Sources : \E k \in DOMAIN ListSources : Shows(ListSources[k], file.sources[s])
    <3> HIDE DEF Shows, Info
    <3>1. QED
      BY <2>2, <2>3
  <2>5. QED
    BY <1>1, <2>2, <2>4 DEF ListsWhatIsConfigured
<1>2. IInv => ListsWhatIsConfigured
  BY <1>1 DEF ListsWhatIsConfigured
<1>3. QED
  BY <1>2, Inductive, PTL
=============================================================================
