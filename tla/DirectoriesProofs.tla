-------------------------- MODULE DirectoriesProofs --------------------------
(***************************************************************************)
(* What TLAPS proves of Directories, as ClientMC has it beside ClientSync:  *)
(* for every finite tree, every set of devices, any number of actions of    *)
(* users and mishaps.                                                       *)
(***************************************************************************)
EXTENDS ClientMC, ClientSyncProofs

-----------------------------------------------------------------------------
(* The tree.  Above is a recursive function: that one exists is shown by the *)
(* set of all that every set that is closed upwards has with p.              *)

Up(p) == {q \in D!Path : \A T \in SUBSET Dir :
                            p \in T /\ (\A r \in T \ {Root} : Parent[r] \in T) => q \in T}

\* Up is a solution of the equation that defines Above.
LEMMA UpSolves ==
    ASSUME NEW p \in Dir
    PROVE  Up(p) = IF p = Root THEN {} ELSE {p} \cup Up(Parent[p])
<1>1. CASE p = Root
  <2>1. {Root} \in SUBSET Dir
    BY TreeAssumption
  <2>2. \A q \in Up(p) : q \in {Root} /\ q # Root
    BY <1>1, <2>1 DEF Up, D!Path
  <2> QED BY <1>1, <2>2
<1>2. CASE p # Root
  <2>1. Parent[p] \in Dir /\ p \in D!Path
    BY <1>2, TreeAssumption DEF D!Path
  <2>2. p \in Up(p)
    BY <2>1 DEF Up
  <2>3. ASSUME NEW q \in Up(Parent[p]) PROVE q \in Up(p)
    BY <1>2, <2>1 DEF Up
  <2>4. ASSUME NEW q \in Up(p), q # p PROVE q \in Up(Parent[p])
    <3> SUFFICES ASSUME NEW T \in SUBSET Dir, Parent[p] \in T,
                        \A r \in T \ {Root} : Parent[r] \in T
                 PROVE  q \in T
      BY <2>4 DEF Up
    <3> DEFINE U == T \cup {p}
    <3>1. U \in SUBSET Dir /\ p \in U /\ \A r \in U \ {Root} : Parent[r] \in U
      OBVIOUS
    <3> HIDE DEF U
    <3>2. q \in U
      BY <2>4, <3>1 DEF Up
    <3> QED BY <3>2, <2>4 DEF U
  <2> QED BY <1>2, <2>2, <2>3, <2>4
<1> QED BY <1>1, <1>2

\* The equation that defines Above holds.
LEMMA AboveIs ==
    /\ D!Above[Root] = {}
    /\ \A p \in D!Path : Parent[p] \in Dir /\ D!Above[p] = {p} \cup D!Above[Parent[p]]
<1> DEFINE F(f) == [p \in Dir |-> IF p = Root THEN {} ELSE {p} \cup f[Parent[p]]]
           g == [p \in Dir |-> Up(p)]
<1>1. g = F(g)
  <2>1. \A p \in Dir : g[p] = F(g)[p]
    BY UpSolves, TreeAssumption
  <2> QED BY <2>1
<1>2. D!Above = CHOOSE f : f = F(f)
  BY DEF D!Above
<1> HIDE DEF F, g
<1>3. D!Above = F(D!Above)
  BY <1>1, <1>2
<1>4. \A p \in Dir : D!Above[p] = IF p = Root THEN {} ELSE {p} \cup D!Above[Parent[p]]
  BY <1>3 DEF F
<1> QED BY <1>4, TreeAssumption DEF D!Path

\* A path lies in directories.
LEMMA AbovePaths == \A p \in Dir : D!Above[p] \subseteq D!Path
<1> DEFINE S == {p \in D!Path : ~(D!Above[p] \subseteq D!Path)}
<1>1. S = {}
  <2> SUFFICES ASSUME S # {} PROVE FALSE
    OBVIOUS
  <2>1. PICK p \in S : Parent[p] \notin S
    BY TreeAssumption DEF D!Path
  <2>2. D!Above[Parent[p]] \subseteq D!Path
    BY <2>1, AboveIs DEF D!Path
  <2> QED BY <2>1, <2>2, AboveIs
<1> QED BY <1>1, AboveIs DEF D!Path

-----------------------------------------------------------------------------
(* Sequences and bags, as the instance of Directories has them. *)

\* What is queued of a list: no event twice.
LEMMA QueueTakes ==
    ASSUME NEW S, NEW s \in Seq(S), NEW t \in Seq(S)
    PROVE  /\ D!Distinct(s \o t) \in Seq(S) /\ D!IsInjective(D!Distinct(s \o t))
           /\ ToSet(D!Distinct(s \o t)) = ToSet(s) \cup ToSet(t)
<1>1. \A q : D!Distinct(q) = Distinct(q)
  BY DEF D!Distinct, D!Picked, Distinct, Picked, D!Cardinality, Cardinality
<1>2. \A q : D!IsInjective(q) = IsInjective(q)
  BY DEF D!IsInjective, IsInjective
<1>3. s \o t \in Seq(S) /\ ToSet(s \o t) = ToSet(s) \cup ToSet(t)
  BY ToSetConcat
<1> QED BY <1>1, <1>2, <1>3, DistinctKeeps

\* There are n numbers from 1 to n.
LEMMA CardOfRange == \A n \in Nat : Cardinality(1..n) = n /\ IsFiniteSet(1..n)
BY FS_Interval

\* A finite set has a sequence of its elements.
LEMMA SomeOrder ==
    ASSUME NEW S, IsFiniteSet(S)
    PROVE  D!SetToSeq(S) \in Seq(S) /\ ToSet(D!SetToSeq(S)) = S
<1>1. \A T : D!Cardinality(T) = Cardinality(T)
  BY DEF D!Cardinality, Cardinality
<1>2. Cardinality(S) \in Nat
  BY FS_CardinalityType
<1>3. PICK f : f \in Bijection(1..Cardinality(S), S)
  BY FS_CardinalityType DEF ExistsBijection
<1>4. f \in [1..D!Cardinality(S) -> S] /\ D!IsInjective(f)
  BY <1>1, <1>3 DEF Bijection, Injection, D!IsInjective, IsInjective
<1> DEFINE s == D!SetToSeq(S)
<1>5. s \in [1..Cardinality(S) -> S] /\ D!IsInjective(s)
  BY <1>1, <1>4 DEF D!SetToSeq
<1> HIDE DEF s
<1>6. s \in Seq(S) /\ DOMAIN s = 1..Cardinality(S)
  BY <1>2, <1>5, SeqDef
<1>7. s \in Injection(1..Cardinality(S), S)
  BY <1>5 DEF Injection, D!IsInjective, IsInjective
<1>8. s \in Surjection(1..Cardinality(S), S)
  BY <1>7, <1>2, CardOfRange, FS_Injection
<1>9. \A x \in S : \E i \in 1..Cardinality(S) : s[i] = x
  BY <1>8 DEF Surjection
<1>10. \A i \in 1..Cardinality(S) : s[i] \in S
  BY <1>5
<1>11. ToSet(s) = S
  BY <1>6, <1>9, <1>10 DEF ToSet
<1> QED BY <1>6, <1>11 DEF s

\* So has every order that is listed.
LEMMA EachOrder ==
    ASSUME NEW S, IsFiniteSet(S), NEW s \in D!SetToSeqs(S)
    PROVE  s \in Seq(S) /\ ToSet(s) = S
<1>1. \A T : D!Cardinality(T) = Cardinality(T)
  BY DEF D!Cardinality, Cardinality
<1>2. Cardinality(S) \in Nat
  BY FS_CardinalityType
<1>3. s \in Injection(1..Cardinality(S), S)
  BY <1>1 DEF D!SetToSeqs, Injection, IsInjective
<1>4. s \in Surjection(1..Cardinality(S), S)
  BY <1>3, <1>2, CardOfRange, FS_Injection
<1>5. s \in Seq(S) /\ DOMAIN s = 1..Cardinality(S)
  BY <1>2, <1>3, SeqDef DEF Injection
<1>6. \A x \in S : \E i \in 1..Cardinality(S) : s[i] = x
  BY <1>4 DEF Surjection
<1>7. \A i \in 1..Cardinality(S) : s[i] \in S
  BY <1>3 DEF Injection
<1>8. ToSet(s) = S
  BY <1>5, <1>6, <1>7 DEF ToSet
<1> QED BY <1>5, <1>8

-----------------------------------------------------------------------------
(* Types.  Beside TypeOK: a handler that is not idle has a directory, and    *)
(* only the calls that compare are about the root.                          *)

Asked == {c \in D!Call : c.op \in {"fetch", "store", "send"} => c.dir # Root}
Listings == [Dir -> SUBSET D!Path]
Table == [Dir -> {None} \cup SUBSET D!Path]
Posts(w) == D!IsABag(w) /\ D!BagToSet(w) \subseteq D!Notice

TreeTypes ==
    /\ D!TypeOK
    /\ calls \in [Device -> Seq(Asked)]
    /\ \A d \in Device : doing[d].at # "idle" => doing[d].dir \in D!Path

\* What a list of directories makes of signals.
LEMMA SignalsOf ==
    ASSUME NEW dlist \in Seq(D!Path), NEW m \in {"create", "delete", "from"}
    PROVE  /\ D!Signals(m, dlist) \in Seq(D!Signal)
           /\ ToSet(D!Signals(m, dlist)) = {[mask |-> m, dir |-> p] : p \in ToSet(dlist)}
<1>1. DOMAIN dlist = 1..Len(dlist) /\ Len(dlist) \in Nat /\ \A i \in DOMAIN dlist : dlist[i] \in D!Path
  OBVIOUS
<1> DEFINE f == D!Signals(m, dlist)
<1>2. f \in [1..Len(dlist) -> D!Signal]
  BY <1>1 DEF D!Signals, D!Signal
<1>3. DOMAIN f = DOMAIN dlist /\ \A i \in DOMAIN dlist : f[i] = [mask |-> m, dir |-> dlist[i]]
  BY DEF D!Signals
<1> HIDE DEF f
<1>4. f \in Seq(D!Signal)
  BY <1>1, <1>2, SeqDef
<1>5. ToSet(f) = {[mask |-> m, dir |-> p] : p \in ToSet(dlist)}
  BY <1>3 DEF ToSet
<1> QED BY <1>4, <1>5 DEF f

\* Sets of paths are finite.
LEMMA FewPaths == \A S \in SUBSET D!Path : IsFiniteSet(S)
BY TreeAssumption, FS_Subset DEF D!Path

\* What is below a path is paths.
LEMMA BelowPaths == \A p : D!Below(p) \subseteq D!Path
BY DEF D!Below

\* The kernel reports a list of directories.
LEMMA HearsTypes ==
    ASSUME heard \in [Device -> Seq(D!Signal)], NEW d \in Device, NEW dlist \in Seq(D!Path),
           NEW m \in {"create", "delete", "from"}, D!Hears(d, m, dlist)
    PROVE  heard' \in [Device -> Seq(D!Signal)]
<1>1. D!Signals(m, dlist) \in Seq(D!Signal)
  BY SignalsOf
<1>2. heard[d] \o D!Signals(m, dlist) \in Seq(D!Signal)
  BY <1>1
<1> QED BY <1>2 DEF D!Hears

\* Events are queued.
LEMMA PushTypes ==
    ASSUME queue \in [Device -> Seq(D!Signal)], \A d \in Device : D!IsInjective(queue[d]),
           NEW d \in Device, NEW dlist \in Seq(D!Path),
           NEW m \in {"create", "delete", "from"}, D!PushIf(d, dlist, m)
    PROVE  queue' \in [Device -> Seq(D!Signal)] /\ \A e \in Device : D!IsInjective(queue'[e])
<1>1. D!Signals(m, dlist) \in Seq(D!Signal)
  BY SignalsOf
<1> DEFINE q == D!Distinct(queue[d] \o D!Signals(m, dlist))
<1>2. q \in Seq(D!Signal) /\ D!IsInjective(q)
  BY <1>1, QueueTakes
<1>3. queue' = [queue EXCEPT ![d] = q]
  BY DEF D!PushIf
<1> HIDE DEF q
<1>4. queue' \in [Device -> Seq(D!Signal)]
  BY <1>2, <1>3
<1>5. \A e \in Device : queue'[e] = IF e = d THEN q ELSE queue[e]
  BY <1>3
<1> QED BY <1>2, <1>4, <1>5

\* Directories are made, with those they lie in.
LEMMA MakeDirsTypes ==
    ASSUME TreeTypes, NEW d \in Device, NEW p \in D!Path, D!MakeDirs(d, p)
    PROVE  /\ dirs' \in [Device -> SUBSET Dir] /\ heard' \in [Device -> Seq(D!Signal)]
           /\ watched' \in [Device -> SUBSET Dir] /\ snapshot' \in [Device -> SUBSET Dir]
<1> DEFINE missing == D!Above[p] \ dirs[d]
           first == {q \in missing : Parent[q] \in dirs[d] /\ D!Reported(d, q)}
<1>1. /\ dirs' = [dirs EXCEPT ![d] = @ \cup missing]
      /\ D!Hears(d, "create", D!SetToSeq(first)) /\ UNCHANGED <<watched, snapshot>>
  BY DEF D!MakeDirs, D!watcher
<1>2. missing \subseteq D!Path /\ D!Path \subseteq Dir
  BY AbovePaths DEF D!Path
<1>3. first \in SUBSET D!Path
  BY <1>2
<1> HIDE DEF missing, first
<1>4. D!SetToSeq(first) \in Seq(first)
  BY <1>3, FewPaths, SomeOrder
<1>5. D!SetToSeq(first) \in Seq(D!Path)
  BY <1>3, <1>4
<1>6. heard' \in [Device -> Seq(D!Signal)]
  BY <1>1, <1>5, HearsTypes DEF TreeTypes, D!TypeOK
<1>7. dirs' \in [Device -> SUBSET Dir]
  BY <1>1, <1>2 DEF TreeTypes, D!TypeOK
<1> QED BY <1>1, <1>6, <1>7 DEF TreeTypes, D!TypeOK

\* Directories go.
LEMMA EraseTypes ==
    ASSUME TreeTypes, NEW d \in Device, NEW p, D!Erase(d, p)
    PROVE  /\ dirs' \in [Device -> SUBSET Dir] /\ heard' \in [Device -> Seq(D!Signal)]
           /\ watched' \in [Device -> SUBSET Dir] /\ snapshot' \in [Device -> SUBSET Dir]
<1> DEFINE gone == D!Below(p) \cap dirs[d]
           told == {q \in gone : D!Reported(d, q)}
<1>1. PICK dlist \in D!Upwards(told) :
           /\ D!Hears(d, "delete", dlist)
           /\ dirs' = [dirs EXCEPT ![d] = @ \ gone]
           /\ watched' = [watched EXCEPT ![d] = @ \ gone] /\ UNCHANGED snapshot
  BY DEF D!Erase
<1>2. told \in SUBSET D!Path
  BY BelowPaths
<1> HIDE DEF gone, told
<1>3. dlist \in Seq(D!Path)
  <2>1. dlist \in D!SetToSeqs(told)
    BY <1>1 DEF D!Upwards
  <2>2. dlist \in Seq(told)
    BY <2>1, <1>2, FewPaths, EachOrder
  <2> QED BY <2>2, <1>2
<1>4. heard' \in [Device -> Seq(D!Signal)]
  BY <1>1, <1>3, HearsTypes DEF TreeTypes, D!TypeOK
<1> QED BY <1>1, <1>4 DEF TreeTypes, D!TypeOK

\* Rows of one device are replaced.
LEMMA RowsTypes ==
    ASSUME TreeTypes, NEW d \in Device, NEW new \in Table, D!SetRows(d, new)
    PROVE  rows' \in [Device -> Table]
BY DEF TreeTypes, D!TypeOK, D!SetRows, Table

\* A path is taken into, or out of, the list of the one it lies in.
LEMMA ListTypes ==
    ASSUME NEW t \in Table, NEW p \in D!Path
    PROVE  D!Listed(t, p) \in Table /\ D!Unlisted(t, p) \in Table
<1>1. Parent[p] \in Dir
  BY TreeAssumption DEF D!Path
<1>2. t[Parent[p]] # None => t[Parent[p]] \cup {p} \in SUBSET D!Path /\ t[Parent[p]] \ {p} \in SUBSET D!Path
  BY <1>1 DEF Table
<1> QED BY <1>1, <1>2 DEF D!Listed, D!Unlisted, Table

\* A path is forgotten.
LEMMA ForgetTypes ==
    ASSUME TreeTypes, NEW d \in Device, NEW p \in D!Path, D!Forget(d, p)
    PROVE  rows' \in [Device -> Table]
<1>1. D!Without(d, D!Linked(d, p)) \in Table
  BY DEF TreeTypes, D!TypeOK, D!Without, Table
<1>2. D!Unlisted(D!Without(d, D!Linked(d, p)), p) \in Table
  BY <1>1, ListTypes
<1> QED BY <1>2, RowsTypes DEF D!Forget

\* Each of a set of devices is told.
LEMMA PostsMore ==
    ASSUME Posts(notices), NEW S \in SUBSET D!Notice, notices' = D!(+)(notices, D!SetToBag(S))
    PROVE  Posts(notices)' /\ D!BagToSet(notices)' = D!BagToSet(notices) \cup S
<1>1. D!SetToBag(S) = [n \in S |-> 1]
  BY DEF D!SetToBag
<1>2. DOMAIN notices' = DOMAIN notices \cup S /\ D!IsABag(notices')
  BY <1>1 DEF Posts, D!IsABag, D!(+)
<1> QED BY <1>2 DEF Posts, D!BagToSet

\* A notice is taken.
LEMMA PostsLess ==
    ASSUME Posts(notices), NEW n \in D!BagToSet(notices),
           notices' = D!(-)(notices, D!SetToBag({n}))
    PROVE  /\ Posts(notices)' /\ D!BagToSet(notices)' \subseteq D!BagToSet(notices)
           /\ D!BagToSet(notices) \subseteq {n} \cup D!BagToSet(notices)'
<1>1. D!SetToBag({n}) = [m \in {n} |-> 1]
  BY DEF D!SetToBag
<1> DEFINE B == [e \in DOMAIN notices |-> IF e \in {n} THEN notices[e] - 1 ELSE notices[e]]
<1>3. notices' = [e \in {k \in DOMAIN B : B[k] > 0} |-> B[e]]
  BY <1>1 DEF D!(-)
<1>4. \A e \in DOMAIN notices : notices[e] \in Nat /\ notices[e] > 0
  BY DEF Posts, D!IsABag
<1>5. /\ DOMAIN B = DOMAIN notices /\ \A e \in DOMAIN notices : B[e] \in Nat
      /\ \A e \in DOMAIN notices : e # n => B[e] > 0
  BY <1>4
<1> HIDE DEF B
<1>2. /\ DOMAIN notices' \subseteq DOMAIN notices /\ DOMAIN notices \subseteq {n} \cup DOMAIN notices'
      /\ D!IsABag(notices')
  BY <1>3, <1>5 DEF D!IsABag
<1> QED BY <1>2 DEF Posts, D!BagToSet

\* The notices of a device that stops are lost.
LEMMA PostsStop ==
    ASSUME Posts(notices), NEW d \in Device,
           notices' = [n \in {m \in D!BagToSet(notices) : m.to # d} |-> notices[n]]
    PROVE  /\ Posts(notices)'
           /\ D!BagToSet(notices)' = {m \in D!BagToSet(notices) : m.to # d}
<1>1. DOMAIN notices' = {m \in DOMAIN notices : m.to # d} /\ D!IsABag(notices')
  BY DEF Posts, D!IsABag, D!BagToSet
<1> QED BY <1>1 DEF Posts, D!BagToSet

\* A change is told to devices that run.
LEMMA TellTypes ==
    ASSUME Posts(notices), NEW d \in Device, NEW p \in D!Path, NEW type \in {"DIR+", "DIR-"},
           D!Tell(d, p, type)
    PROVE  Posts(notices)'
<1> DEFINE S == {[to |-> e, type |-> type, dir |-> p] : e \in {e \in Device \ {d} : stage[e] = "on"}}
<1>1. S \in SUBSET D!Notice
  BY DEF D!Notice
<1>2. notices' = D!(+)(notices, D!SetToBag(S))
  BY DEF D!Tell
<1> HIDE DEF S
<1> QED BY <1>1, <1>2, PostsMore

\* The metaserver makes a directory.
LEMMA CreateTypes ==
    ASSUME TreeTypes, NEW d \in Device, NEW p \in D!Path, D!Create(d, p)
    PROVE  tree' \subseteq Dir /\ listing' \in Listings /\ Posts(notices)'
<1>1. tree \subseteq Dir /\ listing \in Listings /\ Posts(notices) /\ p \in Dir /\ Parent[p] \in Dir
  BY TreeAssumption DEF TreeTypes, D!TypeOK, Listings, Posts, D!Path
<1>2. CASE UNCHANGED D!server
  BY <1>1, <1>2 DEF D!server, Posts
<1>3. CASE /\ tree' = tree \cup {p}
           /\ listing' = [listing EXCEPT ![p] = {}, ![Parent[p]] = @ \cup {p}]
           /\ D!Tell(d, p, "DIR+")
  <2>1. listing' \in Listings
    BY <1>1, <1>3 DEF Listings
  <2> QED BY <1>1, <1>3, <2>1, TellTypes
<1> QED BY <1>2, <1>3 DEF D!Create

\* The metaserver deletes a path.
LEMMA DeleteTypes ==
    ASSUME TreeTypes, NEW d \in Device, NEW p \in D!Path, D!Delete(d, p)
    PROVE  tree' \subseteq Dir /\ listing' \in Listings /\ Posts(notices)'
<1>1. tree \subseteq Dir /\ listing \in Listings /\ Posts(notices) /\ p \in Dir /\ Parent[p] \in Dir
  BY TreeAssumption DEF TreeTypes, D!TypeOK, Listings, Posts, D!Path
<1>2. CASE UNCHANGED D!server
  BY <1>1, <1>2 DEF D!server, Posts
<1>3. CASE /\ tree' = tree \ {p}
           /\ listing' = [listing EXCEPT ![Parent[p]] = @ \ {p}]
           /\ D!Tell(d, p, "DIR-")
  <2>1. listing' \in Listings
    BY <1>1, <1>3 DEF Listings
  <2> QED BY <1>1, <1>3, <2>1, TellTypes
<1>4. CASE tree' = tree \ {p} /\ UNCHANGED <<listing, notices>>
  BY <1>1, <1>4 DEF Posts
<1> QED BY <1>2, <1>3, <1>4 DEF D!Delete

\* What is said to be lost, or not to be known, is paths.
LEMMA HistoryTypes ==
    ASSUME TreeTypes
    PROVE  /\ \A S \in SUBSET D!Path : D!Spoil(S) => doubtful' \subseteq D!Path
           /\ \A E \in SUBSET Device, p \in Dir : D!Unseen(E, p) => unseen' \in [Device -> SUBSET D!Path]
           /\ \A p \in Dir : D!Related(p) \subseteq D!Path
BY BelowPaths, AbovePaths DEF TreeTypes, D!TypeOK, D!Spoil, D!Unseen, D!Related

\* The devices that boot are devices.
LEMMA MissingTypes == \A d : D!Missing(d) \in SUBSET Device
BY DEF D!Missing

\* What the user does counts.
LEMMA DoesTypes == ASSUME TreeTypes, D!Does PROVE ops' \in 0..MaxOps
BY LimitAssumption DEF TreeTypes, D!TypeOK, D!Does

\* The user makes, removes or moves a directory.
LEMMA UserTypes ==
    ASSUME TreeTypes, NEW d \in Device, D!User(d)
    PROVE  TreeTypes'
<1>1. D!Path \subseteq Dir
  BY DEF D!Path
<1>2. PICK p \in D!Path : D!UserMakes(d, p) \/ D!UserRemoves(d, p) \/ D!UserMovesOut(d, p)
  BY DEF D!User
<1>3. D!Related(p) \subseteq D!Path /\ D!Below(p) \subseteq D!Path
  BY <1>1, HistoryTypes, BelowPaths
<1>4. CASE D!UserMakes(d, p)
  <2>1. /\ dirs' \in [Device -> SUBSET Dir] /\ heard' \in [Device -> Seq(D!Signal)]
        /\ watched' \in [Device -> SUBSET Dir] /\ snapshot' \in [Device -> SUBSET Dir]
    BY <1>4, MakeDirsTypes DEF D!UserMakes
  <2>2. doubtful' \subseteq D!Path
    BY <1>3, <1>4, HistoryTypes DEF D!UserMakes
  <2>3. unseen' \in [Device -> SUBSET D!Path]
    <3> DEFINE E0 == IF stage[d] = "off" \/ D!Reported(d, p) THEN {} ELSE {d}
    <3>1. PICK E \in SUBSET Device : D!Unseen(E, p)
      <4>1. D!Unseen(E0, p) /\ E0 \in SUBSET Device
        BY <1>4 DEF D!UserMakes
      <4> HIDE DEF E0
      <4> QED BY <4>1
    <3> QED BY <3>1, <1>1, HistoryTypes
  <2>4. ops' \in 0..MaxOps
    BY <1>4, DoesTypes DEF D!UserMakes
  <2> QED BY <1>4, <2>1, <2>2, <2>3, <2>4
          DEF TreeTypes, D!TypeOK, D!UserMakes, D!server, D!boot
<1>5. CASE D!UserRemoves(d, p)
  <2>1. /\ dirs' \in [Device -> SUBSET Dir] /\ heard' \in [Device -> Seq(D!Signal)]
        /\ watched' \in [Device -> SUBSET Dir] /\ snapshot' \in [Device -> SUBSET Dir]
    BY <1>5, EraseTypes DEF D!UserRemoves
  <2>2. doubtful' \subseteq D!Path
    BY <1>3, <1>5, HistoryTypes DEF D!UserRemoves
  <2>4. ops' \in 0..MaxOps
    BY <1>5, DoesTypes DEF D!UserRemoves
  <2> QED BY <1>5, <2>1, <2>2, <2>4
          DEF TreeTypes, D!TypeOK, D!UserRemoves, D!server, D!boot
<1>6. CASE D!UserMovesOut(d, p)
  <2>1. heard' \in [Device -> Seq(D!Signal)]
    <3> DEFINE l0 == IF D!Reported(d, p) THEN <<p>> ELSE <<>>
    <3>1. PICK dlist \in {<<p>>, <<>>} : D!Hears(d, "from", dlist)
      <4>1. D!Hears(d, "from", l0) /\ l0 \in {<<p>>, <<>>}
        BY <1>6 DEF D!UserMovesOut
      <4> HIDE DEF l0
      <4> QED BY <4>1
    <3> HIDE DEF l0
    <3>4. <<p>> \in Seq(D!Path) /\ <<>> \in Seq(D!Path)
      OBVIOUS
    <3>2. dlist \in Seq(D!Path)
      BY <3>1, <3>4
    <3>3. heard \in [Device -> Seq(D!Signal)]
      BY DEF TreeTypes, D!TypeOK
    <3> QED BY <3>1, <3>2, <3>3, HearsTypes
  <2>2. doubtful' \subseteq D!Path
    <3>1. PICK S \in {D!Related(p), D!Below(p) \ {p}} : D!Spoil(S)
      BY <1>6 DEF D!UserMovesOut
    <3> QED BY <3>1, <1>3, HistoryTypes
  <2>3. dirs' \in [Device -> SUBSET Dir] /\ watched' \in [Device -> SUBSET Dir]
    BY <1>6 DEF D!UserMovesOut, TreeTypes, D!TypeOK
  <2>4. ops' \in 0..MaxOps
    BY <1>6, DoesTypes DEF D!UserMovesOut
  <2> QED BY <1>6, <2>1, <2>2, <2>3, <2>4
          DEF TreeTypes, D!TypeOK, D!UserMovesOut, D!server, D!boot
<1> QED BY <1>2, <1>4, <1>5, <1>6

\* What an event of a queue is about.
LEMMA QueueHead ==
    ASSUME NEW q \in Seq(D!Signal), q # <<>>
    PROVE  /\ Head(q).dir \in D!Path /\ Head(q).mask \in {"create", "delete", "from"}
           /\ Tail(q) \in Seq(D!Signal) /\ Head(q) \in D!Signal
<1>1. Head(q) \in D!Signal /\ Tail(q) \in Seq(D!Signal)
  OBVIOUS
<1> QED BY <1>1 DEF D!Signal

\* No event twice, also when the first is taken.
LEMMA TailDistinct ==
    ASSUME NEW S, NEW q \in Seq(S), q # <<>>, D!IsInjective(q)
    PROVE  D!IsInjective(Tail(q))
<1>1. /\ DOMAIN q = 1..Len(q) /\ Len(q) \in Nat /\ DOMAIN Tail(q) = 1..(Len(q) - 1)
      /\ \A i \in 1..(Len(q) - 1) : Tail(q)[i] = q[i + 1]
  OBVIOUS
<1> QED BY <1>1 DEF D!IsInjective

\* The watcher and the thread of local events.
LEMMA WatchTypes ==
    ASSUME TreeTypes, NEW d \in Device, D!Watch(d)
    PROVE  TreeTypes'
<1> DEFINE s == Head(heard[d])
           p == s.dir
<1>1. /\ heard \in [Device -> Seq(D!Signal)] /\ queue \in [Device -> Seq(D!Signal)]
      /\ \A e \in Device : D!IsInjective(queue[e])
      /\ watched \in [Device -> SUBSET Dir] /\ snapshot \in [Device -> SUBSET Dir]
      /\ dirs \in [Device -> SUBSET Dir]
  BY DEF TreeTypes, D!TypeOK
<1>2. p \in D!Path /\ s.mask \in {"create", "delete", "from"} /\ Tail(heard[d]) \in Seq(D!Signal)
  BY <1>1, QueueHead DEF D!Watch
<1>3. heard' = [heard EXCEPT ![d] = Tail(heard[d])]
  BY DEF D!Watch
<1>4. heard' \in [Device -> Seq(D!Signal)]
  BY <1>1, <1>2, <1>3
<1>5. /\ watched' \in [Device -> SUBSET Dir] /\ snapshot' \in [Device -> SUBSET Dir]
      /\ queue' \in [Device -> Seq(D!Signal)] /\ \A e \in Device : D!IsInjective(queue'[e])
  <2>1. CASE /\ snapshot' = [snapshot EXCEPT ![d] = @ \cup {p}]
             /\ watched' = [watched EXCEPT ![d] = @ \cup ({p} \cap dirs[d])]
             /\ D!PushIf(d, <<p>>, "create")
    <3>1. <<p>> \in Seq(D!Path)
      BY <1>2
    <3>2. queue' \in [Device -> Seq(D!Signal)] /\ \A e \in Device : D!IsInjective(queue'[e])
      BY <3>1, <2>1, <1>1, PushTypes
    <3>3. p \in Dir
      BY <1>2 DEF D!Path
    <3> HIDE DEF p
    <3> QED BY <1>1, <2>1, <3>2, <3>3
  <2>2. CASE /\ snapshot' = [snapshot EXCEPT ![d] = @ \ D!Below(p)]
             /\ \E below \in D!SetToSeqs((D!Below(p) \cap snapshot[d] \cap dirs[d]) \ {p}) :
                  D!PushIf(d, Append(below, p), s.mask)
             /\ UNCHANGED watched
    <3> DEFINE B == (D!Below(p) \cap snapshot[d] \cap dirs[d]) \ {p}
    <3>1. B \in SUBSET D!Path
      BY BelowPaths
    <3>2. PICK below \in D!SetToSeqs(B) : D!PushIf(d, Append(below, p), s.mask)
      BY <2>2
    <3> HIDE DEF B, s, p
    <3>3. below \in Seq(D!Path)
      BY <3>1, <3>2, FewPaths, EachOrder
    <3>4. Append(below, p) \in Seq(D!Path)
      BY <3>3, <1>2
    <3>5. queue' \in [Device -> Seq(D!Signal)] /\ \A e \in Device : D!IsInjective(queue'[e])
      BY <3>2, <3>4, <1>1, <1>2, PushTypes
    <3> QED BY <1>1, <2>2, <3>5
  <2> HIDE DEF s, p
  <2>3. D!Watch(d) => \/ /\ snapshot' = [snapshot EXCEPT ![d] = @ \cup {p}]
                         /\ watched' = [watched EXCEPT ![d] = @ \cup ({p} \cap dirs[d])]
                         /\ D!PushIf(d, <<p>>, "create")
                      \/ /\ snapshot' = [snapshot EXCEPT ![d] = @ \ D!Below(p)]
                         /\ \E below \in D!SetToSeqs((D!Below(p) \cap snapshot[d] \cap dirs[d]) \ {p}) :
                              D!PushIf(d, Append(below, p), s.mask)
                         /\ UNCHANGED watched
    BY DEF D!Watch, s, p
  <2> QED BY <2>1, <2>2, <2>3
<1> HIDE DEF s, p
<1>6. UNCHANGED <<tree, listing, notices, dirs, rows, draining, stage, calls, doing, unseen, doubtful, ops, setbacks>>
  BY DEF D!Watch, D!server, D!boot, D!history, D!bounds
<1> QED BY <1>1, <1>4, <1>5, <1>6 DEF TreeTypes, D!TypeOK

\* What a handler goes on to.
Jobs == [Device -> [at : {"idle", "create", "store", "delete"}, dir : D!Path \cup {None}]]
JobsFit(jobs) == jobs \in Jobs /\ \A e \in Device : jobs[e].at # "idle" => jobs[e].dir \in D!Path
LEMMA JobTypes ==
    ASSUME TreeTypes, NEW d \in Device
    PROVE  /\ \A p \in D!Path, label \in {"create", "store", "delete"} : D!Go(d, label, p) => JobsFit(doing')
           /\ D!Finish(d) \/ UNCHANGED doing => JobsFit(doing')
<1>1. doing \in Jobs /\ \A e \in Device : doing[e].at # "idle" => doing[e].dir \in D!Path
  BY DEF TreeTypes, D!TypeOK, Jobs
<1>2. ASSUME NEW p \in D!Path, NEW label \in {"create", "store", "delete"}, D!Go(d, label, p)
      PROVE  JobsFit(doing')
  <2> DEFINE j == [at |-> label, dir |-> p]
  <2>1. j \in [at : {"idle", "create", "store", "delete"}, dir : D!Path \cup {None}] /\ j.dir \in D!Path
    OBVIOUS
  <2>2. doing' = [doing EXCEPT ![d] = j]
    BY <1>2 DEF D!Go
  <2> HIDE DEF j
  <2> QED BY <1>1, <2>1, <2>2 DEF JobsFit, Jobs
<1>3. CASE D!Finish(d)
  <2>1. D!Idle \in [at : {"idle", "create", "store", "delete"}, dir : D!Path \cup {None}] /\ D!Idle.at = "idle"
    BY DEF D!Idle
  <2>2. doing' = [doing EXCEPT ![d] = D!Idle]
    BY <1>3 DEF D!Finish
  <2> QED BY <1>1, <2>1, <2>2 DEF JobsFit, Jobs
<1>4. CASE UNCHANGED doing
  BY <1>1, <1>4 DEF JobsFit
<1> QED BY <1>2, <1>3, <1>4

\* The thread of local events.
LEMMA LocalTypes ==
    ASSUME TreeTypes, NEW d \in Device, D!Drain(d) \/ D!Local(d)
    PROVE  TreeTypes'
<1>1. CASE D!Drain(d)
  BY <1>1 DEF TreeTypes, D!TypeOK, D!Drain, D!server, D!watcher, D!boot, D!history, D!bounds
<1>2. CASE D!LocalEvent(d)
  <2> DEFINE s == Head(queue[d])
             p == s.dir
  <2>1. p \in D!Path /\ s.mask \in {"create", "delete", "from"} /\ Tail(queue[d]) \in Seq(D!Signal)
    BY <1>2, QueueHead DEF D!LocalEvent, TreeTypes, D!TypeOK
  <2>2. D!IsInjective(Tail(queue[d]))
    BY <1>2, TailDistinct DEF D!LocalEvent, TreeTypes, D!TypeOK
  <2>3. \/ UNCHANGED <<rows, doing>>
        \/ D!SetRows(d, D!Listed(rows[d], p)) /\ D!Go(d, "create", p)
        \/ D!Forget(d, p) /\ D!Go(d, "delete", p)
    BY <1>2 DEF D!LocalEvent
  <2>4. /\ queue' = [queue EXCEPT ![d] = Tail(queue[d])]
        /\ UNCHANGED <<tree, listing, notices, dirs, watched, snapshot, heard, draining, stage, calls,
                       unseen, doubtful, ops, setbacks>>
    BY <1>2 DEF D!LocalEvent, D!server, D!watcher, D!boot, D!history, D!bounds
  <2> HIDE DEF s, p
  <2>5. rows \in [Device -> Table] /\ rows[d] \in Table
    BY DEF TreeTypes, D!TypeOK, Table
  <2>6. rows' \in [Device -> Table]
    BY <2>1, <2>3, <2>5, ListTypes, RowsTypes, ForgetTypes
  <2>7. JobsFit(doing')
    BY <2>1, <2>3, JobTypes
  <2>8. queue' \in [Device -> Seq(D!Signal)] /\ \A e \in Device : D!IsInjective(queue'[e])
    BY <2>1, <2>2, <2>4 DEF TreeTypes, D!TypeOK
  <2> QED BY <2>4, <2>6, <2>7, <2>8 DEF TreeTypes, D!TypeOK, Table, JobsFit, Jobs
<1>3. CASE D!CreateDir(d)
  <2> DEFINE p == doing[d].dir
  <2>1. p \in D!Path /\ D!Create(d, p) /\ p \in Dir
    BY <1>3 DEF D!CreateDir, D!At, TreeTypes, D!Path
  <2>2. D!Unseen(D!Missing(d), p) /\ D!Go(d, "store", p)
    BY <1>3 DEF D!CreateDir
  <2>3. UNCHANGED <<dirs, rows, watched, snapshot, heard, queue, draining, stage, calls, doubtful, ops, setbacks>>
    BY <1>3 DEF D!CreateDir, D!watcher, D!events, D!boot, D!bounds
  <2> HIDE DEF p
  <2>4. tree' \subseteq Dir /\ listing' \in Listings /\ Posts(notices)'
    BY <2>1, CreateTypes
  <2>5. unseen' \in [Device -> SUBSET D!Path]
    <3>1. D!Missing(d) \in SUBSET Device
      BY MissingTypes
    <3> QED BY <2>1, <2>2, <3>1, HistoryTypes
  <2>6. JobsFit(doing')
    BY <2>1, <2>2, JobTypes
  <2> QED BY <2>3, <2>4, <2>5, <2>6 DEF TreeTypes, D!TypeOK, Listings, Posts, JobsFit, Jobs
<1>4. CASE D!StoreRow(d)
  <2>1. [rows[d] EXCEPT ![doing[d].dir] = {}] \in Table
    BY DEF TreeTypes, D!TypeOK, Table
  <2>2. rows' \in [Device -> Table]
    BY <1>4, <2>1, RowsTypes DEF D!StoreRow
  <2>3. JobsFit(doing')
    BY <1>4, JobTypes DEF D!StoreRow
  <2> QED BY <1>4, <2>2, <2>3
          DEF TreeTypes, D!TypeOK, Table, JobsFit, Jobs, D!StoreRow, D!server, D!watcher, D!events, D!boot, D!history, D!bounds
<1>5. CASE D!DeleteDir(d)
  <2> DEFINE p == doing[d].dir
  <2>1. p \in D!Path /\ D!Delete(d, p)
    BY <1>5 DEF D!DeleteDir, D!At, TreeTypes
  <2>2. tree' \subseteq Dir /\ listing' \in Listings /\ Posts(notices)'
    BY <2>1, DeleteTypes
  <2>3. doubtful' \subseteq D!Path
    <3>1. D!Spoil(IF D!Missing(d) # {} THEN D!Below(p) ELSE {})
      BY <1>5 DEF D!DeleteDir
    <3>2. D!Below(p) \in SUBSET D!Path
      BY BelowPaths
    <3> QED BY <3>1, <3>2 DEF D!Spoil, TreeTypes, D!TypeOK
  <2>4. JobsFit(doing')
    BY <1>5, JobTypes DEF D!DeleteDir
  <2>5. UNCHANGED <<dirs, rows, watched, snapshot, heard, queue, draining, stage, calls, unseen, ops, setbacks>>
    BY <1>5 DEF D!DeleteDir, D!watcher, D!events, D!boot, D!bounds
  <2> HIDE DEF p
  <2> QED BY <2>2, <2>3, <2>4, <2>5 DEF TreeTypes, D!TypeOK, Listings, Posts, JobsFit, Jobs
<1>6. CASE D!DrainEnds(d)
  BY <1>6 DEF TreeTypes, D!TypeOK, D!DrainEnds, D!server, D!watcher, D!boot, D!history, D!bounds
<1> QED BY <1>1, <1>2, <1>3, <1>4, <1>5, <1>6 DEF D!Local

\* A request has no response; a notice is lost.
LEMMA MishapTypes ==
    ASSUME TreeTypes, (\E d \in Device : D!RequestFails(d)) \/ D!LoseNotice
    PROVE  TreeTypes'
<1>1. ASSUME NEW d \in Device, D!RequestFails(d) PROVE TreeTypes'
  <2> DEFINE p == doing[d].dir
  <2>1. \/ D!At(d, "create") /\ D!Go(d, "store", p) /\ D!Unseen({d}, p) /\ UNCHANGED doubtful
        \/ D!At(d, "delete") /\ D!Finish(d) /\ D!Spoil(D!Below(p)) /\ UNCHANGED unseen
    BY <1>1 DEF D!RequestFails
  <2>2. p \in D!Path /\ p \in Dir /\ D!Below(p) \in SUBSET D!Path /\ {d} \in SUBSET Device
    BY <2>1, BelowPaths DEF D!At, TreeTypes, D!Path
  <2>3. setbacks' \in 0..MaxSetbacks
    BY <1>1, LimitAssumption DEF D!RequestFails, TreeTypes, D!TypeOK
  <2>4. UNCHANGED <<tree, listing, notices, dirs, rows, watched, snapshot, heard, queue, draining, stage, calls, ops>>
    BY <1>1 DEF D!RequestFails, D!server, D!watcher, D!events, D!boot
  <2> HIDE DEF p
  <2>5. doubtful' \subseteq D!Path /\ unseen' \in [Device -> SUBSET D!Path]
    <3>1. doubtful \subseteq D!Path /\ unseen \in [Device -> SUBSET D!Path]
      BY DEF TreeTypes, D!TypeOK
    <3> QED BY <2>1, <2>2, <3>1, HistoryTypes
  <2>6. JobsFit(doing')
    BY <2>1, <2>2, JobTypes
  <2> QED BY <2>3, <2>4, <2>5, <2>6 DEF TreeTypes, D!TypeOK, JobsFit, Jobs
<1>2. ASSUME D!LoseNotice PROVE TreeTypes'
  <2>1. PICK n \in D!BagToSet(notices) :
           /\ notices' = D!(-)(notices, D!SetToBag({n}))
           /\ \/ n.type = "DIR+" /\ D!Unseen({n.to}, n.dir) /\ UNCHANGED doubtful
              \/ n.type = "DIR-" /\ D!Spoil(D!Below(n.dir)) /\ UNCHANGED unseen
    BY <1>2 DEF D!LoseNotice
  <2>2. Posts(notices)
    BY DEF TreeTypes, D!TypeOK, Posts
  <2>3. Posts(notices)' /\ n \in D!Notice
    BY <2>1, <2>2, PostsLess DEF Posts
  <2>4. n.dir \in D!Path /\ n.dir \in Dir /\ {n.to} \in SUBSET Device /\ D!Below(n.dir) \in SUBSET D!Path
    BY <2>3, BelowPaths DEF D!Notice, D!Path
  <2>5. doubtful' \subseteq D!Path /\ unseen' \in [Device -> SUBSET D!Path]
    <3>1. doubtful \subseteq D!Path /\ unseen \in [Device -> SUBSET D!Path]
      BY DEF TreeTypes, D!TypeOK
    <3> QED BY <2>1, <2>4, <3>1, HistoryTypes
  <2>6. setbacks' \in 0..MaxSetbacks
    BY <1>2, LimitAssumption DEF D!LoseNotice, TreeTypes, D!TypeOK
  <2>7. UNCHANGED <<tree, listing, dirs, rows, watched, snapshot, heard, queue, draining, stage, calls, doing, ops>>
    BY <1>2 DEF D!LoseNotice, D!watcher, D!events, D!boot
  <2> QED BY <2>3, <2>5, <2>6, <2>7 DEF TreeTypes, D!TypeOK, Posts
<1> QED BY <1>1, <1>2

\* A notice is followed; a device stops.
LEMMA RemoteTypes ==
    ASSUME TreeTypes, NEW d \in Device, D!RemoteEvent(d) \/ D!Crash(d)
    PROVE  TreeTypes'
<1>0. Posts(notices)
  BY DEF TreeTypes, D!TypeOK, Posts
<1>1. CASE D!RemoteEvent(d)
  <2>1. PICK n \in D!BagToSet(notices) :
           /\ notices' = D!(-)(notices, D!SetToBag({n}))
           /\ \/ /\ n.type = "DIR+"
                 /\ D!MakeDirs(d, n.dir)
                 /\ IF D!HasRow(d, n.dir) THEN UNCHANGED rows
                    ELSE D!SetRows(d, D!Listed([rows[d] EXCEPT ![n.dir] = {}], n.dir))
              \/ /\ n.type = "DIR-"
                 /\ D!Erase(d, n.dir) /\ D!Forget(d, n.dir)
    BY <1>1 DEF D!RemoteEvent
  <2> DEFINE p == n.dir
  <2>2. Posts(notices)' /\ n \in D!Notice
    BY <2>1, <1>0, PostsLess DEF Posts
  <2>3. p \in D!Path
    BY <2>2 DEF D!Notice
  <2>4. /\ dirs' \in [Device -> SUBSET Dir] /\ heard' \in [Device -> Seq(D!Signal)]
        /\ watched' \in [Device -> SUBSET Dir] /\ snapshot' \in [Device -> SUBSET Dir]
    BY <2>1, <2>3, MakeDirsTypes, EraseTypes
  <2>5. rows' \in [Device -> Table]
    <3>1. [rows[d] EXCEPT ![p] = {}] \in Table /\ rows \in [Device -> Table]
      BY DEF TreeTypes, D!TypeOK, Table
    <3>2. D!Listed([rows[d] EXCEPT ![p] = {}], p) \in Table
      BY <2>3, <3>1, ListTypes
    <3> QED BY <2>1, <2>3, <3>1, <3>2, RowsTypes, ForgetTypes
  <2>6. UNCHANGED <<tree, listing, queue, draining, stage, calls, doing, unseen, doubtful, ops, setbacks>>
    BY <1>1 DEF D!RemoteEvent, D!boot, D!history, D!bounds
  <2> QED BY <2>2, <2>4, <2>5, <2>6 DEF TreeTypes, D!TypeOK, Posts, Table
<1>2. CASE D!Crash(d)
  <2>1. Posts(notices)'
    BY <1>0, <1>2, PostsStop DEF D!Crash
  <2>2. setbacks' \in 0..MaxSetbacks
    BY <1>2, LimitAssumption DEF D!Crash, TreeTypes, D!TypeOK
  <2>3. JobsFit(doing')
    BY <1>2, JobTypes DEF D!Crash
  <2>4. /\ stage' = [stage EXCEPT ![d] = "off"] /\ calls' = [calls EXCEPT ![d] = <<>>]
        /\ watched' = [watched EXCEPT ![d] = {}] /\ snapshot' = [snapshot EXCEPT ![d] = {}]
        /\ heard' = [heard EXCEPT ![d] = <<>>] /\ queue' = [queue EXCEPT ![d] = <<>>]
        /\ draining' = [draining EXCEPT ![d] = FALSE]
        /\ UNCHANGED <<tree, listing, dirs, rows, unseen, doubtful, ops>>
    BY <1>2 DEF D!Crash, D!history
  <2>5. <<>> \in Seq(D!Signal) /\ <<>> \in Seq(Asked) /\ <<>> \in Seq(D!Call) /\ D!IsInjective(<<>>)
    BY DEF D!IsInjective
  <2>6. /\ heard' \in [Device -> Seq(D!Signal)] /\ queue' \in [Device -> Seq(D!Signal)]
        /\ \A e \in Device : D!IsInjective(queue'[e])
        /\ calls' \in [Device -> Seq(Asked)] /\ calls' \in [Device -> Seq(D!Call)]
    BY <2>4, <2>5 DEF TreeTypes, D!TypeOK
  <2>7. /\ stage' \in [Device -> {"off", "pull", "push", "on"}] /\ draining' \in [Device -> BOOLEAN]
        /\ watched' \in [Device -> SUBSET Dir] /\ snapshot' \in [Device -> SUBSET Dir]
    BY <2>4 DEF TreeTypes, D!TypeOK
  <2>8. /\ tree' \subseteq Dir /\ listing' \in Listings /\ dirs' \in [Device -> SUBSET Dir]
        /\ rows' \in [Device -> Table] /\ unseen' \in [Device -> SUBSET D!Path] /\ doubtful' \subseteq D!Path
        /\ ops' \in 0..MaxOps
    BY <2>4 DEF TreeTypes, D!TypeOK, Listings, Table
  <2> QED BY <2>1, <2>2, <2>3, <2>6, <2>7, <2>8 DEF TreeTypes, D!TypeOK, Posts, Listings, Table, JobsFit, Jobs
<1> QED BY <1>1, <1>2

\* The calls that a call of the boot scan makes.
LEMMA CallsTypes ==
    ASSUME NEW op \in {"check", "fetch", "compare", "send"}, NEW S \in SUBSET D!Path,
           NEW c \in D!Calls(op, S)
    PROVE  /\ c \in Seq(Asked)
           /\ ToSet(c) = {[op |-> op, dir |-> p, list |-> {}] : p \in S}
<1>1. PICK t \in D!SetToSeqs(S) : c = [i \in DOMAIN t |-> [op |-> op, dir |-> t[i], list |-> {}]]
  BY DEF D!Calls
<1>2. t \in Seq(S) /\ ToSet(t) = S
  BY <1>1, FewPaths, EachOrder
<1>3. DOMAIN t = 1..Len(t) /\ Len(t) \in Nat /\ \A i \in 1..Len(t) : t[i] \in S
  BY <1>2
<1>4. \A p \in S : [op |-> op, dir |-> p, list |-> {}] \in Asked
  BY DEF Asked, D!Call, D!Path
<1>5. c \in [1..Len(t) -> Asked]
  BY <1>1, <1>3, <1>4
<1>6. c \in Seq(Asked)
  BY <1>3, <1>5, SeqDef
<1>7. ToSet(c) = {[op |-> op, dir |-> p, list |-> {}] : p \in S}
  BY <1>1, <1>2 DEF ToSet
<1> QED BY <1>6, <1>7

\* Calls return, and others are made.
LEMMA ReturnTypes ==
    ASSUME TreeTypes, NEW d \in Device, calls[d] # <<>>, NEW next \in Seq(Asked), D!Returns(d, next)
    PROVE  calls' \in [Device -> Seq(Asked)]
<1>1. Tail(calls[d]) \in Seq(Asked) /\ calls \in [Device -> Seq(Asked)]
  BY DEF TreeTypes
<1>2. next \o Tail(calls[d]) \in Seq(Asked)
  BY <1>1
<1> QED BY <1>1, <1>2 DEF D!Returns

\* The call that is running.
LEMMA CallHead ==
    ASSUME TreeTypes, NEW d \in Device, NEW op, D!Calling(d, op)
    PROVE  /\ Head(calls[d]) \in Asked /\ calls[d] # <<>> /\ Head(calls[d]).op = op
           /\ Head(calls[d]).dir \in Dir /\ Head(calls[d]).list \subseteq D!Path
           /\ op \in {"fetch", "store", "send"} => Head(calls[d]).dir \in D!Path
<1>1. calls[d] \in Seq(Asked) /\ calls[d] # <<>> /\ Head(calls[d]).op = op
  BY DEF TreeTypes, D!Calling
<1>2. Head(calls[d]) \in Asked
  BY <1>1
<1> QED BY <1>1, <1>2 DEF Asked, D!Call, D!Path

\* Calls that are asked for are calls.
LEMMA AskedCalls == [Device -> Seq(Asked)] \subseteq [Device -> Seq(D!Call)]
<1>1. Seq(Asked) \subseteq Seq(D!Call)
  BY DEF Asked
<1> QED BY <1>1

\* The boot scan begins, looks at a directory, or ends.
LEMMA ScanTypes ==
    ASSUME TreeTypes, NEW d \in Device,
           D!Boot(d) \/ D!Check(d) \/ D!Compare(d) \/ D!PullEnds(d) \/ D!PushEnds(d)
    PROVE  TreeTypes'
<1>0. /\ \A op \in {"check", "compare"} : <<[op |-> op, dir |-> Root, list |-> {}]>> \in Seq(Asked)
      /\ <<>> \in Seq(Asked)
  BY TreeAssumption DEF Asked, D!Call
<1>1. CASE D!Boot(d)
  <2>1. PICK gone : D!SetRows(d, [p \in Dir |-> IF p \in dirs[d] THEN D!ChildrenIn(dirs[d], p)
                                                  ELSE D!Without(d, gone)[p]])
    BY <1>1 DEF D!Boot
  <2>2. [p \in Dir |-> IF p \in dirs[d] THEN D!ChildrenIn(dirs[d], p) ELSE D!Without(d, gone)[p]] \in Table
    BY DEF TreeTypes, D!TypeOK, Table, D!ChildrenIn, D!Without, D!Path
  <2>3. rows' \in [Device -> Table]
    BY <2>1, <2>2, RowsTypes
  <2>4. calls' \in [Device -> Seq(Asked)]
    BY <1>0, <1>1 DEF D!Boot, TreeTypes
  <2>5. calls' \in [Device -> Seq(D!Call)]
    BY <2>4, AskedCalls
  <2>6. stage' \in [Device -> {"off", "pull", "push", "on"}] /\ unseen' \in [Device -> SUBSET D!Path]
    BY <1>1 DEF D!Boot, TreeTypes, D!TypeOK
  <2> QED BY <1>1, <2>3, <2>4, <2>5, <2>6
          DEF TreeTypes, D!TypeOK, Table, D!Boot, D!server, D!watcher, D!events, D!bounds
<1>2. CASE D!Check(d)
  <2> DEFINE p == Head(calls[d]).dir
  <2>1. D!Calling(d, "check")
    BY <1>2 DEF D!Check
  <2>2. p \in Dir /\ calls[d] # <<>>
    BY <2>1, CallHead
  <2>3. \/ D!Returns(d, <<>>)
        \/ \E known \in D!Calls("check", listing[p] \cap rows[d][p]),
              new \in D!Calls("fetch", listing[p] \ rows[d][p]) : D!Returns(d, known \o new)
    BY <1>2 DEF D!Check
  <2> HIDE DEF p
  <2>4. listing[p] \cap rows[d][p] \in SUBSET D!Path /\ listing[p] \ rows[d][p] \in SUBSET D!Path
    BY <2>2 DEF TreeTypes, D!TypeOK
  <2>5. PICK next \in Seq(Asked) : D!Returns(d, next)
    <3>1. ASSUME NEW known \in D!Calls("check", listing[p] \cap rows[d][p]),
                 NEW new \in D!Calls("fetch", listing[p] \ rows[d][p]), D!Returns(d, known \o new)
          PROVE  \E next \in Seq(Asked) : D!Returns(d, next)
      <4>1. known \in Seq(Asked) /\ new \in Seq(Asked)
        BY <2>4, CallsTypes
      <4>2. known \o new \in Seq(Asked)
        BY <4>1
      <4> QED BY <3>1, <4>2
    <3> QED BY <3>1, <2>3, <1>0
  <2>6. calls' \in [Device -> Seq(Asked)]
    BY <2>2, <2>5, ReturnTypes
  <2>7. calls' \in [Device -> Seq(D!Call)]
    BY <2>6, AskedCalls
  <2> QED BY <1>2, <2>6, <2>7
          DEF TreeTypes, D!TypeOK, D!Check, D!server, D!watcher, D!events, D!history, D!bounds
<1>3. CASE D!Compare(d)
  <2> DEFINE p == Head(calls[d]).dir
  <2>1. D!Calling(d, "compare")
    BY <1>3 DEF D!Compare
  <2>2. p \in Dir /\ calls[d] # <<>>
    BY <2>1, CallHead
  <2>3. \/ D!Returns(d, <<>>)
        \/ /\ D!HasRow(d, p)
           /\ \E known \in D!Calls("compare", rows[d][p] \cap listing[p]),
                 new \in D!Calls("send", rows[d][p] \ listing[p]) : D!Returns(d, known \o new)
    BY <1>3 DEF D!Compare
  <2> HIDE DEF p
  <2>4. D!HasRow(d, p) => rows[d][p] \cap listing[p] \in SUBSET D!Path /\ rows[d][p] \ listing[p] \in SUBSET D!Path
    BY <2>2 DEF TreeTypes, D!TypeOK, D!HasRow
  <2>5. PICK next \in Seq(Asked) : D!Returns(d, next)
    <3>1. ASSUME NEW known \in D!Calls("compare", rows[d][p] \cap listing[p]), D!HasRow(d, p),
                 NEW new \in D!Calls("send", rows[d][p] \ listing[p]), D!Returns(d, known \o new)
          PROVE  \E next \in Seq(Asked) : D!Returns(d, next)
      <4>1. known \in Seq(Asked) /\ new \in Seq(Asked)
        BY <2>4, <3>1, CallsTypes
      <4>2. known \o new \in Seq(Asked)
        BY <4>1
      <4> QED BY <3>1, <4>2
    <3> QED BY <3>1, <2>3, <1>0
  <2>6. calls' \in [Device -> Seq(Asked)]
    BY <2>2, <2>5, ReturnTypes
  <2>7. calls' \in [Device -> Seq(D!Call)]
    BY <2>6, AskedCalls
  <2> QED BY <1>3, <2>6, <2>7
          DEF TreeTypes, D!TypeOK, D!Compare, D!server, D!watcher, D!events, D!history, D!bounds
<1>4. CASE D!PullEnds(d)
  <2>4. calls' \in [Device -> Seq(Asked)]
    BY <1>0, <1>4 DEF D!PullEnds, TreeTypes
  <2>5. calls' \in [Device -> Seq(D!Call)]
    BY <2>4, AskedCalls
  <2> QED BY <1>4, <2>4, <2>5
          DEF TreeTypes, D!TypeOK, D!PullEnds, D!server, D!watcher, D!events, D!history, D!bounds
<1>5. CASE D!PushEnds(d)
  BY <1>5 DEF TreeTypes, D!TypeOK, D!PushEnds, D!server, D!events, D!history, D!bounds
<1> QED BY <1>1, <1>2, <1>3, <1>4, <1>5

\* The boot scan fetches a directory, or sends it.
LEMMA CarryTypes ==
    ASSUME TreeTypes, NEW d \in Device, D!FetchDir(d) \/ D!FetchStores(d) \/ D!SendDir(d)
    PROVE  TreeTypes'
<1> DEFINE p == Head(calls[d]).dir
<1>0. <<>> \in Seq(Asked)
  OBVIOUS
<1>1. CASE D!FetchDir(d)
  <2> DEFINE l == (IF D!HasRow(d, p) THEN rows[d][p] ELSE {}) \cup listing[p]
             c == [op |-> "store", dir |-> p, list |-> l]
  <2>1. p \in D!Path /\ p \in Dir /\ calls[d] # <<>>
    BY <1>1, CallHead DEF D!FetchDir
  <2>2. \/ D!Returns(d, <<>>) /\ UNCHANGED <<dirs, heard, watched, snapshot>>
        \/ /\ D!MakeDirs(d, p)
           /\ \E subdirs \in D!Calls("fetch", listing[p]) : D!Returns(d, subdirs \o <<c>>)
    BY <1>1 DEF D!FetchDir, D!watcher
  <2>3. c \in Asked /\ listing[p] \in SUBSET D!Path
    BY <2>1 DEF Asked, D!Call, TreeTypes, D!TypeOK, D!HasRow, D!Path
  <2>4. UNCHANGED <<tree, listing, notices, rows, queue, draining, stage, doing, unseen, doubtful, ops, setbacks>>
    BY <1>1 DEF D!FetchDir, D!server, D!history, D!bounds
  <2> HIDE DEF p, l, c
  <2>5. PICK next \in Seq(Asked) : D!Returns(d, next)
    <3>1. ASSUME NEW subdirs \in D!Calls("fetch", listing[p]), D!Returns(d, subdirs \o <<c>>)
          PROVE  \E next \in Seq(Asked) : D!Returns(d, next)
      <4>1. subdirs \in Seq(Asked)
        BY <2>3, CallsTypes
      <4>2. subdirs \o <<c>> \in Seq(Asked)
        BY <4>1, <2>3
      <4> QED BY <3>1, <4>2
    <3> QED BY <3>1, <2>2, <1>0
  <2>6. calls' \in [Device -> Seq(Asked)] /\ calls' \in [Device -> Seq(D!Call)]
    BY <2>1, <2>5, ReturnTypes, AskedCalls
  <2>7. /\ dirs' \in [Device -> SUBSET Dir] /\ heard' \in [Device -> Seq(D!Signal)]
        /\ watched' \in [Device -> SUBSET Dir] /\ snapshot' \in [Device -> SUBSET Dir]
    BY <2>1, <2>2, MakeDirsTypes DEF TreeTypes, D!TypeOK
  <2> QED BY <2>4, <2>6, <2>7 DEF TreeTypes, D!TypeOK
<1>2. CASE D!FetchStores(d)
  <2>1. p \in D!Path /\ calls[d] # <<>> /\ Head(calls[d]).list \subseteq D!Path
    BY <1>2, CallHead DEF D!FetchStores
  <2>2. D!SetRows(d, [rows[d] EXCEPT ![p] = Head(calls[d]).list]) /\ D!Returns(d, <<>>)
    BY <1>2 DEF D!FetchStores
  <2>3. UNCHANGED <<tree, listing, notices, dirs, watched, snapshot, heard, queue, draining, stage, doing,
                    unseen, doubtful, ops, setbacks>>
    BY <1>2 DEF D!FetchStores, D!server, D!watcher, D!events, D!history, D!bounds
  <2> DEFINE l == Head(calls[d]).list
  <2>5. l \subseteq D!Path /\ D!SetRows(d, [rows[d] EXCEPT ![p] = l])
    BY <2>1, <2>2
  <2> HIDE DEF p, l
  <2>4. [rows[d] EXCEPT ![p] = l] \in Table
    BY <2>5 DEF TreeTypes, D!TypeOK, Table
  <2>6. calls' \in [Device -> Seq(Asked)] /\ calls' \in [Device -> Seq(D!Call)]
    BY <1>0, <2>1, <2>2, ReturnTypes, AskedCalls
  <2>7. rows' \in [Device -> Table]
    BY <2>4, <2>5, RowsTypes
  <2> QED BY <2>3, <2>6, <2>7 DEF TreeTypes, D!TypeOK, Table
<1>3. CASE D!SendDir(d)
  <2> DEFINE l == IF D!HasRow(d, p) THEN rows[d][p] ELSE {}
  <2>1. p \in D!Path /\ p \in Dir /\ calls[d] # <<>>
    BY <1>3, CallHead DEF D!SendDir
  <2>2. /\ D!Create(d, p) /\ D!Unseen(D!Missing(d), p)
        /\ \E subdirs \in D!Calls("send", l) : D!Returns(d, subdirs)
        /\ \E S \in {D!Related(p), {}} : D!Spoil(S)
    BY <1>3 DEF D!SendDir
  <2>3. UNCHANGED <<dirs, rows, watched, snapshot, heard, queue, draining, stage, doing, ops, setbacks>>
    BY <1>3 DEF D!SendDir, D!watcher, D!events, D!bounds
  <2>4. l \in SUBSET D!Path
    BY <2>1 DEF TreeTypes, D!TypeOK, D!HasRow
  <2> HIDE DEF p, l
  <2>5. calls' \in [Device -> Seq(Asked)] /\ calls' \in [Device -> Seq(D!Call)]
    BY <2>1, <2>2, <2>4, CallsTypes, ReturnTypes, AskedCalls
  <2>6. tree' \subseteq Dir /\ listing' \in Listings /\ Posts(notices)'
    BY <2>1, <2>2, CreateTypes
  <2>7. unseen' \in [Device -> SUBSET D!Path]
    <3>1. D!Missing(d) \in SUBSET Device
      BY MissingTypes
    <3> QED BY <2>1, <2>2, <3>1, HistoryTypes
  <2>8. doubtful' \subseteq D!Path
    BY <2>1, <2>2, HistoryTypes
  <2> QED BY <2>3, <2>5, <2>6, <2>7, <2>8 DEF TreeTypes, D!TypeOK, Listings, Posts
<1> QED BY <1>1, <1>2, <1>3

\* At the beginning every device has a tree.
LEMMA TypesStart == ASSUME D!Init PROVE TreeTypes
<1>1. PICK S \in D!Trees :
         /\ tree = S
         /\ listing = [p \in Dir |-> D!ChildrenIn(S, p)]
         /\ dirs = [d \in Device |-> S] /\ watched = dirs /\ snapshot = dirs
         /\ rows = [d \in Device |-> [p \in Dir |-> IF p \in S THEN D!ChildrenIn(S, p) ELSE None]]
  BY DEF D!Init
<1>2. S \in SUBSET Dir /\ \A p \in Dir : D!ChildrenIn(S, p) \in SUBSET D!Path
  BY DEF D!Trees, D!ChildrenIn, D!Path
<1>3. /\ notices = D!EmptyBag /\ stage = [d \in Device |-> "on"] /\ calls = [d \in Device |-> <<>>]
      /\ heard = [d \in Device |-> <<>>] /\ queue = [d \in Device |-> <<>>]
      /\ draining = [d \in Device |-> FALSE] /\ doing = [d \in Device |-> D!Idle]
      /\ unseen = [d \in Device |-> {}] /\ doubtful = {} /\ ops = 0 /\ setbacks = 0
  BY DEF D!Init
<1>4. D!IsABag(notices) /\ D!BagToSet(notices) \subseteq D!Notice
  BY <1>3 DEF D!EmptyBag, D!SetToBag, D!IsABag, D!BagToSet
<1>5. /\ tree \subseteq Dir /\ listing \in [Dir -> SUBSET D!Path] /\ dirs \in [Device -> SUBSET Dir]
      /\ watched \in [Device -> SUBSET Dir] /\ snapshot \in [Device -> SUBSET Dir]
      /\ rows \in [Device -> [Dir -> {None} \cup SUBSET D!Path]]
  BY <1>1, <1>2
<1>6. <<>> \in Seq(D!Signal) /\ <<>> \in Seq(Asked) /\ <<>> \in Seq(D!Call) /\ D!IsInjective(<<>>)
  BY DEF D!IsInjective
<1>7. /\ heard \in [Device -> Seq(D!Signal)] /\ queue \in [Device -> Seq(D!Signal)]
      /\ \A d \in Device : D!IsInjective(queue[d])
      /\ calls \in [Device -> Seq(Asked)] /\ calls \in [Device -> Seq(D!Call)]
  BY <1>3, <1>6
<1>8. /\ doing \in [Device -> [at : {"idle", "create", "store", "delete"}, dir : D!Path \cup {None}]]
      /\ \A d \in Device : doing[d].at = "idle"
  BY <1>3 DEF D!Idle
<1>9. /\ draining \in [Device -> BOOLEAN] /\ stage \in [Device -> {"off", "pull", "push", "on"}]
      /\ unseen \in [Device -> SUBSET D!Path] /\ doubtful \subseteq D!Path
      /\ ops \in 0..MaxOps /\ setbacks \in 0..MaxSetbacks
  BY <1>3, LimitAssumption
<1> QED BY <1>4, <1>5, <1>7, <1>8, <1>9 DEF TreeTypes, D!TypeOK

\* Every step keeps the types.
LEMMA TypesStep == ASSUME TreeTypes, [D!Next]_directories PROVE TreeTypes'
<1>1. CASE UNCHANGED directories
  BY <1>1 DEF directories, TreeTypes, D!TypeOK
<1>2. CASE D!Next
  <2>1. ASSUME NEW d \in Device, D!Booting(d) PROVE TreeTypes'
    BY <2>1, ScanTypes, CarryTypes DEF D!Booting
  <2> QED BY <1>2, <2>1, UserTypes, WatchTypes, LocalTypes, RemoteTypes, MishapTypes DEF D!Next
<1> QED BY <1>1, <1>2

\* The variables of both halves keep their types, whatever is done in either.
THEOREM BothTyped == BothSpec => []TypesOK
<1>1. BothInit => Struct /\ TreeTypes
  BY StructInit, TypesStart DEF BothInit
<1>2. Struct /\ TreeTypes /\ [BothNext]_all => (Struct /\ TreeTypes)'
  <2> SUFFICES ASSUME Struct, TreeTypes, [BothNext]_all
               PROVE  (Struct /\ TreeTypes)'
    OBVIOUS
  <2>1. [Next]_vars /\ [D!Next]_directories
    BY DEF BothNext, MCNext, DirectoriesNext, all
  <2>2. TreeTypes'
    BY <2>1, TypesStep
  <2>3. Struct'
    BY <2>1, Steps
  <2> QED BY <2>2, <2>3
<1>3. Struct /\ TreeTypes => TypesOK
  BY DEF TypesOK, Struct, TreeTypes
<1> QED BY <1>1, <1>2, <1>3, PTL DEF BothSpec

-----------------------------------------------------------------------------
(* As long as no device stops.  A path is sure if nothing is known against   *)
(* it; what is on its way is read off events, jobs and notices.             *)

AllRun == \A d \in Device : stage[d] = "on"
Sure(p) == p \in D!Path /\ D!Clean(p)

Add(p) == [mask |-> "create", dir |-> p]
Drop(p) == {[mask |-> m, dir |-> p] : m \in {"delete", "from"}}
Trail(d) == queue[d] \o heard[d]
Works(d, at, p) == doing[d].at = at /\ doing[d].dir = p
HasAdd(d, p) == Add(p) \in ToSet(Trail(d))
HasDrop(d, p) == Drop(p) \cap ToSet(Trail(d)) # {}
Adding(d, p) == HasAdd(d, p) \/ Works(d, "create", p)
Dropping(d, p) == HasDrop(d, p) \/ Works(d, "delete", p)
Posted(d, p, type) == [to |-> d, type |-> type, dir |-> p] \in D!BagToSet(notices)

\* Something makes p somewhere; something takes it away.
Making(p) == \E d \in Device : Adding(d, p) \/ Works(d, "store", p) \/ Posted(d, p, "DIR+")
Dying(p) == \E d \in Device : Dropping(d, p) \/ Posted(d, p, "DIR-")

\* Every Add(b) of the sequence comes after an Add(a).
Leads(s, a, b) == \A i \in DOMAIN s : s[i] = Add(b) => \E j \in DOMAIN s : j < i /\ s[j] = Add(a)
Before(d, a, b) == Leads(Trail(d), a, b)

\* What is on a disk has its parent there.
Rooted ==
    /\ Root \in tree
    /\ \A d \in Device : Root \in dirs[d] /\ \A p \in D!Path : p \in dirs[d] => Parent[p] \in dirs[d]

\* Where the disk, the row and the servers differ, something is on its way.
Meets(d, p) ==
    /\ p \in dirs[d] /\ p \notin tree => Adding(d, p) \/ Posted(d, p, "DIR-")
    /\ p \notin dirs[d] /\ p \in tree => Dropping(d, p) \/ Posted(d, p, "DIR+")
    /\ p \in dirs[d] /\ ~D!HasRow(d, p) =>
         Adding(d, p) \/ Works(d, "store", p) \/ Posted(d, p, "DIR+")
    /\ D!HasRow(d, p) /\ p \notin dirs[d] => HasDrop(d, p)
    /\ D!HasRow(d, p) /\ p \notin tree => HasDrop(d, p) \/ Posted(d, p, "DIR-")
    /\ Adding(d, p) \/ Works(d, "store", p) => p \in dirs[d]
    /\ Works(d, "store", p) => p \in tree
    /\ Dropping(d, p) => p \notin dirs[d]
    /\ Posted(d, p, "DIR-") => p \notin tree

\* The metaserver lists what it has.
Lists(p) == p \in tree => Parent[p] \in tree /\ p \in listing[Parent[p]]

\* While p is taken away nothing is made in it, and nothing sure is there.
Gone(q) == q \notin tree /\ \A d \in Device : q \notin dirs[d] /\ ~D!HasRow(d, q)
Dead(p) ==
    Dying(p) => /\ \A b \in D!Below(p) : ~Making(b)
                /\ \A q \in D!Below(p) : Sure(q) => q = p \/ Gone(q)

\* What is made is made after what it lies in.
Ordered(d, b) ==
    \A a \in D!Above[b] : Sure(a) =>
      /\ Posted(d, b, "DIR+") => a \in tree
      /\ a # b /\ Works(d, "create", b) => a \in tree
      /\ a # b => a \in tree \/ Works(d, "create", a) \/ Before(d, a, b)

Following ==
    /\ TreeTypes
    /\ \A d \in Device : calls[d] = <<>>
    /\ Rooted
    /\ \A p \in D!Path : Sure(p) => Lists(p) /\ Dead(p) /\ \A d \in Device : Meets(d, p)
    /\ \A d \in Device, b \in D!Path : Ordered(d, b)

-----------------------------------------------------------------------------
(* The tree. *)

\* What is above what is above.
LEMMA AboveAll == \A b \in D!Path : \A a \in D!Above[b] : D!Above[a] \subseteq D!Above[b]
<1> DEFINE S == {b \in D!Path : \E a \in D!Above[b] : ~(D!Above[a] \subseteq D!Above[b])}
<1>1. S = {}
  <2> SUFFICES ASSUME S # {} PROVE FALSE
    OBVIOUS
  <2>1. PICK b \in S : Parent[b] \notin S
    BY TreeAssumption DEF D!Path
  <2>2. PICK a \in D!Above[b] : ~(D!Above[a] \subseteq D!Above[b])
    BY <2>1
  <2>3. D!Above[b] = {b} \cup D!Above[Parent[b]] /\ Parent[b] \in Dir
    BY <2>1, AboveIs
  <2>4. a \in D!Above[Parent[b]]
    BY <2>2, <2>3
  <2>5. Parent[b] \in D!Path
    BY <2>3, <2>4, AboveIs DEF D!Path
  <2>6. D!Above[a] \subseteq D!Above[Parent[b]]
    BY <2>1, <2>4, <2>5
  <2> QED BY <2>2, <2>3, <2>6
<1> QED BY <1>1

\* A path is above itself, and lies in its parent and in what that lies in.
LEMMA AboveOwn ==
    ASSUME NEW p \in D!Path
    PROVE  /\ p \in D!Above[p] /\ p \in D!Below(p) /\ p \in Dir /\ p # Root /\ Parent[p] \in Dir /\ Parent[p] # p
           /\ D!Above[p] \subseteq D!Path /\ D!Above[Parent[p]] \subseteq D!Above[p]
           /\ \A a \in D!Above[p] : a = p \/ a \in D!Above[Parent[p]]
           /\ Parent[p] # Root => Parent[p] \in D!Path /\ Parent[p] \in D!Above[p]
<1>1. p \in Dir /\ p # Root /\ Parent[p] \in Dir /\ D!Above[p] = {p} \cup D!Above[Parent[p]]
  BY AboveIs DEF D!Path
<1>2. Parent[p] # p
  <2>1. {p} \in SUBSET (Dir \ {Root})
    BY <1>1
  <2> QED BY <2>1, TreeAssumption
<1>3. ASSUME Parent[p] # Root PROVE Parent[p] \in D!Path /\ Parent[p] \in D!Above[p]
  <2>1. Parent[p] \in D!Path
    BY <1>1, <1>3 DEF D!Path
  <2> QED BY <2>1, <1>1, AboveIs
<1> QED BY <1>1, <1>2, <1>3, AbovePaths DEF D!Below

\* A tree has what its paths lie in; what has no child in it has nothing below.
LEMMA TreeAbove ==
    ASSUME NEW S, Root \in S, \A p \in D!Path : p \in S => Parent[p] \in S
    PROVE  /\ \A p \in D!Path : p \in S => D!Above[p] \subseteq S
           /\ \A p \in D!Path : D!ChildrenIn(S, p) = {} => D!Below(p) \cap S \subseteq {p}
<1>1. ASSUME NEW x \in D!Path, x \in S, ~(D!Above[x] \subseteq S) PROVE FALSE
  <2> DEFINE T == {p \in D!Path : p \in S /\ ~(D!Above[p] \subseteq S)}
  <2>1. PICK p \in T : Parent[p] \notin T
    <3>1. T # {} /\ T \in SUBSET (Dir \ {Root})
      BY <1>1 DEF D!Path
    <3> HIDE DEF T
    <3> QED BY <3>1, TreeAssumption
  <2>2. D!Above[p] = {p} \cup D!Above[Parent[p]] /\ Parent[p] \in Dir /\ Parent[p] \in S
    BY <2>1, AboveIs
  <2>3. Parent[p] = Root \/ D!Above[Parent[p]] \subseteq S
    BY <2>1, <2>2 DEF D!Path
  <2> QED BY <2>1, <2>2, <2>3, AboveIs
<1>2. ASSUME NEW p \in D!Path, D!ChildrenIn(S, p) = {}, NEW x \in D!Below(p) \cap S, x # p PROVE FALSE
  <2> DEFINE T == {q \in D!Path : q \in S /\ p \in D!Above[q] /\ q # p}
  <2>1. PICK q \in T : Parent[q] \notin T
    <3>1. T # {} /\ T \in SUBSET (Dir \ {Root})
      BY <1>2 DEF D!Below, D!Path
    <3> HIDE DEF T
    <3> QED BY <3>1, TreeAssumption
  <2>2. p \in D!Above[Parent[q]] /\ Parent[q] \in Dir /\ Parent[q] \in S
    BY <2>1, AboveIs
  <2>3. Parent[q] # Root
    BY <2>2, AboveIs
  <2>4. Parent[q] = p
    BY <2>1, <2>2, <2>3 DEF D!Path
  <2> QED BY <2>1, <2>4, <1>2 DEF D!ChildrenIn, D!Path
<1> QED BY <1>1, <1>2

\* A path is sure if neither it nor what it lies in is in doubt or unseen.
LEMMA SureIs ==
    ASSUME unseen \in [Device -> SUBSET D!Path], NEW p \in D!Path
    PROVE  Sure(p) <=> \A a \in D!Above[p] : a \notin doubtful /\ \A d \in Device : a \notin unseen[d]
BY DEF Sure, D!Clean, D!Range

LEMMA SureAbove ==
    ASSUME unseen \in [Device -> SUBSET D!Path], NEW p \in D!Path, Sure(p), NEW a \in D!Above[p]
    PROVE  Sure(a) /\ a \in D!Path
<1>1. a \in D!Path /\ D!Above[a] \subseteq D!Above[p]
  BY AboveOwn, AboveAll
<1> QED BY <1>1, SureIs

\* A path that was not sure is not sure later on.
LEMMA SureLess ==
    ASSUME unseen \in [Device -> SUBSET D!Path], unseen' \in [Device -> SUBSET D!Path],
           doubtful \subseteq doubtful', \A d \in Device : unseen[d] \subseteq unseen'[d],
           NEW p \in D!Path, Sure(p)'
    PROVE  Sure(p) /\ \A a \in D!Above[p] : a \notin doubtful' /\ \A d \in Device : a \notin unseen'[d]
<1>1. \A a \in D!Above[p] : a \notin doubtful' /\ \A d \in Device : a \notin unseen'[d]
  BY DEF Sure, D!Clean, D!Range, D!Path
<1> QED BY <1>1, SureIs

-----------------------------------------------------------------------------
(* Events in their order. *)

\* Signals are added behind others.
LEMMA LeadsMore ==
    ASSUME NEW s \in Seq(D!Signal), NEW t \in Seq(D!Signal), NEW a, NEW b,
           Leads(s, a, b), Add(b) \in ToSet(t) => Add(a) \in ToSet(s)
    PROVE  Leads(s \o t, a, b)
<1>1. /\ DOMAIN s = 1..Len(s) /\ DOMAIN t = 1..Len(t) /\ Len(s) \in Nat /\ Len(t) \in Nat
      /\ DOMAIN (s \o t) = 1..(Len(s) + Len(t))
      /\ \A i \in 1..Len(s) : (s \o t)[i] = s[i]
      /\ \A i \in 1..Len(t) : (s \o t)[Len(s) + i] = t[i]
  OBVIOUS
<1> DEFINE r == s \o t
<1> HIDE DEF r
<1>2. ASSUME NEW i \in DOMAIN r, r[i] = Add(b)
      PROVE  \E j \in DOMAIN r : j < i /\ r[j] = Add(a)
  <2>1. CASE i \in 1..Len(s)
    <3>1. PICK j \in DOMAIN s : j < i /\ s[j] = Add(a)
      BY <1>1, <1>2, <2>1 DEF r, Leads
    <3>2. j \in DOMAIN r /\ r[j] = Add(a)
      BY <1>1, <3>1 DEF r
    <3> QED BY <3>1, <3>2
  <2>2. CASE i \notin 1..Len(s)
    <3>1. i - Len(s) \in 1..Len(t) /\ i = Len(s) + (i - Len(s))
      BY <1>1, <1>2, <2>2 DEF r
    <3>2. t[i - Len(s)] = Add(b)
      BY <1>1, <1>2, <3>1 DEF r
    <3>3. Add(a) \in ToSet(s)
      BY <1>1, <3>1, <3>2 DEF ToSet
    <3>4. PICK j \in 1..Len(s) : s[j] = Add(a)
      BY <1>1, <3>3 DEF ToSet
    <3>5. j \in DOMAIN r /\ r[j] = Add(a) /\ j < i
      BY <1>1, <3>4, <3>1 DEF r
    <3> QED BY <3>5
  <2> QED BY <2>1, <2>2
<1> QED BY <1>2 DEF r, Leads

\* The first signal is taken.
LEMMA LeadsLess ==
    ASSUME NEW s \in Seq(D!Signal), s # <<>>, NEW a, NEW b, Leads(s, a, b), Head(s) # Add(a)
    PROVE  Leads(Tail(s), a, b)
<1>1. /\ DOMAIN s = 1..Len(s) /\ Len(s) \in Nat /\ Len(s) > 0 /\ Head(s) = s[1]
      /\ DOMAIN Tail(s) = 1..(Len(s) - 1) /\ \A i \in 1..(Len(s) - 1) : Tail(s)[i] = s[i + 1]
  OBVIOUS
<1>2. ASSUME NEW i \in DOMAIN Tail(s), Tail(s)[i] = Add(b)
      PROVE  \E j \in DOMAIN Tail(s) : j < i /\ Tail(s)[j] = Add(a)
  <2>1. i \in 1..(Len(s) - 1) /\ i + 1 \in DOMAIN s /\ s[i + 1] = Add(b)
    BY <1>1, <1>2
  <2>2. PICK j \in DOMAIN s : j < i + 1 /\ s[j] = Add(a)
    BY <2>1 DEF Leads
  <2>3. j # 1
    BY <1>1, <2>2
  <2>4. j - 1 \in DOMAIN Tail(s) /\ j - 1 < i /\ Tail(s)[j - 1] = Add(a)
    BY <1>1, <2>1, <2>2, <2>3
  <2> QED BY <2>4
<1> QED BY <1>2 DEF Leads

\* Of equal signals the first is kept.
LEMMA LeadsOnce ==
    ASSUME NEW s \in Seq(D!Signal), NEW t \in Seq(D!Signal), NEW a, NEW b, Leads(s \o t, a, b)
    PROVE  Leads(D!Distinct(s) \o t, a, b)
<1> DEFINE first == {i \in DOMAIN s : \A j \in 1..(i - 1) : s[j] # s[i]}
           q == D!Distinct(s)
<1>1. q = Picked(s, first)
  BY DEF D!Distinct, D!Picked, Distinct, Picked, D!Cardinality, Cardinality
<1>2. DOMAIN s = 1..Len(s) /\ Len(s) \in Nat /\ first \in SUBSET DOMAIN s
  OBVIOUS
<1>3. ASSUME NEW i \in DOMAIN s PROVE \E j \in first : j <= i /\ s[j] = s[i]
  <2> DEFINE T == {j \in Nat : j \in DOMAIN s /\ s[j] = s[i]}
  <2>1. T \subseteq Nat /\ i \in T
    BY <1>2, <1>3
  <2>2. PICK j \in T : \A k \in T : ~(<<k, j>> \in OpToRel(<, Nat))
    <3> HIDE DEF T
    <3> QED BY <2>1, WFMin, NatLessThanWellFounded
  <2>3. \A k \in T : ~(k < j)
    BY <2>2 DEF OpToRel
  <2>4. j \in 1..Len(s) /\ s[j] = s[i]
    BY <2>2, <1>2
  <2>5. ASSUME NEW k \in 1..(j - 1) PROVE s[k] # s[j]
    <3>1. k \in Nat /\ k < j /\ k \in DOMAIN s
      BY <2>4, <2>5, <1>2
    <3> QED BY <3>1, <2>4, <2>3
  <2>6. j <= i
    BY <2>1, <2>3, <2>4, <1>2, <1>3
  <2> QED BY <2>4, <2>5, <2>6, <1>2
<1>4. \A i, j \in first : s[i] = s[j] => ~(i < j)
  BY <1>2
<1> HIDE DEF first
<1>5. /\ q \in Seq(D!Signal)
      /\ \A i \in first : \E k \in DOMAIN q : q[k] = s[i]
  BY <1>1, <1>2, PickedFrom
<1>6. PICK from \in [DOMAIN q -> first] :
        /\ \A k \in DOMAIN q : q[k] = s[from[k]]
        /\ \A k, l \in DOMAIN q : k < l => from[k] < from[l]
  BY <1>1, <1>2, PickedFrom, SMTT(30)
<1> HIDE DEF q
<1>7. /\ DOMAIN q = 1..Len(q) /\ DOMAIN t = 1..Len(t) /\ Len(q) \in Nat /\ Len(t) \in Nat
      /\ DOMAIN (q \o t) = 1..(Len(q) + Len(t))
      /\ \A i \in 1..Len(q) : (q \o t)[i] = q[i]
      /\ \A i \in 1..Len(t) : (q \o t)[Len(q) + i] = t[i]
      /\ DOMAIN (s \o t) = 1..(Len(s) + Len(t))
      /\ \A i \in 1..Len(s) : (s \o t)[i] = s[i]
      /\ \A i \in 1..Len(t) : (s \o t)[Len(s) + i] = t[i]
  BY <1>5
<1> DEFINE r == q \o t
           o == s \o t
<1> HIDE DEF r, o
<1>8. ASSUME NEW i \in DOMAIN s PROVE \E k \in DOMAIN q : q[k] = s[i] /\ from[k] <= i
  <2>1. PICK j \in first : j <= i /\ s[j] = s[i]
    BY <1>3
  <2>2. PICK k \in DOMAIN q : q[k] = s[j]
    BY <1>5
  <2>3. s[from[k]] = s[j] /\ from[k] \in first /\ from[k] \in Nat /\ j \in Nat /\ i \in Nat
    BY <1>2, <1>6, <2>2
  <2>4. from[k] = j
    BY <1>4, <2>3
  <2> QED BY <2>1, <2>2, <2>4
<1>9. ASSUME NEW i \in DOMAIN r, r[i] = Add(b)
      PROVE  \E j \in DOMAIN r : j < i /\ r[j] = Add(a)
  <2>1. CASE i \in 1..Len(q)
    <3>1. from[i] \in DOMAIN s /\ s[from[i]] = Add(b) /\ i \in DOMAIN q
      BY <1>2, <1>6, <1>7, <1>9, <2>1 DEF r
    <3>2. from[i] \in DOMAIN o /\ o[from[i]] = Add(b)
      BY <1>2, <1>7, <3>1 DEF o
    <3>3. PICK j \in DOMAIN o : j < from[i] /\ o[j] = Add(a)
      BY <3>2 DEF Leads, o
    <3>4. j \in DOMAIN s /\ s[j] = Add(a)
      BY <1>2, <1>7, <3>1, <3>3 DEF o
    <3>5. PICK k \in DOMAIN q : q[k] = Add(a) /\ from[k] <= j
      BY <1>8, <3>4
    <3>6. from[k] \in Nat /\ from[i] \in Nat /\ j \in Nat /\ k \in Nat /\ i \in Nat
      BY <1>2, <1>6, <1>7, <3>1, <3>4, <3>5
    <3>7. from[k] < from[i]
      BY <3>3, <3>5, <3>6
    <3>8. ~(i < k) /\ i # k
      BY <1>6, <3>1, <3>5, <3>6, <3>7
    <3>9. k < i
      BY <3>6, <3>8
    <3>10. k \in DOMAIN r /\ r[k] = Add(a)
      BY <1>7, <3>5 DEF r
    <3> QED BY <3>9, <3>10
  <2>2. CASE i \notin 1..Len(q)
    <3>1. i - Len(q) \in 1..Len(t) /\ i = Len(q) + (i - Len(q)) /\ i \in Nat
      BY <1>7, <1>9, <2>2 DEF r
    <3> DEFINE m == i - Len(q)
    <3>2. t[m] = Add(b)
      BY <1>7, <1>9, <3>1 DEF r
    <3>3. Len(s) + m \in DOMAIN o /\ o[Len(s) + m] = Add(b)
      BY <1>2, <1>7, <3>1, <3>2 DEF o
    <3>4. PICK j \in DOMAIN o : j < Len(s) + m /\ o[j] = Add(a)
      BY <3>3 DEF Leads, o
    <3>5. CASE j \in DOMAIN s
      <4>1. PICK k \in DOMAIN q : q[k] = Add(a)
        BY <1>2, <1>7, <1>8, <3>4, <3>5 DEF o
      <4>2. k \in DOMAIN r /\ r[k] = Add(a) /\ k < i
        BY <1>7, <3>1, <4>1 DEF r
      <4> QED BY <4>2
    <3>6. CASE j \notin DOMAIN s
      <4>1. j - Len(s) \in 1..Len(t) /\ j = Len(s) + (j - Len(s)) /\ j - Len(s) < m
        BY <1>2, <1>7, <3>1, <3>4, <3>6 DEF o
      <4>2. t[j - Len(s)] = Add(a)
        BY <1>7, <3>4, <4>1 DEF o
      <4>3. Len(q) + (j - Len(s)) \in DOMAIN r /\ Len(q) + (j - Len(s)) < i
        BY <1>7, <3>1, <4>1 DEF r
      <4>4. r[Len(q) + (j - Len(s))] = Add(a)
        BY <1>7, <4>1, <4>2 DEF r
      <4> QED BY <4>3, <4>4
    <3> QED BY <3>5, <3>6
  <2> QED BY <2>1, <2>2
<1> QED BY <1>9 DEF r, q, Leads

\* No path lies in itself.
LEMMA AboveOnce == \A p \in D!Path : p \notin D!Above[Parent[p]]
<1> SUFFICES ASSUME NEW p \in D!Path, p \in D!Above[Parent[p]] PROVE FALSE
  OBVIOUS
<1> DEFINE T == {q \in D!Above[Parent[p]] : p \in D!Above[q]}
<1>1. p \in T /\ T \in SUBSET (Dir \ {Root}) /\ Parent[p] \in Dir
  BY AboveOwn, AbovePaths DEF D!Path
<1>2. PICK q \in T : Parent[q] \notin T
  <2> HIDE DEF T
  <2> QED BY <1>1, TreeAssumption
<1>3. q \in D!Path /\ Parent[p] # Root
  BY <1>1, AboveIs DEF D!Path
<1>4. Parent[p] \in D!Path
  BY <1>1, <1>3 DEF D!Path
<1>5. CASE q = p
  BY <1>2, <1>4, <1>5, AboveOwn
<1>6. CASE q # p
  <2>1. p \in D!Above[Parent[q]] /\ Parent[q] # Root
    BY <1>2, <1>3, <1>6, AboveOwn, AboveIs
  <2>2. Parent[q] \in D!Above[q] /\ D!Above[q] \subseteq D!Above[Parent[p]]
    BY <1>2, <1>3, <1>4, <2>1, AboveOwn, AboveAll
  <2> QED BY <1>2, <2>1, <2>2
<1> QED BY <1>5, <1>6

-----------------------------------------------------------------------------
(* What the steps do to what is on its way. *)

\* A sequence that is put together from two.
LEMMA LeadsParts ==
    ASSUME NEW s \in Seq(D!Signal), NEW t \in Seq(D!Signal), NEW a, NEW b
    PROVE  Leads(s \o t, a, b) <=> Leads(s, a, b) /\ (Add(a) \in ToSet(s) \/ Leads(t, a, b))
<1>1. /\ DOMAIN s = 1..Len(s) /\ DOMAIN t = 1..Len(t) /\ Len(s) \in Nat /\ Len(t) \in Nat
      /\ DOMAIN (s \o t) = 1..(Len(s) + Len(t))
      /\ \A i \in 1..Len(s) : (s \o t)[i] = s[i]
      /\ \A i \in 1..Len(t) : (s \o t)[Len(s) + i] = t[i]
  OBVIOUS
<1> DEFINE r == s \o t
<1> HIDE DEF r
<1>2. ASSUME Leads(r, a, b)
      PROVE  Leads(s, a, b) /\ (Add(a) \in ToSet(s) \/ Leads(t, a, b))
  <2>1. ASSUME NEW i \in DOMAIN s, s[i] = Add(b)
        PROVE  \E j \in DOMAIN s : j < i /\ s[j] = Add(a)
    <3>1. i \in DOMAIN r /\ r[i] = Add(b)
      BY <1>1, <2>1 DEF r
    <3>2. PICK j \in DOMAIN r : j < i /\ r[j] = Add(a)
      BY <1>2, <3>1 DEF Leads
    <3>3. j \in DOMAIN s /\ s[j] = Add(a)
      BY <1>1, <2>1, <3>2 DEF r
    <3> QED BY <3>2, <3>3
  <2>2. ASSUME Add(a) \notin ToSet(s), NEW i \in DOMAIN t, t[i] = Add(b)
        PROVE  \E j \in DOMAIN t : j < i /\ t[j] = Add(a)
    <3>1. Len(s) + i \in DOMAIN r /\ r[Len(s) + i] = Add(b)
      BY <1>1, <2>2 DEF r
    <3>2. PICK j \in DOMAIN r : j < Len(s) + i /\ r[j] = Add(a)
      BY <1>2, <3>1 DEF Leads
    <3>3. j \notin DOMAIN s
      BY <1>1, <2>2, <3>2 DEF r, ToSet
    <3>4. j - Len(s) \in DOMAIN t /\ j = Len(s) + (j - Len(s)) /\ j - Len(s) < i
      BY <1>1, <2>2, <3>2, <3>3 DEF r
    <3>5. t[j - Len(s)] = Add(a)
      BY <1>1, <3>2, <3>4 DEF r
    <3> QED BY <3>4, <3>5
  <2> QED BY <2>1, <2>2 DEF Leads
<1>3. ASSUME Leads(s, a, b), Add(a) \in ToSet(s) \/ Leads(t, a, b), NEW i \in DOMAIN r, r[i] = Add(b)
      PROVE  \E j \in DOMAIN r : j < i /\ r[j] = Add(a)
  <2>1. CASE i \in 1..Len(s)
    <3>1. PICK j \in DOMAIN s : j < i /\ s[j] = Add(a)
      BY <1>1, <1>3, <2>1 DEF r, Leads
    <3>2. j \in DOMAIN r /\ r[j] = Add(a)
      BY <1>1, <3>1 DEF r
    <3> QED BY <3>1, <3>2
  <2>2. CASE i \notin 1..Len(s)
    <3>1. i - Len(s) \in 1..Len(t) /\ i = Len(s) + (i - Len(s))
      BY <1>1, <1>3, <2>2 DEF r
    <3>2. t[i - Len(s)] = Add(b)
      BY <1>1, <1>3, <3>1 DEF r
    <3>3. CASE Add(a) \in ToSet(s)
      <4>1. PICK j \in 1..Len(s) : s[j] = Add(a)
        BY <1>1, <3>3 DEF ToSet
      <4>2. j \in DOMAIN r /\ r[j] = Add(a) /\ j < i
        BY <1>1, <4>1, <3>1 DEF r
      <4> QED BY <4>2
    <3>4. CASE Leads(t, a, b)
      <4>1. PICK j \in DOMAIN t : j < i - Len(s) /\ t[j] = Add(a)
        BY <1>1, <3>1, <3>2, <3>4 DEF Leads
      <4>2. Len(s) + j \in DOMAIN r /\ r[Len(s) + j] = Add(a) /\ Len(s) + j < i
        BY <1>1, <3>1, <4>1 DEF r
      <4> QED BY <4>2
    <3> QED BY <1>3, <3>3, <3>4
  <2> QED BY <2>1, <2>2
<1> QED BY <1>2, <1>3 DEF r, Leads

\* The first of a sequence that is put together from two.
LEMMA ConcatLess ==
    ASSUME NEW S, NEW q \in Seq(S), q # <<>>, NEW t \in Seq(S)
    PROVE  /\ q \o t \in Seq(S) /\ q \o t # <<>> /\ Head(q \o t) = Head(q) /\ Head(q) \in S
           /\ Tail(q \o t) = Tail(q) \o t
<1> DEFINE r == q \o t
           u == Tail(q) \o t
<1>1. /\ r \in Seq(S) /\ Len(q) \in Nat /\ Len(q) > 0 /\ Len(t) \in Nat /\ Len(r) = Len(q) + Len(t)
      /\ \A i \in 1..Len(q) : r[i] = q[i]
      /\ \A i \in 1..Len(t) : r[Len(q) + i] = t[i]
  OBVIOUS
<1>2. /\ Tail(q) \in Seq(S) /\ Len(Tail(q)) = Len(q) - 1
      /\ \A i \in 1..(Len(q) - 1) : Tail(q)[i] = q[i + 1]
  OBVIOUS
<1>3. /\ u \in Seq(S) /\ Len(u) = Len(q) - 1 + Len(t)
      /\ \A i \in 1..(Len(q) - 1) : u[i] = Tail(q)[i]
      /\ \A i \in 1..Len(t) : u[Len(q) - 1 + i] = t[i]
  BY <1>2
<1> HIDE DEF r, u
<1>4. /\ r # <<>> /\ Head(r) = q[1] /\ Head(q) = q[1] /\ q[1] \in S
      /\ Tail(r) \in Seq(S) /\ Len(Tail(r)) = Len(r) - 1 /\ \A i \in 1..(Len(r) - 1) : Tail(r)[i] = r[i + 1]
  <2>1. Head(q) = q[1] /\ q[1] \in S
    BY <1>1
  <2>2. Len(r) > 0 /\ r # <<>>
    BY <1>1
  <2>3. Head(r) = r[1] /\ r[1] = q[1]
    BY <1>1, <2>2
  <2>4. /\ Tail(r) \in Seq(S) /\ Len(Tail(r)) = Len(r) - 1
        /\ \A i \in 1..Len(Tail(r)) : Tail(r)[i] = r[i + 1]
    BY <1>1, <2>2, HeadTailProperties
  <2> QED BY <2>1, <2>2, <2>3, <2>4
<1>5. ASSUME NEW i \in 1..Len(u) PROVE u[i] = Tail(r)[i]
  <2>1. CASE i \in 1..(Len(q) - 1)
    BY <1>1, <1>2, <1>3, <1>4, <2>1
  <2>2. CASE i \notin 1..(Len(q) - 1)
    <3> DEFINE j == i - (Len(q) - 1)
    <3>1. j \in 1..Len(t) /\ i = Len(q) - 1 + j /\ i + 1 = Len(q) + j /\ i \in 1..(Len(r) - 1)
      BY <1>1, <1>3, <1>5, <2>2
    <3>2. u[i] = t[j]
      BY <1>3, <3>1
    <3>3. Tail(r)[i] = t[j]
      BY <1>1, <1>4, <3>1
    <3> QED BY <3>2, <3>3
  <2> QED BY <2>1, <2>2
<1>6. Tail(r) = u
  BY <1>1, <1>3, <1>4, <1>5, SeqEqual
<1> QED BY <1>1, <1>4, <1>6 DEF r, u

\* Signals without an Add(b).
LEMMA LeadsNone ==
    ASSUME NEW s, NEW a, NEW b, Add(b) \notin ToSet(s)
    PROVE  Leads(s, a, b)
BY DEF Leads, ToSet

\* What is heard comes behind what was.
LEMMA TrailMore ==
    ASSUME TreeTypes, NEW d \in Device, NEW t \in Seq(D!Signal),
           heard' = [heard EXCEPT ![d] = @ \o t], queue' = queue
    PROVE  \A e \in Device : \A q :
             /\ HasAdd(e, q)' <=> HasAdd(e, q) \/ (e = d /\ Add(q) \in ToSet(t))
             /\ HasDrop(e, q)' <=> HasDrop(e, q) \/ (e = d /\ Drop(q) \cap ToSet(t) # {})
             /\ \A b : Before(e, q, b) /\ (e = d /\ Add(b) \in ToSet(t) => HasAdd(e, q))
                         => Before(e, q, b)'
<1>1. /\ heard \in [Device -> Seq(D!Signal)] /\ queue \in [Device -> Seq(D!Signal)]
  BY DEF TreeTypes, D!TypeOK
<1>2. ASSUME NEW e \in Device PROVE Trail(e)' = IF e = d THEN Trail(e) \o t ELSE Trail(e)
  <2>1. queue[e] \in Seq(D!Signal) /\ heard[e] \in Seq(D!Signal) /\ queue'[e] = queue[e]
        /\ heard'[e] = IF e = d THEN heard[e] \o t ELSE heard[e]
    BY <1>1
  <2>2. Trail(e)' = queue[e] \o (IF e = d THEN heard[e] \o t ELSE heard[e])
    BY <2>1 DEF Trail
  <2> DEFINE q == queue[e]
             h == heard[e]
  <2>3. q \in Seq(D!Signal) /\ h \in Seq(D!Signal) /\ Trail(e) = q \o h
        /\ Trail(e)' = q \o (IF e = d THEN h \o t ELSE h)
    BY <2>1, <2>2 DEF Trail
  <2> HIDE DEF q, h
  <2>4. q \o (h \o t) = (q \o h) \o t
    BY <2>3, ConcatAssociative
  <2> QED BY <2>3, <2>4
<1> SUFFICES ASSUME NEW e \in Device, NEW q
             PROVE  /\ HasAdd(e, q)' <=> HasAdd(e, q) \/ (e = d /\ Add(q) \in ToSet(t))
                    /\ HasDrop(e, q)' <=> HasDrop(e, q) \/ (e = d /\ Drop(q) \cap ToSet(t) # {})
                    /\ \A b : Before(e, q, b) /\ (e = d /\ Add(b) \in ToSet(t) => HasAdd(e, q))
                                => Before(e, q, b)'
  OBVIOUS
<1>3. Trail(e) \in Seq(D!Signal)
  BY <1>1 DEF Trail
<1>4. CASE e = d
  <2>1. ToSet(Trail(e))' = ToSet(Trail(e)) \cup ToSet(t)
    <3> DEFINE r == Trail(e)
    <3>1. r \in Seq(D!Signal)
      BY <1>3
    <3> HIDE DEF r
    <3>2. ToSet(r \o t) = ToSet(r) \cup ToSet(t)
      BY <3>1, ToSetConcat
    <3>3. Trail(e)' = Trail(e) \o t
      BY <1>2, <1>4
    <3>4. ToSet(Trail(e))' = ToSet(Trail(e) \o t)
      BY <3>3 DEF ToSet
    <3> QED BY <3>2, <3>4 DEF r
  <2>2. ASSUME NEW b, Before(e, q, b), Add(b) \in ToSet(t) => HasAdd(e, q)
        PROVE  Before(e, q, b)'
    BY <1>2, <1>3, <1>4, <2>2, LeadsMore DEF Before, HasAdd
  <2> QED BY <1>4, <2>1, <2>2 DEF HasAdd, HasDrop, Add, Drop
<1>5. CASE e # d
  <2>1. Trail(e)' = Trail(e)
    BY <1>2, <1>5
  <2> QED BY <1>5, <2>1 DEF HasAdd, HasDrop, Before, Add, Drop
<1> QED BY <1>4, <1>5

\* The first event is taken.
LEMMA TrailLess ==
    ASSUME TreeTypes, NEW d \in Device, queue[d] # <<>>, NEW s, s = Head(queue[d]),
           queue' = [queue EXCEPT ![d] = Tail(@)], heard' = heard
    PROVE  /\ s \in D!Signal
           /\ \A q : s = Add(q) => HasAdd(d, q) /\ \A a : ~Before(d, a, q)
           /\ \A q : s \in Drop(q) => HasDrop(d, q)
           /\ \A e \in Device : \A q :
                /\ HasAdd(e, q)' => HasAdd(e, q)
                /\ HasAdd(e, q) => HasAdd(e, q)' \/ (e = d /\ s = Add(q))
                /\ HasDrop(e, q)' => HasDrop(e, q)
                /\ HasDrop(e, q) => HasDrop(e, q)' \/ (e = d /\ s \in Drop(q))
                /\ \A b : Before(e, q, b) /\ ~(e = d /\ s = Add(q)) => Before(e, q, b)'
<1>1. /\ heard \in [Device -> Seq(D!Signal)] /\ queue \in [Device -> Seq(D!Signal)]
  BY DEF TreeTypes, D!TypeOK
<1>2. /\ queue[d] \in Seq(D!Signal) /\ heard[d] \in Seq(D!Signal)
      /\ queue'[d] = Tail(queue[d]) /\ heard'[d] = heard[d]
  BY <1>1
<1> DEFINE r == Trail(d)
<1>3. /\ r \in Seq(D!Signal) /\ r # <<>> /\ Head(r) = s /\ s \in D!Signal
      /\ Trail(d)' = Tail(r)
  <2> DEFINE q == queue[d]
             h == heard[d]
  <2>1. q \in Seq(D!Signal) /\ h \in Seq(D!Signal) /\ q # <<>> /\ s = Head(q)
        /\ Trail(d) = q \o h /\ Trail(d)' = Tail(q) \o h
    BY <1>2 DEF Trail
  <2> HIDE DEF q, h
  <2>2. /\ q \o h \in Seq(D!Signal) /\ q \o h # <<>> /\ Head(q \o h) = Head(q) /\ Head(q) \in D!Signal
        /\ Tail(q \o h) = Tail(q) \o h
    BY <2>1, ConcatLess
  <2> QED BY <2>1, <2>2
<1> HIDE DEF r
<1>4. /\ s \in ToSet(r) /\ ToSet(Tail(r)) \subseteq ToSet(r)
      /\ ToSet(r) \subseteq {s} \cup ToSet(Tail(r))
  BY <1>3, ToSetTail
<1>5. ASSUME NEW q, s = Add(q), NEW a, Before(d, a, q) PROVE FALSE
  <2>1. 1 \in DOMAIN r /\ r[1] = Add(q) /\ DOMAIN r = 1..Len(r) /\ Len(r) \in Nat
    BY <1>3, <1>5
  <2>2. PICK j \in DOMAIN r : j < 1
    BY <2>1, <1>5 DEF Before, Leads, r
  <2> QED BY <2>1, <2>2
<1>6. ASSUME NEW q PROVE /\ s = Add(q) => HasAdd(d, q)
                         /\ s \in Drop(q) => HasDrop(d, q)
  BY <1>4 DEF HasAdd, HasDrop, r
<1>7. ASSUME NEW e \in Device, NEW q
      PROVE  /\ HasAdd(e, q)' => HasAdd(e, q)
             /\ HasAdd(e, q) => HasAdd(e, q)' \/ (e = d /\ s = Add(q))
             /\ HasDrop(e, q)' => HasDrop(e, q)
             /\ HasDrop(e, q) => HasDrop(e, q)' \/ (e = d /\ s \in Drop(q))
             /\ \A b : Before(e, q, b) /\ ~(e = d /\ s = Add(q)) => Before(e, q, b)'
  <2>1. CASE e = d
    <3>1. ASSUME NEW b, Before(e, q, b), s # Add(q) PROVE Before(e, q, b)'
      BY <1>3, <2>1, <3>1, LeadsLess DEF Before, r
    <3>2. ToSet(Trail(e))' = ToSet(Tail(r)) /\ Trail(e) = r
      BY <1>3, <2>1 DEF r
    <3> QED BY <1>4, <2>1, <3>1, <3>2 DEF HasAdd, HasDrop, Add, Drop
  <2>2. CASE e # d
    <3>1. Trail(e)' = Trail(e)
      BY <1>1, <2>2 DEF Trail
    <3> QED BY <2>2, <3>1 DEF HasAdd, HasDrop, Before, Add, Drop
  <2> QED BY <2>1, <2>2
<1> QED BY <1>3, <1>5, <1>6, <1>7

\* Nothing is heard, queued or taken.
LEMMA TrailSame ==
    ASSUME heard' = heard, queue' = queue
    PROVE  \A e \in Device : \A q :
             /\ HasAdd(e, q)' <=> HasAdd(e, q)
             /\ HasDrop(e, q)' <=> HasDrop(e, q)
             /\ \A b : Before(e, q, b)' <=> Before(e, q, b)
BY DEF HasAdd, HasDrop, Before, Trail, Add, Drop

\* A job begins, goes on or ends.
LEMMA WorksNow ==
    ASSUME TreeTypes, NEW d \in Device, NEW work, doing' = [doing EXCEPT ![d] = work]
    PROVE  \A e \in Device : \A at, q : Works(e, at, q)' <=> IF e = d THEN work.at = at /\ work.dir = q
                                                                  ELSE Works(e, at, q)
<1>1. \A e \in Device : doing'[e] = IF e = d THEN work ELSE doing[e]
  BY DEF TreeTypes, D!TypeOK
<1> QED BY <1>1 DEF Works

\* Jobs that stay as they are.
LEMMA WorksSame ==
    ASSUME doing' = doing
    PROVE  \A e \in Device : \A at, q : Works(e, at, q)' <=> Works(e, at, q)
BY DEF Works

\* All other devices are told.
LEMMA PostedMore ==
    ASSUME TreeTypes, AllRun, NEW d \in Device, NEW p \in D!Path, NEW type \in {"DIR+", "DIR-"},
           D!Tell(d, p, type)
    PROVE  \A e \in Device : \A q, u : Posted(e, q, u)' <=> Posted(e, q, u) \/ (e # d /\ q = p /\ u = type)
<1> DEFINE S == {[to |-> e, type |-> type, dir |-> p] : e \in {e \in Device \ {d} : stage[e] = "on"}}
<1>1. S \in SUBSET D!Notice
  BY DEF D!Notice
<1>2. notices' = D!(+)(notices, D!SetToBag(S))
  BY DEF D!Tell
<1>3. \A e \in Device : \A q, u : [to |-> e, type |-> u, dir |-> q] \in S <=> e # d /\ q = p /\ u = type
  BY DEF AllRun
<1> HIDE DEF S
<1>4. D!BagToSet(notices)' = D!BagToSet(notices) \cup S
  BY <1>1, <1>2, PostsMore DEF TreeTypes, D!TypeOK, Posts
<1> QED BY <1>3, <1>4 DEF Posted

\* A notice is taken.
LEMMA PostedLess ==
    ASSUME TreeTypes, NEW n \in D!BagToSet(notices), notices' = D!(-)(notices, D!SetToBag({n}))
    PROVE  /\ n.to \in Device /\ n.dir \in D!Path /\ n.type \in {"DIR+", "DIR-"} /\ Posted(n.to, n.dir, n.type)
           /\ \A e \in Device : \A q, u :
                /\ Posted(e, q, u)' => Posted(e, q, u)
                /\ Posted(e, q, u) => Posted(e, q, u)' \/ (e = n.to /\ q = n.dir /\ u = n.type)
<1>1. n \in D!Notice
  BY DEF TreeTypes, D!TypeOK
<1>2. /\ n.to \in Device /\ n.dir \in D!Path /\ n.type \in {"DIR+", "DIR-"}
      /\ n = [to |-> n.to, type |-> n.type, dir |-> n.dir]
  BY <1>1 DEF D!Notice
<1>3. /\ D!BagToSet(notices)' \subseteq D!BagToSet(notices)
      /\ D!BagToSet(notices) \subseteq {n} \cup D!BagToSet(notices)'
  BY PostsLess DEF TreeTypes, D!TypeOK, Posts
<1>4. Posted(n.to, n.dir, n.type)
  BY <1>2 DEF Posted
<1>5. ASSUME NEW e \in Device, NEW q, NEW u
      PROVE  /\ Posted(e, q, u)' => Posted(e, q, u)
             /\ Posted(e, q, u) => Posted(e, q, u)' \/ (e = n.to /\ q = n.dir /\ u = n.type)
  <2> DEFINE m == [to |-> e, type |-> u, dir |-> q]
  <2>1. m.to = e /\ m.type = u /\ m.dir = q
    OBVIOUS
  <2> HIDE DEF m
  <2>2. Posted(e, q, u) <=> m \in D!BagToSet(notices)
    BY DEF Posted, m
  <2>3. Posted(e, q, u)' <=> m \in D!BagToSet(notices)'
    BY DEF Posted, m
  <2> QED BY <1>3, <2>1, <2>2, <2>3
<1> QED BY <1>2, <1>4, <1>5

\* The same notices.
LEMMA PostedSame ==
    ASSUME notices' = notices
    PROVE  \A e \in Device : \A q, u : Posted(e, q, u)' <=> Posted(e, q, u)
BY DEF Posted

\* A path and what its row leads to are forgotten.
LEMMA RowsLess ==
    ASSUME TreeTypes, NEW d \in Device, NEW p \in D!Path, D!Forget(d, p)
    PROVE  /\ \A e \in Device, q \in D!Path :
                /\ D!HasRow(e, q)' => D!HasRow(e, q)
                /\ D!HasRow(e, q) => D!HasRow(e, q)' \/ (e = d /\ q \in D!Below(p))
           /\ ~D!HasRow(d, p)'
<1> DEFINE w == D!Without(d, D!Linked(d, p))
           u == D!Unlisted(w, p)
<1>1. rows \in [Device -> Table] /\ rows' = [rows EXCEPT ![d] = u] /\ p \in Dir /\ Parent[p] \in Dir
      /\ Parent[p] # p /\ D!Path \subseteq Dir
  BY AboveOwn DEF D!Forget, D!SetRows, TreeTypes, D!TypeOK, Table, D!Path
<1>2. /\ DOMAIN w = Dir /\ \A q \in Dir : w[q] = IF q \in D!Linked(d, p) THEN None ELSE rows[d][q]
      /\ w \in Table
  BY <1>1 DEF D!Without, Table
<1>3. \A q \in D!Linked(d, p) : q \in D!Below(p)
  BY DEF D!Linked
<1>4. D!HasRow(d, p) => p \in D!Linked(d, p)
  <2>1. (D!Above[p] \cap D!Below(p)) \ {p} = {}
    <3> SUFFICES ASSUME NEW r \in D!Above[p], r \in D!Below(p), r # p PROVE FALSE
      OBVIOUS
    <3>1. r \in D!Above[Parent[p]] /\ p \in D!Above[r]
      BY AboveOwn DEF D!Below
    <3>2. p \in D!Above[Parent[p]]
      <4>1. Parent[p] # Root
        BY <3>1, AboveIs
      <4>2. Parent[p] \in D!Path
        BY <4>1, <1>1 DEF D!Path
      <4> QED BY <3>1, <4>2, AboveAll
    <3> QED BY <3>2, AboveOnce
  <2> QED BY <2>1, AboveOwn DEF D!Linked
<1>5. ~D!HasRow(d, p) => w[p] = None
  BY <1>2, <1>1 DEF D!HasRow
<1>6. w[p] = None
  BY <1>1, <1>2, <1>4, <1>5
<1>7. \A q \in Dir : u[q] = None <=> w[q] = None
  <2>1. None \notin SUBSET D!Path
    BY RowAssumption DEF D!Path
  <2>2. w[Parent[p]] # None => w[Parent[p]] \ {p} # None
    BY <2>1, <1>1, <1>2 DEF Table
  <2> QED BY <1>1, <1>2, <2>2 DEF D!Unlisted
<1> HIDE DEF w, u
<1>8. \A e \in Device, q \in Dir : rows'[e][q] = IF e = d THEN u[q] ELSE rows[e][q]
  BY <1>1
<1> QED BY <1>1, <1>2, <1>3, <1>6, <1>7, <1>8 DEF D!HasRow

-----------------------------------------------------------------------------
(* The history, and what is asked of it. *)

\* What is not sure does not become so.
LEMMA SureKeeps ==
    ASSUME TreeTypes, TreeTypes', doubtful \subseteq doubtful', \A d \in Device : unseen[d] \subseteq unseen'[d]
    PROVE  \A p \in D!Path : Sure(p)' =>
             Sure(p) /\ \A a \in D!Above[p] : a \notin doubtful' /\ \A d \in Device : a \notin unseen'[d]
<1>1. unseen \in [Device -> SUBSET D!Path] /\ unseen' \in [Device -> SUBSET D!Path]
  BY DEF TreeTypes, D!TypeOK
<1> SUFFICES ASSUME NEW p \in D!Path, Sure(p)'
             PROVE  Sure(p) /\ \A a \in D!Above[p] : a \notin doubtful' /\ \A d \in Device : a \notin unseen'[d]
  OBVIOUS
<1> QED BY <1>1, SureLess

\* What a sure path lies in is sure.
LEMMA SureUp == ASSUME TreeTypes PROVE \A p \in D!Path : Sure(p) => \A a \in D!Above[p] : a \in D!Path /\ Sure(a)
BY SureAbove DEF TreeTypes, D!TypeOK

\* The events of a device.
LEMMA TrailHas ==
    ASSUME TreeTypes, NEW d \in Device
    PROVE  ToSet(Trail(d)) = D!ToSet(heard[d]) \cup D!ToSet(queue[d])
<1>1. queue[d] \in Seq(D!Signal) /\ heard[d] \in Seq(D!Signal)
  BY DEF TreeTypes, D!TypeOK
<1>2. D!ToSet(heard[d]) = ToSet(heard[d]) /\ D!ToSet(queue[d]) = ToSet(queue[d])
  BY DEF D!ToSet, ToSet
<1> QED BY <1>1, <1>2, ToSetConcat DEF Trail

\* What is taken away is counted as that.
LEMMA DyingIs ==
    ASSUME TreeTypes, NEW S, NEW p \in S, Dying(p)
    PROVE  D!Deleting(S) /\ D!Busy(S)
<1>1. PICK d \in Device : Dropping(d, p) \/ Posted(d, p, "DIR-")
  BY DEF Dying
<1>2. CASE HasDrop(d, p)
  <2>1. PICK s \in D!ToSet(heard[d]) \cup D!ToSet(queue[d]) : s \in Drop(p)
    BY <1>2, TrailHas DEF HasDrop
  <2>2. s.dir = p /\ s.mask # "create"
    BY <2>1 DEF Drop
  <2> QED BY <2>1, <2>2 DEF D!Deleting, D!Busy
<1>3. CASE Works(d, "delete", p)
  BY <1>3 DEF Works, D!Deleting, D!Busy
<1>4. CASE Posted(d, p, "DIR-")
  <2>1. PICK n \in D!BagToSet(notices) : n.dir = p /\ n.type = "DIR-"
    BY <1>4 DEF Posted
  <2> QED BY <2>1 DEF D!Deleting, D!Busy
<1> QED BY <1>1, <1>2, <1>3, <1>4 DEF Dropping

\* So is what is made.
LEMMA MakingIs ==
    ASSUME TreeTypes, NEW S, NEW p \in S, Making(p)
    PROVE  D!Busy(S)
<1>1. PICK d \in Device : Adding(d, p) \/ Works(d, "store", p) \/ Posted(d, p, "DIR+")
  BY DEF Making
<1>2. CASE HasAdd(d, p)
  <2>1. PICK s \in D!ToSet(heard[d]) \cup D!ToSet(queue[d]) : s = Add(p)
    BY <1>2, TrailHas DEF HasAdd
  <2>2. s.dir = p
    BY <2>1 DEF Add
  <2> QED BY <2>1, <2>2 DEF D!Busy
<1>3. CASE Works(d, "create", p) \/ Works(d, "store", p)
  BY <1>3 DEF Works, D!Busy
<1>4. CASE Posted(d, p, "DIR+")
  <2>1. PICK n \in D!BagToSet(notices) : n.dir = p
    BY <1>4 DEF Posted
  <2> QED BY <2>1 DEF D!Busy
<1> QED BY <1>1, <1>2, <1>3, <1>4 DEF Adding

-----------------------------------------------------------------------------
(* The user. *)

\* A directory is made.
LEMMA FollowMakes ==
    ASSUME Following, AllRun, TreeTypes', NEW d \in Device, NEW p \in D!Path, D!UserMakes(d, p)
    PROVE  Following'
<1> DEFINE missing == D!Above[p] \ dirs[d]
           first == {q \in missing : Parent[q] \in dirs[d] /\ D!Reported(d, q)}
           t == D!Signals("create", D!SetToSeq(first))
<1>0. TreeTypes /\ Rooted
  BY DEF Following
<1>1. /\ p \notin dirs[d] /\ Parent[p] \in dirs[d]
      /\ dirs' = [dirs EXCEPT ![d] = @ \cup missing]
      /\ heard' = [heard EXCEPT ![d] = @ \o t]
      /\ UNCHANGED <<tree, listing, notices, rows, queue, stage, calls, doing>>
  BY DEF D!UserMakes, D!MakeDirs, D!Hears, D!server, D!boot
<1>2. missing = {p}
  <2>1. \A q \in D!Path : q \in dirs[d] => D!Above[q] \subseteq dirs[d]
    BY <1>0, TreeAbove DEF Rooted
  <2>2. D!Above[Parent[p]] \subseteq dirs[d]
    BY <1>1, <2>1, AboveOwn, AboveIs
  <2> QED BY <1>1, <2>2, AboveOwn
<1>3. first = IF D!Reported(d, p) THEN {p} ELSE {}
  BY <1>1, <1>2
<1> HIDE DEF missing, first
<1>4. t \in Seq(D!Signal) /\ ToSet(t) = IF D!Reported(d, p) THEN {Add(p)} ELSE {}
  <2>1. first \in SUBSET D!Path
    BY <1>3
  <2>2. D!SetToSeq(first) \in Seq(first) /\ ToSet(D!SetToSeq(first)) = first
    BY <2>1, FewPaths, SomeOrder
  <2>3. D!SetToSeq(first) \in Seq(D!Path)
    BY <2>1, <2>2
  <2>4. ToSet(t) = {[mask |-> "create", dir |-> q] : q \in first} /\ t \in Seq(D!Signal)
    BY <2>2, <2>3, SignalsOf
  <2> QED BY <2>4, <1>3 DEF Add
<1> HIDE DEF t
<1>5. \A e \in Device : \A q :
        /\ HasAdd(e, q)' <=> HasAdd(e, q) \/ (e = d /\ q = p /\ D!Reported(d, p))
        /\ HasDrop(e, q)' <=> HasDrop(e, q)
        /\ \A b : Before(e, q, b) /\ (e = d /\ b = p /\ D!Reported(d, p) => HasAdd(e, q)) => Before(e, q, b)'
  <2>1. \A e \in Device : \A q :
          /\ HasAdd(e, q)' <=> HasAdd(e, q) \/ (e = d /\ Add(q) \in ToSet(t))
          /\ HasDrop(e, q)' <=> HasDrop(e, q) \/ (e = d /\ Drop(q) \cap ToSet(t) # {})
          /\ \A b : Before(e, q, b) /\ (e = d /\ Add(b) \in ToSet(t) => HasAdd(e, q)) => Before(e, q, b)'
    BY <1>0, <1>1, <1>4, TrailMore
  <2>2. \A q : (Add(q) \in ToSet(t) <=> q = p /\ D!Reported(d, p)) /\ Drop(q) \cap ToSet(t) = {}
    BY <1>4 DEF Add, Drop
  <2> QED BY <2>1, <2>2
<1>6. \A e \in Device : \A q :
        /\ \A at : Works(e, at, q)' <=> Works(e, at, q)
        /\ \A u : Posted(e, q, u)' <=> Posted(e, q, u)
        /\ D!HasRow(e, q)' <=> D!HasRow(e, q)
        /\ q \in dirs'[e] <=> q \in dirs[e] \/ (e = d /\ q = p)
  BY <1>0, <1>1, <1>2 DEF Works, Posted, D!HasRow, TreeTypes, D!TypeOK
<1>7. ASSUME NEW x \in D!Path, Sure(x)'
      PROVE  /\ Sure(x)
             /\ p \in D!Above[x] => D!Reported(d, p)
             /\ p \in D!Above[x] \/ x \in D!Above[p] => \A a \in D!Above[p] : ~Dying(a)
  <2>1. doubtful \subseteq doubtful' /\ \A e \in Device : unseen[e] \subseteq unseen'[e]
    BY <1>0 DEF D!UserMakes, D!Spoil, D!Unseen, TreeTypes, D!TypeOK
  <2>2. Sure(x) /\ \A a \in D!Above[x] : a \notin doubtful' /\ \A e \in Device : a \notin unseen'[e]
    BY <1>0, <1>7, <2>1, SureKeeps
  <2>3. x \in D!Above[x] /\ D!Above[p] \in SUBSET D!Path
    BY AboveOwn
  <2>4. ASSUME NEW a \in D!Above[p], Dying(a) PROVE D!Deleting(D!Above[p])
    BY <1>0, <2>4, DyingIs
  <2>5. D!Deleting(D!Above[p]) => D!Above[p] \cup D!Below(p) \subseteq doubtful'
    BY DEF D!UserMakes, D!Spoil, D!Related
  <2>6. ~D!Reported(d, p) => D!Below(p) \subseteq unseen'[d]
    BY <1>0 DEF D!UserMakes, D!Unseen, D!Reported, AllRun, TreeTypes, D!TypeOK
  <2> QED BY <2>2, <2>3, <2>4, <2>5, <2>6 DEF D!Below
<1>8. Rooted'
  BY <1>0, <1>1, <1>6, AboveOwn DEF Rooted
<1>9. ASSUME NEW x \in D!Path, Sure(x)' PROVE Lists(x)'
  BY <1>1, <1>7, <1>9 DEF Following, Lists
<1>10. \A x \in D!Path : Dying(x)' <=> Dying(x)
  BY <1>5, <1>6 DEF Dying, Dropping
<1>11. ASSUME NEW b \in D!Path, Making(b)', b # p PROVE Making(b)
  <2>1. PICK e \in Device : Adding(e, b)' \/ Works(e, "store", b)' \/ Posted(e, b, "DIR+")'
    BY <1>11 DEF Making
  <2> QED BY <1>5, <1>6, <1>11, <2>1 DEF Making, Adding
<1>12. ASSUME NEW x \in D!Path, Sure(x)' PROVE Dead(x)'
  <2> SUFFICES ASSUME Dying(x)
               PROVE  /\ \A b \in D!Below(x) : ~Making(b)'
                      /\ \A q \in D!Below(x) : Sure(q)' => q = x \/ Gone(q)'
    BY <1>10 DEF Dead
  <2>1. Dead(x)
    BY <1>7, <1>12 DEF Following
  <2>2. p \notin D!Below(x)
    BY <1>7, <1>12 DEF D!Below
  <2>3. ASSUME NEW q \in D!Below(x), Gone(q) PROVE Gone(q)'
    BY <1>1, <1>6, <2>2, <2>3 DEF Gone
  <2> QED BY <1>7, <1>11, <2>1, <2>2, <2>3, BelowPaths DEF Dead
<1>13. ASSUME NEW x \in D!Path, Sure(x)', NEW e \in Device PROVE Meets(e, x)'
  <2>1. Meets(e, x)
    BY <1>7, <1>13 DEF Following
  <2>2. x = p => D!Reported(d, p) /\ ~Dying(p)
    BY <1>7, <1>13, AboveOwn
  <2>3. tree' = tree
    BY <1>1
  <2> QED BY <1>1, <1>5, <1>6, <2>1, <2>2, <2>3 DEF Meets, Adding, Dropping, Dying
<1>14. ASSUME NEW e \in Device, NEW b \in D!Path PROVE Ordered(e, b)'
  <2> SUFFICES ASSUME NEW a \in D!Above[b], Sure(a)'
               PROVE  /\ Posted(e, b, "DIR+") => a \in tree
                      /\ a # b /\ Works(e, "create", b) => a \in tree
                      /\ a # b => a \in tree \/ Works(e, "create", a) \/ Before(e, a, b)'
    BY <1>1, <1>6 DEF Ordered
  <2>1. a \in D!Path /\ Sure(a)
    BY <1>7, AboveOwn
  <2>2. Ordered(e, b)
    BY DEF Following
  <2>3. ASSUME e = d, b = p, a # p, a \notin tree, ~Works(e, "create", a) PROVE HasAdd(e, a)
    <3>1. a \in D!Above[Parent[p]] /\ ~Dying(a)
      BY <1>7, <2>1, <2>3, AboveOwn
    <3>2. a \in dirs[d]
      BY <1>0, <1>1, <3>1, TreeAbove, AboveOwn, AboveIs DEF Rooted
    <3>3. Meets(d, a)
      BY <2>1 DEF Following
    <3> QED BY <2>3, <3>1, <3>2, <3>3 DEF Meets, Adding, Dying
  <2> QED BY <1>5, <2>1, <2>2, <2>3 DEF Ordered
<1> QED BY <1>1, <1>8, <1>9, <1>12, <1>13, <1>14 DEF Following

\* A directory leaves, alone or with what is known to be in doubt from then on.
LEMMA FollowLeaves ==
    ASSUME Following, AllRun, TreeTypes', NEW d \in Device, NEW p \in D!Path, p \in dirs[d],
           dirs' = [dirs EXCEPT ![d] = @ \ (D!Below(p) \cap dirs[d])],
           NEW t \in Seq(D!Signal), heard' = [heard EXCEPT ![d] = @ \o t],
           NEW m \in {"delete", "from"},
           ToSet(t) = IF D!Reported(d, p) THEN {[mask |-> m, dir |-> p]} ELSE {},
           UNCHANGED <<tree, listing, notices, rows, queue, stage, calls, doing, unseen>>,
           doubtful \subseteq doubtful', D!Overlaps(d, p) => D!Related(p) \subseteq doubtful',
           D!ChildrenIn(dirs[d], p) = {} \/ D!Below(p) \ {p} \subseteq doubtful'
    PROVE  Following'
<1>0. TreeTypes /\ Rooted
  BY DEF Following
<1>1. \A e \in Device : \A q :
        /\ HasAdd(e, q)' <=> HasAdd(e, q)
        /\ HasDrop(e, q)' <=> HasDrop(e, q) \/ (e = d /\ q = p /\ D!Reported(d, p))
        /\ \A b : Before(e, q, b) => Before(e, q, b)'
  <2>1. \A e \in Device : \A q :
          /\ HasAdd(e, q)' <=> HasAdd(e, q) \/ (e = d /\ Add(q) \in ToSet(t))
          /\ HasDrop(e, q)' <=> HasDrop(e, q) \/ (e = d /\ Drop(q) \cap ToSet(t) # {})
          /\ \A b : Before(e, q, b) /\ (e = d /\ Add(b) \in ToSet(t) => HasAdd(e, q)) => Before(e, q, b)'
    BY <1>0, TrailMore
  <2>2. ASSUME NEW q PROVE Add(q) \notin ToSet(t) /\ (Drop(q) \cap ToSet(t) # {} <=> q = p /\ D!Reported(d, p))
    <3>1. Add(q).mask = "create" /\ \A s \in ToSet(t) : s.mask = m /\ s.dir = p
      BY DEF Add
    <3>2. \A s \in Drop(q) : s.dir = q
      BY DEF Drop
    <3>3. [mask |-> m, dir |-> p] \in Drop(p)
      BY DEF Drop
    <3>4. Add(q) \notin ToSet(t)
      BY <3>1
    <3>5. D!Reported(d, p) <=> [mask |-> m, dir |-> p] \in ToSet(t)
      OBVIOUS
    <3>6. ToSet(t) # {} => D!Reported(d, p)
      OBVIOUS
    <3> QED BY <3>1, <3>2, <3>3, <3>4, <3>5, <3>6
  <2> QED BY <2>1, <2>2
<1>2. \A e \in Device : \A q :
        /\ \A at : Works(e, at, q)' <=> Works(e, at, q)
        /\ \A u : Posted(e, q, u)' <=> Posted(e, q, u)
        /\ D!HasRow(e, q)' <=> D!HasRow(e, q)
        /\ q \in dirs'[e] <=> q \in dirs[e] /\ ~(e = d /\ q \in D!Below(p))
  BY <1>0 DEF Works, Posted, D!HasRow, TreeTypes, D!TypeOK
<1>3. \A x \in D!Path : Sure(x)' => Sure(x) /\ \A a \in D!Above[x] : a \notin doubtful'
  BY <1>0, SureKeeps
<1>4. ASSUME NEW x \in D!Path, Sure(x)', x \in D!Below(p)
      PROVE  /\ Sure(p) /\ D!Reported(d, p)
             /\ \A q \in D!Below(p) : ~Making(q) /\ ~Dying(q)
             /\ x # p => x \notin dirs[d]
  <2>1. x \in D!Above[x] /\ p \in D!Above[x] /\ Sure(x)
    BY <1>3, <1>4, AboveOwn DEF D!Below
  <2>2. Sure(p) /\ ~D!Overlaps(d, p)
    BY <1>0, <1>3, <1>4, <2>1, SureUp DEF D!Related
  <2>3. D!Reported(d, p) /\ ~D!Busy(D!Below(p))
    BY <2>2 DEF D!Overlaps
  <2>4. x # p => D!ChildrenIn(dirs[d], p) = {}
    BY <1>3, <1>4, <2>1
  <2>5. D!ChildrenIn(dirs[d], p) = {} => D!Below(p) \cap dirs[d] \subseteq {p}
    BY <1>0, TreeAbove DEF Rooted
  <2>6. \A q \in D!Below(p) : ~Making(q) /\ ~Dying(q)
    <3> SUFFICES ASSUME NEW q \in D!Below(p) PROVE ~Making(q) /\ ~Dying(q)
      OBVIOUS
    <3>1. Making(q) => D!Busy(D!Below(p))
      BY <1>0, MakingIs
    <3>2. Dying(q) => D!Busy(D!Below(p))
      BY <1>0, DyingIs
    <3> QED BY <2>3, <3>1, <3>2
  <2> QED BY <1>4, <2>2, <2>3, <2>4, <2>5, <2>6
<1>5. Rooted'
  <2> SUFFICES ASSUME NEW e \in Device
               PROVE  Root \in dirs'[e] /\ \A q \in D!Path : q \in dirs'[e] => Parent[q] \in dirs'[e]
    BY <1>0 DEF Rooted
  <2>1. Root \in dirs'[e]
    BY <1>0, <1>2 DEF Rooted, D!Below, D!Path
  <2>2. ASSUME NEW q \in D!Path, q \in dirs'[e] PROVE Parent[q] \in dirs'[e]
    <3>1. Parent[q] \in dirs[e]
      BY <1>0, <1>2, <2>2 DEF Rooted
    <3>2. Parent[q] \in D!Below(p) => q \in D!Below(p)
      BY AboveOwn DEF D!Below
    <3> QED BY <1>2, <2>2, <3>1, <3>2
  <2> QED BY <2>1, <2>2
<1>6. ASSUME NEW x \in D!Path, Sure(x)' PROVE Lists(x)'
  BY <1>3, <1>6 DEF Following, Lists
<1>7. \A x \in D!Path : Dying(x)' => Dying(x) \/ x = p
  BY <1>1, <1>2 DEF Dying, Dropping
<1>8. \A b \in D!Path : Making(b)' => Making(b)
  <2> SUFFICES ASSUME NEW b \in D!Path, Making(b)' PROVE Making(b)
    OBVIOUS
  <2>1. PICK e \in Device : Adding(e, b)' \/ Works(e, "store", b)' \/ Posted(e, b, "DIR+")'
    BY DEF Making
  <2> QED BY <1>1, <1>2, <2>1 DEF Making, Adding
<1>9. ASSUME NEW q, Gone(q) PROVE Gone(q)'
  BY <1>2, <1>9 DEF Gone
<1>10. ASSUME NEW q \in D!Below(p), Sure(q)', q # p PROVE Gone(q)
  <2>1. q \in D!Path /\ Sure(q) /\ q \notin dirs[d] /\ ~Making(q) /\ ~Dying(q)
    BY <1>3, <1>4, <1>10, BelowPaths
  <2>2. \A e \in Device : Meets(e, q)
    BY <2>1 DEF Following
  <2>3. \A e \in Device : /\ (q \in dirs[e] <=> q \in tree)
                          /\ (D!HasRow(e, q) <=> q \in dirs[e])
    BY <2>1, <2>2 DEF Meets, Making, Dying, Adding, Dropping
  <2> QED BY <2>1, <2>3 DEF Gone
<1>11. ASSUME NEW x \in D!Path, Sure(x)' PROVE Dead(x)'
  <2>1. Dead(x)
    BY <1>3, <1>11 DEF Following
  <2>2. CASE Dying(x)
    BY <1>3, <1>8, <1>9, <2>1, <2>2, BelowPaths DEF Dead
  <2>3. CASE x = p
    <3>1. \A b \in D!Below(p) : ~Making(b)
      BY <1>4, <1>11, <2>3, AboveOwn
    <3>2. \A q \in D!Below(p) : Sure(q)' => q = p \/ Gone(q)'
      BY <1>9, <1>10
    <3> QED BY <1>8, <2>3, <3>1, <3>2, BelowPaths DEF Dead
  <2>4. CASE ~Dying(x)'
    BY <2>4 DEF Dead
  <2> QED BY <1>7, <2>2, <2>3, <2>4
<1>12. ASSUME NEW x \in D!Path, Sure(x)', NEW e \in Device PROVE Meets(e, x)'
  <2>1. Meets(e, x)
    BY <1>3, <1>12 DEF Following
  <2>2. tree' = tree
    OBVIOUS
  <2>3. CASE e = d /\ x = p
    <3>1. D!Reported(d, p) /\ ~Making(p) /\ ~Dying(p) /\ p \in D!Below(p)
      BY <1>4, <1>12, <2>3, AboveOwn
    <3> QED BY <1>1, <1>2, <2>1, <2>2, <2>3, <3>1 DEF Meets, Adding, Dropping, Making, Dying
  <2>4. CASE ~(e = d /\ x = p)
    <3>1. x \in dirs'[e] <=> x \in dirs[e]
      BY <1>2, <1>4, <1>12, <2>4
    <3> QED BY <1>1, <1>2, <2>1, <2>2, <2>4, <3>1 DEF Meets, Adding, Dropping
  <2> QED BY <2>3, <2>4
<1>13. ASSUME NEW e \in Device, NEW b \in D!Path PROVE Ordered(e, b)'
  <2> SUFFICES ASSUME NEW a \in D!Above[b], Sure(a)'
               PROVE  /\ Posted(e, b, "DIR+") => a \in tree
                      /\ a # b /\ Works(e, "create", b) => a \in tree
                      /\ a # b => a \in tree \/ Works(e, "create", a) \/ Before(e, a, b)'
    BY <1>2 DEF Ordered
  <2>1. a \in D!Path /\ Sure(a)
    BY <1>3, AboveOwn
  <2>2. Ordered(e, b)
    BY DEF Following
  <2> QED BY <1>1, <2>1, <2>2 DEF Ordered
<1> QED BY <1>5, <1>6, <1>11, <1>12, <1>13 DEF Following

\* A directory is removed, or moved out of the tree.
LEMMA FollowRemoves ==
    ASSUME Following, AllRun, TreeTypes', NEW d \in Device, NEW p \in D!Path,
           D!UserRemoves(d, p) \/ D!UserMovesOut(d, p)
    PROVE  Following'
<1>0. TreeTypes /\ Rooted
  BY DEF Following
<1>1. CASE D!UserRemoves(d, p)
  <2>1. /\ p \in dirs[d] /\ D!ChildrenIn(dirs[d], p) = {} /\ D!Erase(d, p)
        /\ UNCHANGED <<tree, listing, notices, rows, queue, stage, calls, doing, unseen>>
        /\ doubtful \subseteq doubtful' /\ (D!Overlaps(d, p) => D!Related(p) \subseteq doubtful')
    BY <1>1 DEF D!UserRemoves, D!server, D!boot, D!Spoil
  <2>2. D!Below(p) \cap dirs[d] = {p}
    BY <1>0, <2>1, TreeAbove, AboveOwn DEF Rooted
  <2> DEFINE told == {q \in D!Below(p) \cap dirs[d] : D!Reported(d, q)}
  <2>3. PICK l \in D!Upwards(told) :
          D!Hears(d, "delete", l) /\ dirs' = [dirs EXCEPT ![d] = @ \ (D!Below(p) \cap dirs[d])]
    BY <2>1 DEF D!Erase
  <2>4. told = IF D!Reported(d, p) THEN {p} ELSE {}
    BY <2>2
  <2> HIDE DEF told
  <2>5. l \in Seq(told) /\ ToSet(l) = told /\ told \in SUBSET D!Path
    <3>1. told \in SUBSET D!Path /\ l \in D!SetToSeqs(told)
      BY <2>3, <2>4 DEF D!Upwards
    <3> QED BY <3>1, FewPaths, EachOrder
  <2> DEFINE t == D!Signals("delete", l)
  <2>6. t \in Seq(D!Signal) /\ ToSet(t) = {[mask |-> "delete", dir |-> q] : q \in told}
    <3>1. l \in Seq(D!Path)
      BY <2>5
    <3> QED BY <2>5, <3>1, SignalsOf
  <2>7. heard' = [heard EXCEPT ![d] = @ \o t]
    BY <2>3 DEF D!Hears
  <2> HIDE DEF t
  <2>8. ToSet(t) = IF D!Reported(d, p) THEN {[mask |-> "delete", dir |-> p]} ELSE {}
    BY <2>4, <2>6
  <2> QED BY <2>1, <2>3, <2>6, <2>7, <2>8, FollowLeaves
<1>2. CASE D!UserMovesOut(d, p)
  <2> DEFINE l == IF D!Reported(d, p) THEN <<p>> ELSE <<>>
             t == D!Signals("from", l)
  <2>1. /\ p \in dirs[d] /\ dirs' = [dirs EXCEPT ![d] = @ \ (D!Below(p) \cap dirs[d])]
        /\ heard' = [heard EXCEPT ![d] = @ \o t]
        /\ UNCHANGED <<tree, listing, notices, rows, queue, stage, calls, doing, unseen>>
        /\ doubtful \subseteq doubtful' /\ (D!Overlaps(d, p) => D!Related(p) \subseteq doubtful')
        /\ (~D!Overlaps(d, p) => D!Below(p) \ {p} \subseteq doubtful')
    BY <1>2 DEF D!UserMovesOut, D!Hears, D!server, D!boot, D!Spoil
  <2>2. l \in Seq(D!Path) /\ ToSet(l) = IF D!Reported(d, p) THEN {p} ELSE {}
    BY DEF ToSet
  <2>3. t \in Seq(D!Signal) /\ ToSet(t) = {[mask |-> "from", dir |-> q] : q \in ToSet(l)}
    <3> HIDE DEF l
    <3> QED BY <2>2, SignalsOf
  <2> HIDE DEF t, l
  <2>4. ToSet(t) = IF D!Reported(d, p) THEN {[mask |-> "from", dir |-> p]} ELSE {}
    BY <2>2, <2>3
  <2>5. D!Below(p) \ {p} \subseteq doubtful'
    BY <2>1 DEF D!Related
  <2> QED BY <2>1, <2>3, <2>4, <2>5, FollowLeaves
<1> QED BY <1>1, <1>2

-----------------------------------------------------------------------------
(* Events. *)

\* What is known of sure paths stays, and events stay in order.
LEMMA FollowSame ==
    ASSUME Following, TreeTypes', UNCHANGED <<tree, listing, dirs, rows, notices, doing, calls, unseen, doubtful>>,
           \A e \in Device, q \in D!Path :
             /\ HasAdd(e, q)' <=> HasAdd(e, q)
             /\ Sure(q) => (HasDrop(e, q)' <=> HasDrop(e, q))
             /\ \A a : Before(e, a, q) => Before(e, a, q)'
    PROVE  Following'
<1>0. TreeTypes
  BY DEF Following
<1>1. \A e \in Device : \A q :
        /\ \A at : Works(e, at, q)' <=> Works(e, at, q)
        /\ \A u : Posted(e, q, u)' <=> Posted(e, q, u)
        /\ D!HasRow(e, q)' <=> D!HasRow(e, q)
  BY DEF Works, Posted, D!HasRow
<1>2. \A x \in D!Path : Sure(x)' => Sure(x)
  BY <1>0, SureKeeps
<1>3. ASSUME NEW x \in D!Path, Sure(x) PROVE Dying(x)' => Dying(x)
  BY <1>1, <1>3 DEF Dying, Dropping
<1>4. \A b \in D!Path : Making(b)' => Making(b)
  BY <1>1 DEF Making, Adding
<1>5. \A q : Gone(q) => Gone(q)'
  BY <1>1 DEF Gone
<1>6. ASSUME NEW x \in D!Path, Sure(x)'
      PROVE  Lists(x)' /\ Dead(x)' /\ \A e \in Device : Meets(e, x)'
  <2>1. Lists(x) /\ Dead(x) /\ \A e \in Device : Meets(e, x)
    BY <1>2, <1>6 DEF Following
  <2>2. Lists(x)'
    BY <2>1 DEF Lists
  <2>3. Dead(x)'
    BY <1>2, <1>3, <1>4, <1>5, <1>6, <2>1, BelowPaths DEF Dead
  <2>4. \A e \in Device : Meets(e, x)'
    BY <1>1, <1>2, <1>6, <2>1 DEF Meets, Adding, Dropping
  <2> QED BY <2>2, <2>3, <2>4
<1>7. ASSUME NEW e \in Device, NEW b \in D!Path PROVE Ordered(e, b)'
  <2>1. Ordered(e, b) /\ D!Above[b] \subseteq D!Path
    BY AboveOwn DEF Following
  <2> QED BY <1>1, <1>2, <2>1 DEF Ordered
<1> QED BY <1>6, <1>7 DEF Following, Rooted

\* One more at the end.
LEMMA ToSetAppend ==
    ASSUME NEW S, NEW s \in Seq(S), NEW x \in S
    PROVE  Append(s, x) \in Seq(S) /\ ToSet(Append(s, x)) = ToSet(s) \cup {x}
<1> DEFINE t == <<x>>
           r == Append(s, x)
<1>1. t \in Seq(S) /\ r = s \o t /\ ToSet(t) = {x}
  BY DEF ToSet
<1> HIDE DEF t, r
<1>2. s \o t \in Seq(S) /\ ToSet(s \o t) = ToSet(s) \cup ToSet(t)
  BY <1>1, ToSetConcat
<1> QED BY <1>1, <1>2 DEF r

\* One event is queued, with what it brings.
LEMMA QueueWatch ==
    ASSUME TreeTypes, NEW d \in Device, heard[d] # <<>>, NEW l \in Seq(D!Path),
           NEW m \in {"create", "delete", "from"},
           heard' = [heard EXCEPT ![d] = Tail(@)], D!PushIf(d, l, m), Head(heard[d]).dir \in ToSet(l),
           Head(heard[d]).mask = m, m = "create" => l = <<Head(heard[d]).dir>>
    PROVE  \A e \in Device : \A q :
             /\ HasAdd(e, q)' <=> HasAdd(e, q)
             /\ HasDrop(e, q) => HasDrop(e, q)'
             /\ HasDrop(e, q)' => HasDrop(e, q) \/ (e = d /\ q \in ToSet(l) /\ m # "create")
             /\ \A b : Before(e, q, b) => Before(e, q, b)'
<1> DEFINE g == D!Signals(m, l)
           u == queue[d]
           h == heard[d]
           s == Head(h)
           q1 == D!Distinct(u \o g)
<1>1. /\ heard \in [Device -> Seq(D!Signal)] /\ queue \in [Device -> Seq(D!Signal)]
      /\ u \in Seq(D!Signal) /\ h \in Seq(D!Signal) /\ h # <<>> /\ s.mask = m /\ s.dir \in ToSet(l)
      /\ m = "create" => l = <<s.dir>>
  BY DEF TreeTypes, D!TypeOK
<1>2. \A e \in Device : /\ e # d => Trail(e)' = Trail(e)
                        /\ e = d => Trail(e) = u \o h /\ Trail(e)' = q1 \o Tail(h)
  BY <1>1 DEF Trail, D!PushIf
<1>3. /\ g \in Seq(D!Signal) /\ ToSet(g) = {[mask |-> m, dir |-> q] : q \in ToSet(l)}
      /\ m = "create" => g = <<s>>
  <2>1. g \in Seq(D!Signal) /\ ToSet(g) = {[mask |-> m, dir |-> q] : q \in ToSet(l)}
    BY SignalsOf
  <2>2. s \in D!Signal
    BY <1>1, ToSetTail
  <2>3. s = [mask |-> s.mask, dir |-> s.dir]
    BY <2>2 DEF D!Signal
  <2>4. ASSUME m = "create" PROVE g = <<s>>
    <3>1. l = <<s.dir>>
      BY <1>1, <2>4
    <3>2. DOMAIN g = {1} /\ g[1] = [mask |-> m, dir |-> s.dir]
      BY <3>1 DEF D!Signals
    <3>3. g[1] = s
      BY <3>2, <2>3, <1>1
    <3>4. Len(g) = 1
      BY <2>1, <3>2
    <3> QED BY <2>1, <2>2, <3>3, <3>4, SeqEqual
  <2> QED BY <2>1, <2>4
<1>4. s \in ToSet(g) /\ s \in D!Signal
  <2>1. s \in D!Signal
    BY <1>1, ToSetTail
  <2>2. s = [mask |-> s.mask, dir |-> s.dir]
    BY <2>1 DEF D!Signal
  <2> QED BY <1>1, <1>3, <2>1, <2>2
<1>5. q1 \in Seq(D!Signal) /\ ToSet(q1) = ToSet(u) \cup ToSet(g)
  BY <1>1, <1>3, QueueTakes
<1>6. /\ Tail(h) \in Seq(D!Signal) /\ ToSet(h) = {s} \cup ToSet(Tail(h))
  BY <1>1, ToSetTail
<1>7. /\ ToSet(u \o h) = ToSet(u) \cup {s} \cup ToSet(Tail(h))
      /\ ToSet(q1 \o Tail(h)) = ToSet(u) \cup ToSet(g) \cup ToSet(Tail(h))
  <2> DEFINE r == Tail(h)
  <2>1. r \in Seq(D!Signal) /\ ToSet(h) = {s} \cup ToSet(r)
    BY <1>6
  <2> HIDE DEF q1, u, h, s, g, r
  <2>2. ToSet(u \o h) = ToSet(u) \cup {s} \cup ToSet(r)
    <3>1. ToSet(u \o h) = ToSet(u) \cup ToSet(h)
      BY <1>1, ToSetConcat
    <3> QED BY <2>1, <3>1
  <2>3. ToSet(q1 \o r) = ToSet(u) \cup ToSet(g) \cup ToSet(r)
    <3>1. ToSet(q1 \o r) = ToSet(q1) \cup ToSet(r)
      BY <1>5, <2>1, ToSetConcat
    <3> QED BY <1>5, <3>1
  <2> QED BY <2>2, <2>3 DEF r
<1>8. ASSUME NEW a, NEW b, Leads(u \o h, a, b) PROVE Leads(q1 \o Tail(h), a, b)
  <2>1. Leads((u \o g) \o Tail(h), a, b)
    <3>1. Leads(u, a, b) /\ (Add(a) \in ToSet(u) \/ Leads(h, a, b))
      BY <1>1, <1>8, LeadsParts
    <3>2. /\ <<s>> \in Seq(D!Signal) /\ h = <<s>> \o Tail(h) /\ ToSet(<<s>>) = {s}
          /\ u \o g \in Seq(D!Signal) /\ ToSet(u \o g) = ToSet(u) \cup ToSet(g)
      <4>1. h = <<s>> \o Tail(h)
        BY <1>1
      <4>2. ToSet(<<s>>) = {s}
        BY DEF ToSet
      <4>3. <<s>> \in Seq(D!Signal)
        BY <1>4
      <4>4. u \in Seq(D!Signal) /\ g \in Seq(D!Signal)
        BY <1>1, <1>3
      <4> HIDE DEF u, g, h, s
      <4>5. u \o g \in Seq(D!Signal)
        BY <4>4
      <4>6. ToSet(u \o g) = ToSet(u) \cup ToSet(g)
        BY <4>4, ToSetConcat
      <4> QED BY <4>1, <4>2, <4>3, <4>5, <4>6
    <3>3. Leads(h, a, b) => Leads(<<s>>, a, b) /\ (Add(a) = s \/ Leads(Tail(h), a, b))
      <4> DEFINE k == <<s>>
                 r == Tail(h)
      <4>1. k \in Seq(D!Signal) /\ r \in Seq(D!Signal) /\ h = k \o r /\ ToSet(k) = {s}
        BY <1>6, <3>2
      <4> HIDE DEF k, r, h, s
      <4>2. Leads(k \o r, a, b) => Leads(k, a, b) /\ (Add(a) \in ToSet(k) \/ Leads(r, a, b))
        BY <4>1, LeadsParts
      <4>3. Leads(h, a, b) => Leads(k, a, b) /\ (Add(a) = s \/ Leads(r, a, b))
        BY <4>1, <4>2
      <4> QED BY <4>3 DEF k, r
    <3>4. CASE m = "create"
      <4>1. Leads(u \o g, a, b)
        <5>1. g = <<s>>
          BY <1>3, <3>4
        <5>2. Leads(u, a, b) /\ (Add(a) \in ToSet(u) \/ Leads(g, a, b))
          BY <3>1, <3>3, <5>1
        <5>3. u \in Seq(D!Signal) /\ g \in Seq(D!Signal)
          BY <1>1, <1>3
        <5> HIDE DEF u, g
        <5> QED BY <5>2, <5>3, LeadsParts
      <4>2. Add(a) \in ToSet(u \o g) \/ Leads(Tail(h), a, b)
        BY <1>3, <1>4, <3>1, <3>2, <3>3
      <4> QED BY <1>6, <3>2, <4>1, <4>2, LeadsParts
    <3>5. CASE m # "create"
      <4>1. Add(b) \notin ToSet(g) /\ Add(a) # s
        <5>1. Add(b).mask = "create" /\ Add(a).mask = "create" /\ \A x \in ToSet(g) : x.mask = m
          BY <1>3 DEF Add
        <5> QED BY <5>1, <1>1, <3>5
      <4>2. Leads(u \o g, a, b)
        BY <1>1, <1>3, <3>1, <4>1, LeadsNone, LeadsParts
      <4>3. Add(a) \in ToSet(u \o g) \/ Leads(Tail(h), a, b)
        BY <3>1, <3>2, <3>3, <4>1
      <4> QED BY <1>6, <3>2, <4>2, <4>3, LeadsParts
    <3> QED BY <3>4, <3>5
  <2>2. u \o g \in Seq(D!Signal)
    BY <1>1, <1>3
  <2> QED BY <1>6, <2>1, <2>2, LeadsOnce
<1>9. /\ \A q : Add(q) \in ToSet(g) => Add(q) = s
      /\ \A q, x : x \in Drop(q) /\ x \in ToSet(g) => q \in ToSet(l) /\ m # "create"
  <2>1. ASSUME NEW q, Add(q) \in ToSet(g) PROVE Add(q) = s
    <3>1. Add(q).mask = "create"
      BY DEF Add
    <3>2. m = "create"
      BY <1>3, <2>1, <3>1
    <3>3. ToSet(g) = {s}
      BY <1>3, <3>2 DEF ToSet
    <3> QED BY <2>1, <3>3
  <2>2. ASSUME NEW q, NEW x \in Drop(q), x \in ToSet(g) PROVE q \in ToSet(l) /\ m # "create"
    <3>1. x.dir = q /\ x.mask # "create"
      BY <2>2 DEF Drop
    <3> QED BY <1>3, <2>2, <3>1
  <2> QED BY <2>1, <2>2
<1> HIDE DEF g, u, h, s, q1
<1>10. ASSUME NEW e \in Device, NEW q
       PROVE  /\ HasAdd(e, q)' <=> HasAdd(e, q)
              /\ HasDrop(e, q) => HasDrop(e, q)'
              /\ HasDrop(e, q)' => HasDrop(e, q) \/ (e = d /\ q \in ToSet(l) /\ m # "create")
              /\ \A b : Before(e, q, b) => Before(e, q, b)'
  <2>1. CASE e # d
    <3>1. Trail(e)' = Trail(e)
      BY <1>2, <2>1
    <3> QED BY <3>1, <2>1 DEF HasAdd, HasDrop, Before, Add, Drop
  <2>2. CASE e = d
    <3>1. Trail(e) = u \o h /\ Trail(e)' = q1 \o Tail(h)
      BY <1>2, <2>2
    <3>2. ToSet(Trail(e)) = ToSet(u) \cup {s} \cup ToSet(Tail(h))
          /\ ToSet(Trail(e)') = ToSet(u) \cup ToSet(g) \cup ToSet(Tail(h))
      BY <1>7, <3>1
    <3>3. HasAdd(e, q)' <=> Add(q) \in ToSet(Trail(e)')
      BY DEF HasAdd, Add
    <3>4. HasDrop(e, q)' <=> Drop(q) \cap ToSet(Trail(e)') # {}
      BY DEF HasDrop, Drop
    <3>5. \A b : Before(e, q, b) => Before(e, q, b)'
      BY <1>8, <3>1 DEF Before
    <3>6. HasAdd(e, q)' <=> HasAdd(e, q)
      BY <1>4, <1>9, <3>2, <3>3 DEF HasAdd
    <3>7. HasDrop(e, q) => HasDrop(e, q)'
      BY <1>4, <3>2, <3>4 DEF HasDrop
    <3>8. HasDrop(e, q)' => HasDrop(e, q) \/ (q \in ToSet(l) /\ m # "create")
      BY <1>9, <3>2, <3>4 DEF HasDrop
    <3> QED BY <2>2, <3>5, <3>6, <3>7, <3>8
  <2> QED BY <2>1, <2>2
<1> QED BY <1>10

\* The watcher takes an event.
LEMMA FollowWatch ==
    ASSUME Following, TreeTypes', NEW d \in Device, D!Watch(d)
    PROVE  Following'
<1> DEFINE s == Head(heard[d])
           p == s.dir
<1>0. TreeTypes
  BY DEF Following
<1>1. /\ heard[d] # <<>> /\ heard' = [heard EXCEPT ![d] = Tail(@)]
      /\ UNCHANGED <<tree, listing, dirs, rows, notices, doing, calls, unseen, doubtful>>
      /\ \/ s.mask = "create" /\ D!PushIf(d, <<p>>, "create")
         \/ /\ s.mask # "create"
            /\ \E below \in D!SetToSeqs((D!Below(p) \cap snapshot[d] \cap dirs[d]) \ {p}) :
                 D!PushIf(d, Append(below, p), s.mask)
  BY DEF D!Watch, D!server, D!boot, D!history
<1>2. heard[d] \in Seq(D!Signal)
  BY <1>0 DEF TreeTypes, D!TypeOK
<1>3. s \in D!Signal /\ s \in ToSet(heard[d])
  BY <1>1, <1>2, ToSetTail
<1>4. s.mask \in {"create", "delete", "from"} /\ p \in D!Path /\ s = [mask |-> s.mask, dir |-> p]
  BY <1>3 DEF D!Signal
<1>5. s.mask # "create" => HasDrop(d, p)
  <2>1. s \in ToSet(Trail(d))
    BY <1>0, <1>3, TrailHas DEF D!ToSet, ToSet
  <2>2. s.mask # "create" => s \in Drop(p)
    BY <1>4 DEF Drop
  <2> QED BY <2>1, <2>2 DEF HasDrop
<1>6. PICK l \in Seq(D!Path) : /\ D!PushIf(d, l, s.mask) /\ p \in ToSet(l)
                               /\ (s.mask = "create" => l = <<p>>)
                               /\ (s.mask # "create" => \A q \in ToSet(l) : q = p \/ (q \in D!Below(p) /\ q \in dirs[d]))
  <2>1. CASE s.mask = "create" /\ D!PushIf(d, <<p>>, "create")
    <3>1. <<p>> \in Seq(D!Path) /\ p \in ToSet(<<p>>)
      BY <1>4 DEF ToSet
    <3> QED BY <2>1, <3>1
  <2>2. CASE s.mask # "create"
    <3> DEFINE S == (D!Below(p) \cap snapshot[d] \cap dirs[d]) \ {p}
    <3>1. PICK below \in D!SetToSeqs(S) : D!PushIf(d, Append(below, p), s.mask)
      BY <1>1, <2>2
    <3>2. S \in SUBSET D!Path /\ \A q \in S : q \in D!Below(p) /\ q \in dirs[d]
      BY BelowPaths
    <3> HIDE DEF S
    <3>3. below \in Seq(S) /\ ToSet(below) = S
      BY <3>2, <3>1, FewPaths, EachOrder
    <3>4. below \in Seq(D!Path)
      BY <3>2, <3>3
    <3>5. Append(below, p) \in Seq(D!Path) /\ ToSet(Append(below, p)) = S \cup {p}
      <4> HIDE DEF p
      <4> QED BY <1>4, <3>3, <3>4, ToSetAppend
    <3> QED BY <2>2, <3>1, <3>2, <3>5
  <2> QED BY <1>1, <2>1, <2>2
<1> HIDE DEF s, p
<1>7. \A e \in Device : \A q :
        /\ HasAdd(e, q)' <=> HasAdd(e, q)
        /\ HasDrop(e, q) => HasDrop(e, q)'
        /\ HasDrop(e, q)' => HasDrop(e, q) \/ (e = d /\ q \in ToSet(l) /\ s.mask # "create")
        /\ \A b : Before(e, q, b) => Before(e, q, b)'
  BY <1>0, <1>1, <1>4, <1>6, QueueWatch DEF s, p
<1>8. ASSUME NEW e \in Device, NEW q \in D!Path, Sure(q), HasDrop(e, q)' PROVE HasDrop(e, q)
  <2>1. CASE e = d /\ q \in D!Below(p) /\ q # p /\ q \in dirs[d] /\ s.mask # "create"
    <3>1. Sure(p)
      BY <1>0, <1>8, <2>1, SureUp DEF D!Below
    <3>2. Dying(p) /\ Dead(p)
      BY <1>4, <1>5, <2>1, <3>1 DEF Dying, Dropping, Following
    <3>3. Gone(q)
      BY <1>8, <2>1, <3>2 DEF Dead
    <3> QED BY <2>1, <3>3 DEF Gone
  <2> QED BY <1>5, <1>6, <1>7, <1>8, <2>1
<1> QED BY <1>1, <1>7, <1>8, FollowSame

\* The handler takes mtx, or gives it back.
LEMMA FollowDrain ==
    ASSUME Following, TreeTypes', NEW d \in Device, D!Drain(d) \/ D!DrainEnds(d)
    PROVE  Following'
<1>1. UNCHANGED <<tree, listing, dirs, rows, notices, doing, calls, unseen, doubtful, heard, queue>>
  BY DEF D!Drain, D!DrainEnds, D!server, D!boot, D!history
<1>2. \A e \in Device : \A q :
        /\ HasAdd(e, q)' <=> HasAdd(e, q)
        /\ HasDrop(e, q)' <=> HasDrop(e, q)
        /\ \A b : Before(e, q, b)' <=> Before(e, q, b)
  BY <1>1, TrailSame
<1> QED BY <1>1, <1>2, FollowSame

-----------------------------------------------------------------------------
(* The handler of local events. *)

\* Steps that leave the history as it is.
LEMMA SureSame ==
    ASSUME TreeTypes, TreeTypes', unseen' = unseen, doubtful' = doubtful
    PROVE  \A x \in D!Path : Sure(x)' => Sure(x)
BY SureKeeps

\* An event of a directory that has a row is dropped.
LEMMA FollowKnown ==
    ASSUME Following, TreeTypes', NEW d \in Device, NEW p \in D!Path, queue[d] # <<>>, Head(queue[d]) = Add(p),
           D!HasRow(d, p), queue' = [queue EXCEPT ![d] = Tail(@)],
           UNCHANGED <<tree, listing, dirs, rows, notices, doing, calls, unseen, doubtful, heard>>
    PROVE  Following'
<1> DEFINE s == Head(queue[d])
<1>0. TreeTypes
  BY DEF Following
<1>1. /\ HasAdd(d, p) /\ \A a : ~Before(d, a, p)
      /\ \A e \in Device : \A q :
           /\ HasAdd(e, q)' => HasAdd(e, q)
           /\ HasAdd(e, q) => HasAdd(e, q)' \/ (e = d /\ q = p)
           /\ HasDrop(e, q)' <=> HasDrop(e, q)
           /\ \A b : Before(e, q, b) /\ ~(e = d /\ q = p) => Before(e, q, b)'
  <2>1. /\ \A q : s = Add(q) => HasAdd(d, q) /\ \A a : ~Before(d, a, q)
        /\ \A e \in Device : \A q :
             /\ HasAdd(e, q)' => HasAdd(e, q)
             /\ HasAdd(e, q) => HasAdd(e, q)' \/ (e = d /\ s = Add(q))
             /\ HasDrop(e, q)' => HasDrop(e, q)
             /\ HasDrop(e, q) => HasDrop(e, q)' \/ (e = d /\ s \in Drop(q))
             /\ \A b : Before(e, q, b) /\ ~(e = d /\ s = Add(q)) => Before(e, q, b)'
    BY <1>0, TrailLess
  <2>2. \A q : (s = Add(q) => q = p) /\ s \notin Drop(q)
    BY DEF Add, Drop
  <2> HIDE DEF s
  <2> QED BY <2>1, <2>2 DEF s
<1>2. \A e \in Device : \A q :
        /\ \A at : Works(e, at, q)' <=> Works(e, at, q)
        /\ \A u : Posted(e, q, u)' <=> Posted(e, q, u)
        /\ D!HasRow(e, q)' <=> D!HasRow(e, q)
  BY DEF Works, Posted, D!HasRow
<1>3. \A x \in D!Path : Sure(x)' => Sure(x)
  BY <1>0, SureSame
<1>4. \A x \in D!Path : Dying(x)' <=> Dying(x)
  BY <1>1, <1>2 DEF Dying, Dropping
<1>5. ASSUME NEW b \in D!Path, Making(b)' PROVE Making(b)
  <2>1. PICK e \in Device : Adding(e, b)' \/ Works(e, "store", b)' \/ Posted(e, b, "DIR+")'
    BY <1>5 DEF Making
  <2> QED BY <1>1, <1>2, <2>1 DEF Making, Adding
<1>6. \A q : Gone(q) => Gone(q)'
  BY <1>2 DEF Gone
<1>7. ASSUME Sure(p) PROVE p \in tree /\ p \in dirs[d]
  <2>1. Meets(d, p) /\ Dead(p)
    BY <1>7 DEF Following
  <2>2. Making(p) /\ p \in D!Below(p)
    BY <1>1, AboveOwn DEF Making, Adding
  <2>3. ~Dying(p)
    BY <2>1, <2>2 DEF Dead
  <2> QED BY <1>1, <2>1, <2>3 DEF Meets, Adding, Dying, Dropping
<1>8. ASSUME NEW x \in D!Path, Sure(x)'
      PROVE  Lists(x)' /\ Dead(x)' /\ \A e \in Device : Meets(e, x)'
  <2>1. Lists(x) /\ Dead(x) /\ (\A e \in Device : Meets(e, x)) /\ Sure(x)
    BY <1>3, <1>8 DEF Following
  <2>2. Lists(x)'
    BY <2>1 DEF Lists
  <2>3. Dead(x)'
    BY <1>3, <1>4, <1>5, <1>6, <2>1, BelowPaths DEF Dead
  <2>4. ASSUME NEW e \in Device PROVE Meets(e, x)'
    <3>1. Meets(e, x) /\ (x = p => p \in tree /\ p \in dirs[d])
      BY <1>7, <2>1
    <3>2. tree' = tree /\ dirs' = dirs
      OBVIOUS
    <3> QED BY <1>1, <1>2, <3>1, <3>2 DEF Meets, Adding, Dropping
  <2> QED BY <2>2, <2>3, <2>4
<1>9. ASSUME NEW e \in Device, NEW b \in D!Path PROVE Ordered(e, b)'
  <2>1. Ordered(e, b) /\ D!Above[b] \subseteq D!Path
    BY AboveOwn DEF Following
  <2> QED BY <1>1, <1>2, <1>3, <1>7, <2>1 DEF Ordered
<1> QED BY <1>8, <1>9 DEF Following, Rooted

\* An event is taken: of a directory without a row, or of one that went.
LEMMA FollowTakes ==
    ASSUME Following, AllRun, TreeTypes', NEW d \in Device, NEW p \in D!Path, NEW op \in {"create", "delete"},
           queue[d] # <<>>, op = "create" => Head(queue[d]) = Add(p), op = "delete" => Head(queue[d]) \in Drop(p),
           queue' = [queue EXCEPT ![d] = Tail(@)],
           doing[d].at = "idle", doing' = [doing EXCEPT ![d] = [at |-> op, dir |-> p]],
           UNCHANGED <<tree, listing, dirs, notices, calls, unseen, doubtful, heard>>,
           \A e \in Device, q \in D!Path :
             /\ D!HasRow(e, q)' => D!HasRow(e, q)
             /\ D!HasRow(e, q) => D!HasRow(e, q)' \/ (e = d /\ op = "delete" /\ q \in D!Below(p)),
           op = "delete" => ~D!HasRow(d, p)'
    PROVE  Following'
<1> DEFINE s == Head(queue[d])
<1>0. TreeTypes
  BY DEF Following
<1>1. /\ op = "create" => HasAdd(d, p) /\ \A a : ~Before(d, a, p)
      /\ op = "delete" => HasDrop(d, p)
      /\ \A e \in Device : \A q :
           /\ HasAdd(e, q)' => HasAdd(e, q)
           /\ HasAdd(e, q) => HasAdd(e, q)' \/ (e = d /\ q = p /\ op = "create")
           /\ HasDrop(e, q)' => HasDrop(e, q)
           /\ HasDrop(e, q) => HasDrop(e, q)' \/ (e = d /\ q = p /\ op = "delete")
           /\ \A b : Before(e, q, b) /\ ~(e = d /\ q = p /\ op = "create") => Before(e, q, b)'
  <2>1. /\ \A q : s = Add(q) => HasAdd(d, q) /\ \A a : ~Before(d, a, q)
        /\ \A q : s \in Drop(q) => HasDrop(d, q)
        /\ \A e \in Device : \A q :
             /\ HasAdd(e, q)' => HasAdd(e, q)
             /\ HasAdd(e, q) => HasAdd(e, q)' \/ (e = d /\ s = Add(q))
             /\ HasDrop(e, q)' => HasDrop(e, q)
             /\ HasDrop(e, q) => HasDrop(e, q)' \/ (e = d /\ s \in Drop(q))
             /\ \A b : Before(e, q, b) /\ ~(e = d /\ s = Add(q)) => Before(e, q, b)'
    <3>1. PICK h : h = Head(queue[d])
      OBVIOUS
    <3>2. queue' = [queue EXCEPT ![d] = Tail(@)] /\ heard' = heard
      OBVIOUS
    <3> QED BY <1>0, <3>1, <3>2, TrailLess
  <2>2. \A q : /\ s = Add(q) => q = p /\ op = "create"
               /\ s \in Drop(q) => q = p /\ op = "delete"
    BY DEF Add, Drop
  <2>3. (op = "create" => s = Add(p)) /\ (op = "delete" => s \in Drop(p))
    OBVIOUS
  <2> HIDE DEF s
  <2>4. /\ op = "create" => HasAdd(d, p) /\ \A a : ~Before(d, a, p)
        /\ op = "delete" => HasDrop(d, p)
    BY <2>1, <2>3
  <2>5. ASSUME NEW e \in Device, NEW q
        PROVE  /\ HasAdd(e, q)' => HasAdd(e, q)
               /\ HasAdd(e, q) => HasAdd(e, q)' \/ (e = d /\ q = p /\ op = "create")
               /\ HasDrop(e, q)' => HasDrop(e, q)
               /\ HasDrop(e, q) => HasDrop(e, q)' \/ (e = d /\ q = p /\ op = "delete")
    BY <2>1, <2>2
  <2>6. ASSUME NEW e \in Device, NEW q, NEW b, Before(e, q, b), ~(e = d /\ q = p /\ op = "create")
        PROVE  Before(e, q, b)'
    BY <2>1, <2>2, <2>6
  <2> QED BY <2>4, <2>5, <2>6
<1>2. \A e \in Device : \A q :
        /\ \A l : Works(e, l, q)' <=> IF e = d THEN l = op /\ q = p ELSE Works(e, l, q)
        /\ \A u : Posted(e, q, u)' <=> Posted(e, q, u)
  <2>1. \A e \in Device : \A l, q :
          Works(e, l, q)' <=> IF e = d THEN [at |-> op, dir |-> p].at = l /\ [at |-> op, dir |-> p].dir = q
                                       ELSE Works(e, l, q)
    BY <1>0, WorksNow
  <2> QED BY <2>1, PostedSame
<1>3. \A q, l : l # "idle" => ~Works(d, l, q)
  BY DEF Works
<1>4. \A x \in D!Path : Sure(x)' => Sure(x)
  BY <1>0, SureSame
<1>5. ASSUME NEW e \in Device, NEW q
      PROVE  /\ Adding(e, q)' <=> Adding(e, q)
             /\ Dropping(e, q)' <=> Dropping(e, q)
             /\ Works(e, "store", q)' <=> Works(e, "store", q)
  <2>1. /\ Works(e, "create", q)' <=> IF e = d THEN op = "create" /\ q = p ELSE Works(e, "create", q)
        /\ Works(e, "delete", q)' <=> IF e = d THEN op = "delete" /\ q = p ELSE Works(e, "delete", q)
        /\ Works(e, "store", q)' <=> IF e = d THEN FALSE ELSE Works(e, "store", q)
    BY <1>2
  <2>2. ~Works(d, "create", q) /\ ~Works(d, "delete", q) /\ ~Works(d, "store", q)
    BY <1>3
  <2>3. /\ HasAdd(e, q)' => HasAdd(e, q)
        /\ HasAdd(e, q) => HasAdd(e, q)' \/ (e = d /\ q = p /\ op = "create")
        /\ HasDrop(e, q)' => HasDrop(e, q)
        /\ HasDrop(e, q) => HasDrop(e, q)' \/ (e = d /\ q = p /\ op = "delete")
        /\ op = "create" => HasAdd(d, p)
        /\ op = "delete" => HasDrop(d, p)
    BY <1>1
  <2> QED BY <2>1, <2>2, <2>3 DEF Adding, Dropping
<1>6. \A x : /\ Dying(x)' <=> Dying(x)
             /\ Making(x)' <=> Making(x)
  BY <1>2, <1>5 DEF Dying, Making
<1>7. \A q \in D!Path : Gone(q) => Gone(q)'
  BY DEF Gone
<1>8. ASSUME NEW x \in D!Path, Sure(x), x # p, NEW e \in Device PROVE D!HasRow(e, x)' <=> D!HasRow(e, x)
  <2>1. CASE e = d /\ op = "delete" /\ x \in D!Below(p)
    <3>1. Sure(p)
      BY <1>0, <1>8, <2>1, SureUp DEF D!Below
    <3>2. Dying(p) /\ Dead(p)
      BY <1>1, <2>1, <3>1 DEF Dying, Dropping, Following
    <3>3. Gone(x)
      BY <1>8, <2>1, <3>2 DEF Dead
    <3> QED BY <1>8, <3>3 DEF Gone
  <2> QED BY <1>8, <2>1
<1>9. ASSUME NEW x \in D!Path, Sure(x)'
      PROVE  Lists(x)' /\ Dead(x)' /\ \A e \in Device : Meets(e, x)'
  <2>1. Lists(x) /\ Dead(x) /\ (\A e \in Device : Meets(e, x)) /\ Sure(x)
    BY <1>4, <1>9 DEF Following
  <2>2. Lists(x)'
    BY <2>1 DEF Lists
  <2>3. Dead(x)'
    BY <1>4, <1>6, <1>7, <2>1, BelowPaths DEF Dead
  <2>4. ASSUME NEW e \in Device PROVE Meets(e, x)'
    <3>1. Meets(e, x)
      BY <2>1
    <3>2. tree' = tree /\ dirs' = dirs
      OBVIOUS
    <3>3. CASE x # p \/ e # d \/ op = "create"
      <4>1. (D!HasRow(e, x)' <=> D!HasRow(e, x)) /\ (HasDrop(e, x)' <=> HasDrop(e, x))
        BY <1>1, <1>8, <2>1, <3>3
      <4> QED BY <1>2, <1>5, <3>1, <3>2, <4>1 DEF Meets
    <3>4. CASE x = p /\ e = d /\ op = "delete"
      <4>1. Dropping(d, p) /\ ~D!HasRow(d, p)'
        BY <1>1, <3>4 DEF Dropping
      <4> QED BY <1>2, <1>5, <3>1, <3>2, <3>4, <4>1 DEF Meets
    <3> QED BY <3>3, <3>4
  <2> QED BY <2>2, <2>3, <2>4
<1>10. ASSUME NEW e \in Device, NEW b \in D!Path PROVE Ordered(e, b)'
  <2> SUFFICES ASSUME NEW a \in D!Above[b], Sure(a)'
               PROVE  /\ Posted(e, b, "DIR+") => a \in tree
                      /\ a # b /\ Works(e, "create", b)' => a \in tree
                      /\ a # b => a \in tree \/ Works(e, "create", a)' \/ Before(e, a, b)'
    BY <1>2 DEF Ordered
  <2>1. a \in D!Path /\ Sure(a)
    BY <1>4, AboveOwn
  <2>2. Ordered(e, b)
    BY DEF Following
  <2>3. CASE e # d
    BY <1>1, <1>2, <2>1, <2>2, <2>3 DEF Ordered
  <2>4. CASE e = d
    <3>1. Posted(d, b, "DIR+") => a \in tree
      BY <2>1, <2>2, <2>4 DEF Ordered
    <3>2. a # b => a \in tree \/ Before(d, a, b)
      BY <1>3, <2>1, <2>2, <2>4 DEF Ordered
    <3>5. /\ Works(d, "create", a)' <=> op = "create" /\ a = p
          /\ Works(d, "create", b)' <=> op = "create" /\ b = p
      BY <1>2
    <3>6. op = "create" => ~Before(d, a, p)
      BY <1>1
    <3>7. Before(d, a, b) /\ ~(a = p /\ op = "create") => Before(d, a, b)'
      BY <1>1
    <3>3. a # b /\ Works(d, "create", b)' => a \in tree
      BY <3>2, <3>5, <3>6
    <3>4. a # b => a \in tree \/ Works(d, "create", a)' \/ Before(d, a, b)'
      BY <3>2, <3>5, <3>7
    <3> QED BY <2>4, <3>1, <3>3, <3>4
  <2> QED BY <2>3, <2>4
<1> QED BY <1>9, <1>10 DEF Following, Rooted

\* A local event.
LEMMA FollowLocal ==
    ASSUME Following, AllRun, TreeTypes', NEW d \in Device, D!LocalEvent(d)
    PROVE  Following'
<1> DEFINE s == Head(queue[d])
<1>0. TreeTypes
  BY DEF Following
<1>1. /\ queue[d] # <<>> /\ queue' = [queue EXCEPT ![d] = Tail(@)] /\ doing[d].at = "idle"
      /\ UNCHANGED <<tree, listing, dirs, notices, calls, unseen, doubtful, heard>>
      /\ \/ s.mask = "create" /\ D!HasRow(d, s.dir) /\ UNCHANGED <<rows, doing>>
         \/ /\ s.mask = "create" /\ ~D!HasRow(d, s.dir)
            /\ D!SetRows(d, D!Listed(rows[d], s.dir)) /\ D!Go(d, "create", s.dir)
         \/ s.mask # "create" /\ D!Forget(d, s.dir) /\ D!Go(d, "delete", s.dir)
  BY DEF D!LocalEvent, D!At, D!server, D!boot, D!history
<1>2. s \in D!Signal
  <2>1. queue[d] \in Seq(D!Signal)
    BY <1>0 DEF TreeTypes, D!TypeOK
  <2> QED BY <1>1, <2>1, ToSetTail
<1>3. PICK p \in D!Path : p = s.dir /\ (s.mask = "create" => s = Add(p)) /\ (s.mask # "create" => s \in Drop(p))
  BY <1>2 DEF D!Signal, Add, Drop
<1>4. CASE s.mask = "create" /\ D!HasRow(d, s.dir) /\ UNCHANGED <<rows, doing>>
  <2> QED BY <1>1, <1>3, <1>4, FollowKnown
<1>5. CASE s.mask = "create" /\ D!SetRows(d, D!Listed(rows[d], s.dir)) /\ D!Go(d, "create", s.dir)
  <2> DEFINE u == D!Listed(rows[d], p)
  <2>1. /\ rows \in [Device -> Table] /\ rows' = [rows EXCEPT ![d] = u] /\ p \in Dir /\ Parent[p] \in Dir
        /\ D!Path \subseteq Dir
    BY <1>0, <1>3, <1>5, AboveOwn DEF D!SetRows, TreeTypes, D!TypeOK, Table, D!Path
  <2>2. \A q \in Dir : u[q] = None <=> rows[d][q] = None
    <3>1. rows[d][Parent[p]] # None => rows[d][Parent[p]] \cup {p} # None
      BY <1>3, <2>1, RowAssumption DEF Table, D!Path
    <3> QED BY <2>1, <3>1 DEF D!Listed, Table
  <2> HIDE DEF u
  <2>3. \A e \in Device, q \in Dir : rows'[e][q] = IF e = d THEN u[q] ELSE rows[e][q]
    BY <2>1
  <2>4. \A e \in Device, q \in D!Path : D!HasRow(e, q)' <=> D!HasRow(e, q)
    BY <2>1, <2>2, <2>3 DEF D!HasRow
  <2>5. doing' = [doing EXCEPT ![d] = [at |-> "create", dir |-> p]]
    BY <1>3, <1>5 DEF D!Go
  <2> QED BY <1>1, <1>3, <1>5, <2>4, <2>5, FollowTakes
<1>6. CASE s.mask # "create" /\ D!Forget(d, s.dir) /\ D!Go(d, "delete", s.dir)
  <2>1. /\ \A e \in Device, q \in D!Path :
             /\ D!HasRow(e, q)' => D!HasRow(e, q)
             /\ D!HasRow(e, q) => D!HasRow(e, q)' \/ (e = d /\ q \in D!Below(p))
        /\ ~D!HasRow(d, p)'
    <3>1. p \in D!Path /\ D!Forget(d, p)
      BY <1>3, <1>6
    <3> QED BY <1>0, <3>1, RowsLess
  <2>2. doing' = [doing EXCEPT ![d] = [at |-> "delete", dir |-> p]]
    BY <1>3, <1>6 DEF D!Go
  <2>3. Head(queue[d]) \in Drop(p)
    BY <1>3, <1>6
  <2> HIDE DEF s
  <2> QED BY <1>1, <2>1, <2>2, <2>3, FollowTakes
<1> QED BY <1>1, <1>4, <1>5, <1>6

-----------------------------------------------------------------------------
(* The jobs. *)

\* The row is stored.
LEMMA FollowStores ==
    ASSUME Following, TreeTypes', NEW d \in Device, D!StoreRow(d)
    PROVE  Following'
<1> DEFINE j == D!Idle
<1>0. TreeTypes
  BY DEF Following
<1>1. PICK p \in D!Path : p = doing[d].dir
  BY <1>0 DEF D!StoreRow, D!At, TreeTypes
<1>2. /\ doing[d].at = "store" /\ doing' = [doing EXCEPT ![d] = j]
      /\ rows' = [rows EXCEPT ![d] = [rows[d] EXCEPT ![p] = {}]]
      /\ UNCHANGED <<tree, listing, dirs, notices, calls, unseen, doubtful, heard, queue>>
  BY <1>1 DEF D!StoreRow, D!At, D!Finish, D!SetRows, D!server, D!events, D!boot, D!history
<1>3. \A e \in Device : \A q :
        /\ HasAdd(e, q)' <=> HasAdd(e, q)
        /\ HasDrop(e, q)' <=> HasDrop(e, q)
        /\ \A b : Before(e, q, b)' <=> Before(e, q, b)
        /\ \A u : Posted(e, q, u)' <=> Posted(e, q, u)
  BY <1>2, TrailSame, PostedSame
<1>4. \A e \in Device : \A q :
        /\ Works(e, "create", q)' <=> Works(e, "create", q)
        /\ Works(e, "delete", q)' <=> Works(e, "delete", q)
        /\ Works(e, "store", q)' <=> Works(e, "store", q) /\ e # d
        /\ Works(d, "store", q) <=> q = p
  <2>1. \A e \in Device : \A l, q : Works(e, l, q)' <=> IF e = d THEN j.at = l /\ j.dir = q ELSE Works(e, l, q)
    BY <1>0, <1>2, WorksNow
  <2>2. j.at = "idle"
    BY DEF D!Idle
  <2>3. \A l, q : Works(d, l, q) <=> l = "store" /\ q = p
    BY <1>1, <1>2 DEF Works
  <2> HIDE DEF j
  <2> QED BY <2>1, <2>2, <2>3
<1>5. \A e \in Device, q \in D!Path : D!HasRow(e, q)' <=> D!HasRow(e, q) \/ (e = d /\ q = p)
  <2>1. rows \in [Device -> Table] /\ D!Path \subseteq Dir /\ {} # None
    BY <1>0, RowAssumption DEF TreeTypes, D!TypeOK, Table, D!Path
  <2>2. \A e \in Device, q \in D!Path : rows'[e][q] = IF e = d /\ q = p THEN {} ELSE rows[e][q]
    BY <1>2, <2>1 DEF Table
  <2> QED BY <2>1, <2>2 DEF D!HasRow
<1>6. \A x \in D!Path : Sure(x)' => Sure(x)
  BY <1>0, <1>2, SureSame
<1>7. \A x : Dying(x)' <=> Dying(x)
  BY <1>3, <1>4 DEF Dying, Dropping
<1>8. ASSUME NEW b, Making(b)' PROVE Making(b)
  <2>1. PICK e \in Device : Adding(e, b)' \/ Works(e, "store", b)' \/ Posted(e, b, "DIR+")'
    BY <1>8 DEF Making
  <2> QED BY <1>3, <1>4, <2>1 DEF Making, Adding
<1>9. Making(p)
  BY <1>4 DEF Making
<1>10. ASSUME NEW x \in D!Path, Sure(x)'
       PROVE  Lists(x)' /\ Dead(x)' /\ \A e \in Device : Meets(e, x)'
  <2>1. Lists(x) /\ Dead(x) /\ (\A e \in Device : Meets(e, x)) /\ Sure(x)
    BY <1>6, <1>10 DEF Following
  <2>2. Lists(x)'
    BY <1>2, <2>1 DEF Lists
  <2>3. Dead(x)'
    <3> SUFFICES ASSUME Dying(x)
                 PROVE  /\ \A b \in D!Below(x) : ~Making(b)'
                        /\ \A q \in D!Below(x) : Sure(q)' => q = x \/ Gone(q)'
      BY <1>7 DEF Dead
    <3>1. p \notin D!Below(x)
      BY <1>9, <2>1 DEF Dead
    <3>2. ASSUME NEW q \in D!Below(x), Gone(q) PROVE Gone(q)'
      BY <1>2, <1>5, <3>1, <3>2, BelowPaths DEF Gone
    <3> QED BY <1>6, <1>8, <2>1, <3>2, BelowPaths DEF Dead
  <2>4. ASSUME NEW e \in Device PROVE Meets(e, x)'
    <3>1. Meets(e, x) /\ (e = d /\ x = p => p \in dirs[d] /\ p \in tree)
      BY <1>4, <2>1 DEF Meets
    <3>2. tree' = tree /\ dirs' = dirs
      BY <1>2
    <3> QED BY <1>3, <1>4, <1>5, <3>1, <3>2 DEF Meets, Adding, Dropping
  <2> QED BY <2>2, <2>3, <2>4
<1>11. ASSUME NEW e \in Device, NEW b \in D!Path PROVE Ordered(e, b)'
  <2>1. Ordered(e, b) /\ D!Above[b] \subseteq D!Path
    BY AboveOwn DEF Following
  <2> QED BY <1>2, <1>3, <1>4, <1>6, <2>1 DEF Ordered
<1> QED BY <1>2, <1>10, <1>11 DEF Following, Rooted

\* A request or a notice about p is lost: nothing in p is sure from then on.
LEMMA FollowLoses ==
    ASSUME Following, TreeTypes', NEW p \in D!Path,
           UNCHANGED <<tree, listing, dirs, rows, calls, heard, queue>>,
           \A x \in D!Path : Sure(x)' => Sure(x) /\ x # p,
           \A e \in Device : \A q :
             /\ Works(e, "create", q)' => Works(e, "create", q)
             /\ Works(e, "delete", q)' => Works(e, "delete", q)
             /\ Works(e, "store", q)' => Works(e, "store", q) \/ Works(e, "create", q)
             /\ \A u : Posted(e, q, u)' => Posted(e, q, u)
             /\ q # p => /\ \A l \in {"create", "store", "delete"} : Works(e, l, q)' <=> Works(e, l, q)
                         /\ \A u : Posted(e, q, u)' <=> Posted(e, q, u)
    PROVE  Following'
<1>0. TreeTypes
  BY DEF Following
<1>1. \A e \in Device : \A q :
        /\ HasAdd(e, q)' <=> HasAdd(e, q)
        /\ HasDrop(e, q)' <=> HasDrop(e, q)
        /\ \A b : Before(e, q, b)' <=> Before(e, q, b)
        /\ D!HasRow(e, q)' <=> D!HasRow(e, q)
  <2>1. \A e \in Device : \A q : D!HasRow(e, q)' <=> D!HasRow(e, q)
    BY DEF D!HasRow
  <2> QED BY <2>1, TrailSame
<1>2. ASSUME NEW x, Dying(x)' PROVE Dying(x)
  <2>1. PICK e \in Device : Dropping(e, x)' \/ Posted(e, x, "DIR-")'
    BY <1>2 DEF Dying
  <2> QED BY <1>1, <2>1 DEF Dying, Dropping
<1>3. ASSUME NEW b, Making(b)' PROVE Making(b)
  <2>1. PICK e \in Device : Adding(e, b)' \/ Works(e, "store", b)' \/ Posted(e, b, "DIR+")'
    BY <1>3 DEF Making
  <2> QED BY <1>1, <2>1 DEF Making, Adding
<1>4. \A q : Gone(q) => Gone(q)'
  BY <1>1 DEF Gone
<1>5. ASSUME NEW x \in D!Path, Sure(x)'
      PROVE  Lists(x)' /\ Dead(x)' /\ \A e \in Device : Meets(e, x)'
  <2>1. Lists(x) /\ Dead(x) /\ (\A e \in Device : Meets(e, x)) /\ x # p
    BY <1>5 DEF Following
  <2>2. Lists(x)'
    BY <2>1 DEF Lists
  <2>3. Dead(x)'
    BY <1>2, <1>3, <1>4, <2>1, BelowPaths DEF Dead
  <2>4. ASSUME NEW e \in Device PROVE Meets(e, x)'
    <3>1. /\ Works(e, "create", x)' <=> Works(e, "create", x)
          /\ Works(e, "store", x)' <=> Works(e, "store", x)
          /\ Works(e, "delete", x)' <=> Works(e, "delete", x)
          /\ \A u : Posted(e, x, u)' <=> Posted(e, x, u)
      BY <2>1
    <3>2. tree' = tree /\ dirs' = dirs /\ Meets(e, x)
      BY <2>1
    <3> QED BY <1>1, <3>1, <3>2 DEF Meets, Adding, Dropping
  <2> QED BY <2>2, <2>3, <2>4
<1>6. ASSUME NEW e \in Device, NEW b \in D!Path PROVE Ordered(e, b)'
  <2> SUFFICES ASSUME NEW a \in D!Above[b], Sure(a)'
               PROVE  /\ Posted(e, b, "DIR+")' => a \in tree
                      /\ a # b /\ Works(e, "create", b)' => a \in tree
                      /\ a # b => a \in tree \/ Works(e, "create", a)' \/ Before(e, a, b)'
    BY DEF Ordered
  <2>1. a \in D!Path /\ Sure(a) /\ a # p
    BY AboveOwn
  <2>2. /\ Posted(e, b, "DIR+") => a \in tree
        /\ a # b /\ Works(e, "create", b) => a \in tree
        /\ a # b => a \in tree \/ Works(e, "create", a) \/ Before(e, a, b)
    BY <2>1 DEF Following, Ordered
  <2>3. Works(e, "create", a)' <=> Works(e, "create", a)
    BY <2>1
  <2> QED BY <1>1, <2>2, <2>3
<1> QED BY <1>5, <1>6 DEF Following, Rooted

\* A request fails.
LEMMA FollowFails ==
    ASSUME Following, TreeTypes', NEW d \in Device, D!RequestFails(d)
    PROVE  Following'
<1>0. TreeTypes
  BY DEF Following
<1>1. PICK p \in D!Path : p = doing[d].dir
  BY <1>0 DEF D!RequestFails, D!At, TreeTypes
<1>2. PICK j : /\ doing' = [doing EXCEPT ![d] = j]
               /\ \/ doing[d].at = "create" /\ j = [at |-> "store", dir |-> p]
                     /\ D!Unseen({d}, p) /\ doubtful' = doubtful
                  \/ doing[d].at = "delete" /\ j = D!Idle /\ D!Spoil(D!Below(p)) /\ unseen' = unseen
               /\ UNCHANGED <<tree, listing, dirs, rows, notices, calls, heard, queue>>
  <2>1. UNCHANGED <<tree, listing, dirs, rows, notices, calls, heard, queue>>
    BY DEF D!RequestFails, D!server, D!events, D!boot
  <2>2. CASE D!At(d, "create") /\ D!Go(d, "store", p) /\ D!Unseen({d}, p) /\ UNCHANGED doubtful
    BY <2>1, <2>2 DEF D!Go, D!At
  <2>3. CASE D!At(d, "delete") /\ D!Finish(d) /\ D!Spoil(D!Below(p)) /\ UNCHANGED unseen
    BY <2>1, <2>3 DEF D!Finish, D!At
  <2> QED BY <1>1, <2>2, <2>3 DEF D!RequestFails
<1>3. \A e \in Device : \A l, q : Works(e, l, q)' <=> IF e = d THEN j.at = l /\ j.dir = q ELSE Works(e, l, q)
  BY <1>0, <1>2, WorksNow
<1>4. \A l, q : Works(d, l, q) <=> l = doing[d].at /\ q = p
  BY <1>1 DEF Works
<1>5. \/ doing[d].at = "create" /\ j.at = "store" /\ j.dir = p
      \/ doing[d].at = "delete" /\ j.at = "idle"
  BY <1>2 DEF D!Idle
<1>6. \A e \in Device : \A q :
             /\ Works(e, "create", q)' => Works(e, "create", q)
             /\ Works(e, "delete", q)' => Works(e, "delete", q)
             /\ Works(e, "store", q)' => Works(e, "store", q) \/ Works(e, "create", q)
             /\ q # p => \A l \in {"create", "store", "delete"} : Works(e, l, q)' <=> Works(e, l, q)
  BY <1>3, <1>4, <1>5
<1>7. \A x \in D!Path : Sure(x)' => Sure(x) /\ x # p
  <2>1. doubtful \subseteq doubtful' /\ \A e \in Device : unseen[e] \subseteq unseen'[e]
    BY <1>0, <1>2 DEF D!Spoil, D!Unseen, TreeTypes, D!TypeOK
  <2>2. p \in doubtful' \/ p \in unseen'[d]
    BY <1>2, AboveOwn DEF D!Spoil, D!Unseen
  <2> QED BY <1>0, <2>1, <2>2, SureKeeps, AboveOwn
<1>8. \A e \in Device : \A q, u : Posted(e, q, u)' <=> Posted(e, q, u)
  BY <1>2, PostedSame
<1> QED BY <1>2, <1>6, <1>7, <1>8, FollowLoses

\* A notice is lost.
LEMMA FollowLost ==
    ASSUME Following, TreeTypes', D!LoseNotice
    PROVE  Following'
<1>0. TreeTypes
  BY DEF Following
<1>1. PICK n \in D!BagToSet(notices) :
        /\ notices' = D!(-)(notices, D!SetToBag({n}))
        /\ \/ D!Unseen({n.to}, n.dir) /\ doubtful' = doubtful
           \/ D!Spoil(D!Below(n.dir)) /\ unseen' = unseen
        /\ UNCHANGED <<tree, listing, dirs, rows, doing, calls, heard, queue>>
  BY DEF D!LoseNotice, D!server, D!events, D!boot
<1>2. /\ n.to \in Device /\ n.dir \in D!Path
      /\ \A e \in Device : \A q, u :
                /\ Posted(e, q, u)' => Posted(e, q, u)
                /\ Posted(e, q, u) => Posted(e, q, u)' \/ (e = n.to /\ q = n.dir /\ u = n.type)
  BY <1>0, <1>1, PostedLess
<1>3. \A e \in Device : \A l, q : Works(e, l, q)' <=> Works(e, l, q)
  BY <1>1, WorksSame
<1>4. \A x \in D!Path : Sure(x)' => Sure(x) /\ x # n.dir
  <2>1. doubtful \subseteq doubtful' /\ \A e \in Device : unseen[e] \subseteq unseen'[e]
    BY <1>0, <1>1 DEF D!Spoil, D!Unseen, TreeTypes, D!TypeOK
  <2>2. n.dir \in doubtful' \/ n.dir \in unseen'[n.to]
    BY <1>1, <1>2, AboveOwn DEF D!Spoil, D!Unseen
  <2> QED BY <1>0, <1>2, <2>1, <2>2, SureKeeps, AboveOwn
<1> QED BY <1>1, <1>2, <1>3, <1>4, FollowLoses

\* No device boots.
LEMMA NoneMissing == ASSUME AllRun PROVE \A d \in Device : D!Missing(d) = {}
BY DEF AllRun, D!Missing

\* A directory is made at the metaserver, if it can be.
LEMMA FollowCreates ==
    ASSUME Following, AllRun, TreeTypes', NEW d \in Device, D!CreateDir(d)
    PROVE  Following'
<1>0. TreeTypes /\ Rooted
  BY DEF Following
<1>1. PICK p \in D!Path : p = doing[d].dir
  BY <1>0 DEF D!CreateDir, D!At, TreeTypes
<1> DEFINE j == [at |-> "store", dir |-> p]
<1>2. /\ doing[d].at = "create" /\ doing' = [doing EXCEPT ![d] = j] /\ D!Create(d, p)
      /\ UNCHANGED <<dirs, rows, calls, doubtful, heard, queue>>
  BY <1>1 DEF D!CreateDir, D!At, D!Go, D!events, D!boot
<1>3. unseen' = unseen
  <2>1. D!Unseen({}, p) /\ unseen \in [Device -> SUBSET D!Path] /\ unseen' \in [Device -> SUBSET D!Path]
    BY <1>0, <1>1, NoneMissing DEF D!CreateDir, TreeTypes, D!TypeOK
  <2>2. \A e \in Device : unseen'[e] = unseen[e]
    BY <2>1 DEF D!Unseen
  <2> QED BY <2>1, <2>2
<1>4. p \in Dir /\ Parent[p] \in Dir /\ Parent[p] # p /\ p \in D!Above[p] /\ p \in D!Below(p)
  BY AboveOwn
<1> PICK made \in BOOLEAN : made <=> p \notin tree /\ Parent[p] \in tree
  OBVIOUS
<1>5. /\ made => p \notin tree /\ Parent[p] \in tree
      /\ ~made => p \in tree \/ Parent[p] \notin tree
      /\ \A q : q \in tree' <=> q \in tree \/ (made /\ q = p)
      /\ \A q \in Dir : q # p => listing[q] \subseteq listing'[q]
      /\ made => p \in listing'[Parent[p]]
      /\ ~made => listing' = listing
      /\ \A e \in Device : \A q, u : Posted(e, q, u)' <=> Posted(e, q, u) \/ (made /\ e # d /\ q = p /\ u = "DIR+")
  <2>1. CASE p \in tree \/ Parent[p] \notin tree
    <3>1. tree' = tree /\ listing' = listing /\ notices' = notices
      BY <1>2, <2>1 DEF D!Create, D!server
    <3> QED BY <2>1, <3>1, PostedSame
  <2>2. CASE ~(p \in tree \/ Parent[p] \notin tree)
    <3>1. /\ tree' = tree \cup {p} /\ D!Tell(d, p, "DIR+")
          /\ listing' = [listing EXCEPT ![p] = {}, ![Parent[p]] = @ \cup {p}]
          /\ listing \in [Dir -> SUBSET D!Path]
      BY <1>0, <1>2, <2>2 DEF D!Create, TreeTypes, D!TypeOK
    <3>2. \A e \in Device : \A q, u : Posted(e, q, u)' <=> Posted(e, q, u) \/ (e # d /\ q = p /\ u = "DIR+")
      BY <1>0, <3>1, PostedMore
    <3>3. \A q \in Dir : q # p => listing[q] \subseteq listing'[q]
      BY <1>4, <3>1
    <3>4. p \in listing'[Parent[p]]
      BY <1>4, <3>1
    <3> QED BY <2>2, <3>1, <3>2, <3>3, <3>4
  <2> QED BY <2>1, <2>2
<1>6. \A e \in Device : \A q :
        /\ HasAdd(e, q)' <=> HasAdd(e, q)
        /\ HasDrop(e, q)' <=> HasDrop(e, q)
        /\ \A b : Before(e, q, b)' <=> Before(e, q, b)
        /\ D!HasRow(e, q)' <=> D!HasRow(e, q)
  <2>1. \A e \in Device : \A q : D!HasRow(e, q)' <=> D!HasRow(e, q)
    BY <1>2 DEF D!HasRow
  <2> QED BY <1>2, <2>1, TrailSame
<1>7. \A e \in Device : \A q :
        /\ Works(e, "create", q)' <=> Works(e, "create", q) /\ e # d
        /\ Works(e, "delete", q)' <=> Works(e, "delete", q)
        /\ Works(e, "store", q)' <=> Works(e, "store", q) \/ (e = d /\ q = p)
        /\ Works(d, "create", q) <=> q = p
        /\ ~Works(d, "store", q)
  <2>1. \A e \in Device : \A l, q : Works(e, l, q)' <=> IF e = d THEN j.at = l /\ j.dir = q ELSE Works(e, l, q)
    BY <1>0, <1>2, WorksNow
  <2>2. \A l, q : Works(d, l, q) <=> l = "create" /\ q = p
    BY <1>1, <1>2 DEF Works
  <2> QED BY <2>1, <2>2
<1> HIDE DEF j
<1>8. \A x \in D!Path : Sure(x)' => Sure(x)
  BY <1>0, <1>2, <1>3, SureSame
<1>9. \A x : Dying(x)' <=> Dying(x)
  BY <1>5, <1>6, <1>7 DEF Dying, Dropping
<1>10. Making(p)
  BY <1>7 DEF Making, Adding
<1>11. ASSUME NEW b, Making(b)' PROVE Making(b)
  <2>1. PICK e \in Device : Adding(e, b)' \/ Works(e, "store", b)' \/ Posted(e, b, "DIR+")'
    BY <1>11 DEF Making
  <2>2. CASE b = p
    BY <1>10, <2>2
  <2>3. CASE b # p
    BY <1>5, <1>6, <1>7, <2>1, <2>3 DEF Making, Adding
  <2> QED BY <2>2, <2>3
<1>12. \A x \in D!Path : Sure(x) /\ p \in D!Below(x) => ~Dying(x)
  BY <1>10 DEF Following, Dead
<1>13. ASSUME Sure(p) PROVE p \in tree'
  <2>1. Parent[p] \in tree
    <3>1. CASE Parent[p] = Root
      BY <1>0, <3>1 DEF Rooted
    <3>2. CASE Parent[p] # Root
      <4>1. Parent[p] \in D!Above[p] /\ Sure(Parent[p]) /\ Parent[p] # p
        BY <1>0, <1>13, <3>2, AboveOwn, SureUp
      <4>2. Ordered(d, p) /\ Works(d, "create", p)
        BY <1>7 DEF Following
      <4> QED BY <4>1, <4>2 DEF Ordered
    <3> QED BY <3>1, <3>2
  <2> QED BY <1>5, <2>1
<1>14. Rooted'
  BY <1>0, <1>2, <1>5 DEF Rooted
<1>15. ASSUME NEW x \in D!Path, Sure(x)'
       PROVE  Lists(x)' /\ Dead(x)' /\ \A e \in Device : Meets(e, x)'
  <2>1. Lists(x) /\ Dead(x) /\ (\A e \in Device : Meets(e, x)) /\ Sure(x)
    BY <1>8, <1>15 DEF Following
  <2>2. Lists(x)'
    <3>1. CASE x = p /\ made
      BY <1>5, <3>1 DEF Lists
    <3>2. CASE ~(x = p /\ made)
      <4> SUFFICES ASSUME x \in tree PROVE Parent[x] \in tree' /\ x \in listing'[Parent[x]]
        BY <1>5, <3>2 DEF Lists
      <4>1. Parent[x] \in tree /\ x \in listing[Parent[x]] /\ Parent[x] \in Dir
        BY <2>1, AboveOwn DEF Lists
      <4>2. made => Parent[x] # p
        BY <1>5, <4>1
      <4> QED BY <1>5, <4>1, <4>2
    <3> QED BY <3>1, <3>2
  <2>3. Dead(x)'
    <3> SUFFICES ASSUME Dying(x)
                 PROVE  /\ \A b \in D!Below(x) : ~Making(b)'
                        /\ \A q \in D!Below(x) : Sure(q)' => q = x \/ Gone(q)'
      BY <1>9 DEF Dead
    <3>1. p \notin D!Below(x)
      BY <1>10, <2>1 DEF Dead
    <3>2. ASSUME NEW q \in D!Below(x), Gone(q) PROVE Gone(q)'
      BY <1>2, <1>5, <1>6, <3>1, <3>2 DEF Gone
    <3> QED BY <1>8, <1>11, <2>1, <3>2, BelowPaths DEF Dead
  <2>4. ASSUME NEW e \in Device PROVE Meets(e, x)'
    <3>1. Meets(e, x) /\ dirs' = dirs
      BY <1>2, <2>1
    <3>2. CASE x # p
      <4>1. x \in tree' <=> x \in tree
        BY <1>5, <3>2
      <4>2. /\ Works(e, "create", x)' <=> Works(e, "create", x)
            /\ Works(e, "store", x)' <=> Works(e, "store", x)
            /\ \A u : Posted(e, x, u)' <=> Posted(e, x, u)
        BY <1>5, <1>7, <3>2
      <4> QED BY <1>6, <1>7, <3>1, <4>1, <4>2 DEF Meets, Adding, Dropping
    <3>3. CASE x = p
      <4>1. p \in tree' /\ ~Dying(p)
        BY <1>4, <1>12, <1>13, <2>1, <3>3
      <4>2. p \in dirs[d]
        BY <1>7, <2>1, <3>3 DEF Meets, Adding
      <4>3. ~Dropping(e, p) /\ ~Posted(e, p, "DIR-") /\ ~Posted(e, p, "DIR-")'
        BY <1>5, <4>1 DEF Dying
      <4>4. p \notin dirs[e] => Posted(e, p, "DIR+")'
        BY <1>5, <3>1, <3>3, <4>1, <4>2, <4>3 DEF Meets
      <4>5. (Adding(e, p)' \/ Works(e, "store", p)') <=> (Adding(e, p) \/ Works(e, "store", p))
        BY <1>6, <1>7 DEF Adding
      <4>6. Posted(e, p, "DIR+") => Posted(e, p, "DIR+")'
        BY <1>5
      <4>7. Dropping(e, p)' <=> Dropping(e, p)
        BY <1>6, <1>7 DEF Dropping
      <4> QED BY <1>6, <3>1, <3>3, <4>1, <4>3, <4>4, <4>5, <4>6, <4>7 DEF Meets
    <3> QED BY <3>2, <3>3
  <2> QED BY <2>2, <2>3, <2>4
<1>16. ASSUME NEW e \in Device, NEW b \in D!Path PROVE Ordered(e, b)'
  <2> SUFFICES ASSUME NEW a \in D!Above[b], Sure(a)'
               PROVE  /\ Posted(e, b, "DIR+")' => a \in tree'
                      /\ a # b /\ Works(e, "create", b)' => a \in tree'
                      /\ a # b => a \in tree' \/ Works(e, "create", a)' \/ Before(e, a, b)'
    BY DEF Ordered
  <2>1. a \in D!Path /\ Sure(a)
    BY <1>8, AboveOwn
  <2>2. Ordered(e, b) /\ Ordered(d, p)
    BY DEF Following
  <2>3. Posted(e, b, "DIR+")' => a \in tree'
    <3>1. CASE Posted(e, b, "DIR+")
      BY <1>5, <2>1, <2>2, <3>1 DEF Ordered
    <3>2. CASE b = p
      BY <1>5, <1>7, <1>13, <2>1, <2>2, <3>2 DEF Ordered
    <3> QED BY <1>5, <3>1, <3>2
  <2>4. a # b /\ Works(e, "create", b)' => a \in tree'
    BY <1>5, <1>7, <2>1, <2>2 DEF Ordered
  <2>5. a # b => a \in tree' \/ Works(e, "create", a)' \/ Before(e, a, b)'
    BY <1>5, <1>6, <1>7, <1>13, <2>1, <2>2 DEF Ordered
  <2> QED BY <2>3, <2>4, <2>5
<1> QED BY <1>2, <1>14, <1>15, <1>16 DEF Following

\* A directory is deleted at the metaserver, if it is there.
LEMMA FollowDeletes ==
    ASSUME Following, AllRun, TreeTypes', NEW d \in Device, D!DeleteDir(d)
    PROVE  Following'
<1> DEFINE j == D!Idle
<1>0. TreeTypes /\ Rooted
  BY DEF Following
<1>1. PICK p \in D!Path : p = doing[d].dir
  BY <1>0 DEF D!DeleteDir, D!At, TreeTypes
<1>2. /\ doing[d].at = "delete" /\ doing' = [doing EXCEPT ![d] = j] /\ D!Delete(d, p)
      /\ UNCHANGED <<dirs, rows, calls, unseen, heard, queue>>
  BY <1>1 DEF D!DeleteDir, D!At, D!Finish, D!events, D!boot
<1>3. doubtful' = doubtful
  BY NoneMissing DEF D!DeleteDir, D!Spoil
<1>4. p \in Dir /\ Parent[p] \in Dir /\ Parent[p] # p /\ p # Root /\ p \in D!Above[p] /\ p \in D!Below(p)
  BY AboveOwn
<1> PICK told \in BOOLEAN : told <=> p \in tree /\ Parent[p] \in tree
  OBVIOUS
<1>5. /\ told <=> p \in tree /\ Parent[p] \in tree
      /\ \A q : q \in tree' <=> q \in tree /\ q # p
      /\ \A q \in Dir : listing[q] \ {p} \subseteq listing'[q]
      /\ \A e \in Device : \A q, u : Posted(e, q, u)' <=> Posted(e, q, u) \/ (told /\ e # d /\ q = p /\ u = "DIR-")
  <2>1. CASE p \notin tree
    <3>1. tree' = tree /\ listing' = listing /\ notices' = notices
      BY <1>2, <2>1 DEF D!Delete, D!server
    <3> QED BY <2>1, <3>1, PostedSame
  <2>2. CASE p \in tree /\ Parent[p] \notin tree
    <3>1. tree' = tree \ {p} /\ listing' = listing /\ notices' = notices
      BY <1>2, <2>2 DEF D!Delete
    <3> QED BY <2>2, <3>1, PostedSame
  <2>3. CASE p \in tree /\ Parent[p] \in tree
    <3>1. /\ tree' = tree \ {p} /\ D!Tell(d, p, "DIR-")
          /\ listing' = [listing EXCEPT ![Parent[p]] = @ \ {p}]
          /\ listing \in [Dir -> SUBSET D!Path]
      BY <1>0, <1>2, <2>3 DEF D!Delete, TreeTypes, D!TypeOK
    <3>2. \A e \in Device : \A q, u : Posted(e, q, u)' <=> Posted(e, q, u) \/ (e # d /\ q = p /\ u = "DIR-")
      BY <1>0, <3>1, PostedMore
    <3>3. \A q \in Dir : listing[q] \ {p} \subseteq listing'[q]
      BY <1>4, <3>1
    <3> QED BY <2>3, <3>1, <3>2, <3>3
  <2> QED BY <2>1, <2>2, <2>3
<1>6. \A e \in Device : \A q :
        /\ HasAdd(e, q)' <=> HasAdd(e, q)
        /\ HasDrop(e, q)' <=> HasDrop(e, q)
        /\ \A b : Before(e, q, b)' <=> Before(e, q, b)
        /\ D!HasRow(e, q)' <=> D!HasRow(e, q)
  <2>1. \A e \in Device : \A q : D!HasRow(e, q)' <=> D!HasRow(e, q)
    BY <1>2 DEF D!HasRow
  <2> QED BY <1>2, <2>1, TrailSame
<1>7. \A e \in Device : \A q :
        /\ Works(e, "create", q)' <=> Works(e, "create", q)
        /\ Works(e, "store", q)' <=> Works(e, "store", q)
        /\ Works(e, "delete", q)' <=> Works(e, "delete", q) /\ e # d
        /\ Works(d, "delete", q) <=> q = p
  <2>1. \A e \in Device : \A l, q : Works(e, l, q)' <=> IF e = d THEN j.at = l /\ j.dir = q ELSE Works(e, l, q)
    BY <1>0, <1>2, WorksNow
  <2>2. j.at = "idle"
    BY DEF D!Idle
  <2>3. \A l, q : Works(d, l, q) <=> l = "delete" /\ q = p
    BY <1>1, <1>2 DEF Works
  <2> HIDE DEF j
  <2> QED BY <2>1, <2>2, <2>3
<1> HIDE DEF j
<1>8. \A x \in D!Path : Sure(x)' => Sure(x)
  BY <1>0, <1>2, <1>3, SureSame
<1>9. Dying(p) /\ Dropping(d, p)
  BY <1>7 DEF Dying, Dropping
<1>10. ASSUME NEW x, Dying(x)' PROVE Dying(x)
  <2>1. PICK e \in Device : Dropping(e, x)' \/ Posted(e, x, "DIR-")'
    BY <1>10 DEF Dying
  <2> QED BY <1>5, <1>6, <1>7, <1>9, <2>1 DEF Dying, Dropping
<1>11. \A b : Making(b)' <=> Making(b)
  BY <1>5, <1>6, <1>7 DEF Making, Adding
<1>12. \A q : Gone(q) => Gone(q)'
  BY <1>2, <1>5, <1>6 DEF Gone
<1>13. Sure(p) => Lists(p) /\ Dead(p)
  BY DEF Following
<1>14. Rooted'
  BY <1>0, <1>2, <1>4, <1>5 DEF Rooted
<1>15. ASSUME NEW x \in D!Path, Sure(x)'
       PROVE  Lists(x)' /\ Dead(x)' /\ \A e \in Device : Meets(e, x)'
  <2>1. Lists(x) /\ Dead(x) /\ (\A e \in Device : Meets(e, x)) /\ Sure(x)
    BY <1>8, <1>15 DEF Following
  <2>2. Lists(x)'
    <3> SUFFICES ASSUME x \in tree, x # p PROVE Parent[x] \in tree' /\ x \in listing'[Parent[x]]
      BY <1>5 DEF Lists
    <3>1. Parent[x] \in tree /\ x \in listing[Parent[x]] /\ Parent[x] \in Dir
      BY <2>1, AboveOwn DEF Lists
    <3>2. ASSUME Parent[x] = p PROVE FALSE
      <4>1. p \in D!Above[x] /\ x \in D!Below(p)
        BY <1>4, <3>2, AboveOwn DEF D!Below
      <4>2. Sure(p)
        BY <1>0, <2>1, <4>1, SureUp
      <4>3. Gone(x)
        BY <1>9, <1>13, <2>1, <4>1, <4>2 DEF Dead
      <4> QED BY <4>3 DEF Gone
    <3> QED BY <1>5, <3>1, <3>2
  <2>3. Dead(x)'
    BY <1>8, <1>10, <1>11, <1>12, <2>1, BelowPaths DEF Dead
  <2>4. ASSUME NEW e \in Device PROVE Meets(e, x)'
    <3>1. Meets(e, x) /\ dirs' = dirs
      BY <1>2, <2>1
    <3>2. CASE x # p
      <4>1. x \in tree' <=> x \in tree
        BY <1>5, <3>2
      <4>2. /\ Works(e, "delete", x)' <=> Works(e, "delete", x)
            /\ \A u : Posted(e, x, u)' <=> Posted(e, x, u)
        BY <1>5, <1>7, <3>2
      <4> QED BY <1>6, <1>7, <3>1, <4>1, <4>2 DEF Meets, Adding, Dropping
    <3>3. CASE x = p
      <4>1. p \notin tree' /\ ~Making(p) /\ ~Making(p)'
        BY <1>4, <1>5, <1>9, <1>11, <1>13, <2>1, <3>3 DEF Dead
      <4>2. /\ ~Adding(e, p) /\ ~Works(e, "store", p) /\ ~Posted(e, p, "DIR+")
            /\ ~Adding(e, p)' /\ ~Works(e, "store", p)' /\ ~Posted(e, p, "DIR+")'
        BY <4>1 DEF Making
      <4>3. p \notin dirs[d]
        BY <1>9, <2>1, <3>3 DEF Meets
      <4>4. p \in tree => told
        BY <1>5, <2>1, <3>3 DEF Lists
      <4>5. p \in dirs[e] => e # d /\ Posted(e, p, "DIR-")'
        BY <1>5, <3>1, <3>3, <4>2, <4>3, <4>4 DEF Meets
      <4>6. D!HasRow(e, p) => HasDrop(e, p) \/ Posted(e, p, "DIR-")'
        BY <1>5, <3>1, <3>3, <4>3, <4>4 DEF Meets
      <4>7. Dropping(e, p)' => Dropping(e, p)
        BY <1>6, <1>7 DEF Dropping
      <4>8. p \in dirs[e] => D!HasRow(e, p)
        BY <3>1, <3>3, <4>2 DEF Meets
      <4> QED BY <1>6, <3>1, <3>3, <4>1, <4>2, <4>5, <4>6, <4>7, <4>8 DEF Meets
    <3> QED BY <3>2, <3>3
  <2> QED BY <2>2, <2>3, <2>4
<1>16. ASSUME NEW e \in Device, NEW b \in D!Path PROVE Ordered(e, b)'
  <2> SUFFICES ASSUME NEW a \in D!Above[b], Sure(a)'
               PROVE  /\ Posted(e, b, "DIR+")' => a \in tree'
                      /\ a # b /\ Works(e, "create", b)' => a \in tree'
                      /\ a # b => a \in tree' \/ Works(e, "create", a)' \/ Before(e, a, b)'
    BY DEF Ordered
  <2>1. a \in D!Path /\ Sure(a)
    BY <1>8, AboveOwn
  <2>2. Ordered(e, b)
    BY DEF Following
  <2>3. Posted(e, b, "DIR+")' => Posted(e, b, "DIR+")
    BY <1>5
  <2>4. CASE a # p
    BY <1>5, <1>6, <1>7, <2>1, <2>2, <2>3, <2>4 DEF Ordered
  <2>5. CASE a = p
    <3>1. ~Making(b)
      BY <1>9, <1>13, <2>1, <2>5 DEF Dead, D!Below
    <3>2. ~HasAdd(e, b) /\ ~Works(e, "create", b) /\ ~Posted(e, b, "DIR+")
      BY <3>1 DEF Making, Adding
    <3>3. Before(e, a, b)
      BY <3>2, LeadsNone DEF HasAdd, Before
    <3> QED BY <1>6, <1>7, <2>3, <3>2, <3>3
  <2> QED BY <2>4, <2>5
<1> QED BY <1>2, <1>14, <1>15, <1>16 DEF Following

-----------------------------------------------------------------------------
(* Notices. *)

\* A directory is made that was announced.
LEMMA FollowMade ==
    ASSUME Following, TreeTypes', NEW d \in Device, NEW n \in D!BagToSet(notices), n.to = d, n.type = "DIR+",
           notices' = D!(-)(notices, D!SetToBag({n})), D!MakeDirs(d, n.dir),
           IF D!HasRow(d, n.dir) THEN UNCHANGED rows
           ELSE D!SetRows(d, D!Listed([rows[d] EXCEPT ![n.dir] = {}], n.dir)),
           UNCHANGED <<tree, listing, doing, calls, unseen, doubtful, queue>>
    PROVE  Following'
<1>0. TreeTypes /\ Rooted
  BY DEF Following
<1>1. PICK p \in D!Path : p = n.dir
  BY <1>0, PostedLess
<1>2. /\ Posted(d, p, "DIR+")
      /\ \A e \in Device : \A q, u :
           /\ Posted(e, q, u)' => Posted(e, q, u)
           /\ Posted(e, q, u) => Posted(e, q, u)' \/ (e = d /\ q = p /\ u = "DIR+")
  BY <1>0, <1>1, PostedLess
<1> DEFINE missing == D!Above[p] \ dirs[d]
           first == {q \in missing : Parent[q] \in dirs[d] /\ D!Reported(d, q)}
           t == D!Signals("create", D!SetToSeq(first))
<1>3. /\ dirs' = [dirs EXCEPT ![d] = @ \cup missing]
      /\ heard' = [heard EXCEPT ![d] = @ \o t]
      /\ first \in SUBSET D!Path /\ first \in SUBSET D!Above[p]
  BY <1>1, AboveOwn DEF D!MakeDirs, D!Hears
<1>4. PICK made \in SUBSET D!Above[p] : made = first
  BY <1>3
<1>5. \A e \in Device : \A q : q \in dirs'[e] <=> q \in dirs[e] \/ (e = d /\ q \in D!Above[p])
  BY <1>0, <1>3 DEF TreeTypes, D!TypeOK
<1>6. t \in Seq(D!Signal) /\ ToSet(t) = {Add(q) : q \in made}
  <2> HIDE DEF missing, first
  <2>2. D!SetToSeq(first) \in Seq(first) /\ ToSet(D!SetToSeq(first)) = first
    BY <1>3, FewPaths, SomeOrder
  <2>3. D!SetToSeq(first) \in Seq(D!Path)
    BY <1>3, <2>2
  <2>4. ToSet(t) = {[mask |-> "create", dir |-> q] : q \in first} /\ t \in Seq(D!Signal)
    BY <2>2, <2>3, SignalsOf
  <2> QED BY <1>4, <2>4 DEF Add
<1> HIDE DEF missing, first, t
<1>7. \A e \in Device : \A q :
        /\ HasAdd(e, q)' <=> HasAdd(e, q) \/ (e = d /\ q \in made)
        /\ HasDrop(e, q)' <=> HasDrop(e, q)
        /\ \A b : Before(e, q, b) /\ (e = d => b \notin made) => Before(e, q, b)'
  <2>1. \A e \in Device : \A q :
          /\ HasAdd(e, q)' <=> HasAdd(e, q) \/ (e = d /\ Add(q) \in ToSet(t))
          /\ HasDrop(e, q)' <=> HasDrop(e, q) \/ (e = d /\ Drop(q) \cap ToSet(t) # {})
          /\ \A b : Before(e, q, b) /\ (e = d /\ Add(b) \in ToSet(t) => HasAdd(e, q)) => Before(e, q, b)'
    BY <1>0, <1>3, <1>6, TrailMore
  <2>2. \A q : (Add(q) \in ToSet(t) <=> q \in made) /\ Drop(q) \cap ToSet(t) = {}
    <3>1. \A q : Add(q).dir = q /\ Add(q).mask = "create" /\ \A s \in Drop(q) : s.mask # "create"
      BY DEF Add, Drop
    <3> QED BY <1>6, <3>1
  <2> QED BY <2>1, <2>2
<1>8. \A e \in Device, q \in D!Path : D!HasRow(e, q)' <=> D!HasRow(e, q) \/ (e = d /\ q = p)
  <2>1. rows \in [Device -> Table] /\ D!Path \subseteq Dir /\ Parent[p] \in Dir /\ p \in Dir /\ p \in D!Path
    BY <1>0, AboveOwn DEF TreeTypes, D!TypeOK, Table, D!Path
  <2>2. CASE D!HasRow(d, p)
    BY <1>1, <2>2 DEF D!HasRow
  <2>3. CASE ~D!HasRow(d, p)
    <3> DEFINE w == [rows[d] EXCEPT ![p] = {}]
               u == D!Listed(w, p)
    <3>1. rows' = [rows EXCEPT ![d] = u]
      BY <1>1, <2>3 DEF D!SetRows
    <3>2. w \in Table /\ \A q \in Dir : w[q] = IF q = p THEN {} ELSE rows[d][q]
      BY <2>1 DEF Table
    <3>3. \A q \in Dir : w[q] = None <=> q # p /\ rows[d][q] = None
      BY <3>2, RowAssumption
    <3>4. \A q \in Dir : u[q] = None <=> w[q] = None
      <4> HIDE DEF w
      <4>1. w[Parent[p]] # None => w[Parent[p]] \cup {p} \in SUBSET Dir
        BY <2>1, <3>2 DEF Table
      <4>2. w[Parent[p]] # None => w[Parent[p]] \cup {p} # None
        BY <4>1, RowAssumption
      <4> QED BY <2>1, <3>2, <4>2 DEF D!Listed, Table
    <3> HIDE DEF w, u
    <3>5. \A e \in Device, q \in Dir : rows'[e][q] = IF e = d THEN u[q] ELSE rows[e][q]
      BY <2>1, <3>1
    <3> QED BY <2>1, <3>3, <3>4, <3>5 DEF D!HasRow
  <2> QED BY <2>2, <2>3
<1>9. \A e \in Device : \A l, q : Works(e, l, q)' <=> Works(e, l, q)
  BY WorksSame
<1>10. \A x \in D!Path : Sure(x)' => Sure(x)
  BY <1>0, SureSame
<1>11. \A x : Dying(x)' <=> Dying(x)
  BY <1>2, <1>7, <1>9 DEF Dying, Dropping
<1>12. ASSUME NEW b, Making(b)', b \notin made PROVE Making(b)
  <2>1. PICK e \in Device : Adding(e, b)' \/ Works(e, "store", b)' \/ Posted(e, b, "DIR+")'
    BY <1>12 DEF Making
  <2> QED BY <1>2, <1>7, <1>9, <1>12, <2>1 DEF Making, Adding
<1>13. Making(p)
  BY <1>2 DEF Making
<1>14. ASSUME NEW a \in D!Above[p], Sure(a) PROVE a \in tree /\ ~Dying(a)
  <2>1. a \in D!Path /\ p \in D!Below(a)
    BY AboveOwn DEF D!Below
  <2>2. Dead(a) /\ Ordered(d, p)
    BY <1>14, <2>1 DEF Following
  <2> QED BY <1>2, <1>13, <1>14, <2>1, <2>2 DEF Dead, Ordered
<1>15. Rooted'
  <2> SUFFICES ASSUME NEW e \in Device
               PROVE  Root \in dirs'[e] /\ \A q \in D!Path : q \in dirs'[e] => Parent[q] \in dirs'[e]
    BY <1>0 DEF Rooted
  <2>1. Root \in dirs'[e]
    BY <1>0, <1>5 DEF Rooted
  <2>2. ASSUME NEW q \in D!Path, q \in dirs'[e] PROVE Parent[q] \in dirs'[e]
    <3>1. CASE q \in dirs[e]
      BY <1>0, <1>5, <3>1 DEF Rooted
    <3>2. CASE e = d /\ q \in D!Above[p]
      <4>1. Parent[q] = Root \/ Parent[q] \in D!Above[p]
        BY <3>2, AboveOwn, AboveAll
      <4> QED BY <1>5, <2>1, <3>2, <4>1
    <3> QED BY <1>5, <2>2, <3>1, <3>2
  <2> QED BY <2>1, <2>2
<1>16. ASSUME NEW x \in D!Path, Sure(x)'
       PROVE  Lists(x)' /\ Dead(x)' /\ \A e \in Device : Meets(e, x)'
  <2>1. Lists(x) /\ Dead(x) /\ (\A e \in Device : Meets(e, x)) /\ Sure(x)
    BY <1>10, <1>16 DEF Following
  <2>2. Lists(x)'
    BY <2>1 DEF Lists
  <2>3. Dead(x)'
    <3> SUFFICES ASSUME Dying(x)
                 PROVE  /\ \A b \in D!Below(x) : ~Making(b)'
                        /\ \A q \in D!Below(x) : Sure(q)' => q = x \/ Gone(q)'
      BY <1>11 DEF Dead
    <3>1. p \notin D!Below(x)
      BY <1>13, <2>1 DEF Dead
    <3>2. \A q \in D!Below(x) : q \notin D!Above[p]
      BY <3>1, AboveAll DEF D!Below
    <3>3. ASSUME NEW q \in D!Below(x), Gone(q) PROVE Gone(q)'
      <4>1. q # p /\ q \in D!Path
        BY <3>1, BelowPaths
      <4> QED BY <1>5, <1>8, <3>2, <3>3, <4>1 DEF Gone
    <3>4. \A b \in D!Below(x) : ~Making(b)'
      BY <1>12, <2>1, <3>2 DEF Dead
    <3> QED BY <1>10, <2>1, <3>3, <3>4, BelowPaths DEF Dead
  <2>4. ASSUME NEW e \in Device PROVE Meets(e, x)'
    <3>1. Meets(e, x) /\ tree' = tree
      BY <2>1
    <3>2. CASE e # d
      <4>1. /\ x \in dirs'[e] <=> x \in dirs[e]
            /\ HasAdd(e, x)' <=> HasAdd(e, x)
            /\ D!HasRow(e, x)' <=> D!HasRow(e, x)
            /\ \A u : Posted(e, x, u)' <=> Posted(e, x, u)
        BY <1>2, <1>5, <1>7, <1>8, <3>2
      <4> QED BY <1>7, <1>9, <3>1, <4>1 DEF Meets, Adding, Dropping
    <3>3. CASE e = d /\ x \notin D!Above[p]
      <4>1. x # p /\ x \notin made
        BY <3>3, AboveOwn
      <4>2. /\ x \in dirs'[e] <=> x \in dirs[e]
            /\ HasAdd(e, x)' <=> HasAdd(e, x)
            /\ D!HasRow(e, x)' <=> D!HasRow(e, x)
            /\ \A u : Posted(e, x, u)' <=> Posted(e, x, u)
        BY <1>2, <1>5, <1>7, <1>8, <3>3, <4>1
      <4> QED BY <1>7, <1>9, <3>1, <4>2 DEF Meets, Adding, Dropping
    <3>4. CASE e = d /\ x \in D!Above[p]
      <4>1. x \in tree /\ ~Dying(x) /\ x \in dirs'[e]
        BY <1>5, <1>14, <2>1, <3>4
      <4>2. ~Dropping(e, x) /\ ~Dropping(e, x)' /\ ~Posted(e, x, "DIR-") /\ ~Posted(e, x, "DIR-")'
        BY <1>11, <4>1 DEF Dying
      <4>3. x \notin dirs[e] => Posted(e, x, "DIR+")
        BY <3>1, <4>1, <4>2 DEF Meets
      <4>4. ~D!HasRow(e, x)' => ~D!HasRow(e, x) /\ x # p
        BY <1>8, <3>4
      <4>5. x # p /\ Posted(e, x, "DIR+") => Posted(e, x, "DIR+")'
        BY <1>2
      <4>6. ~D!HasRow(e, x)' => Adding(e, x) \/ Works(e, "store", x) \/ Posted(e, x, "DIR+")
        BY <3>1, <4>3, <4>4 DEF Meets
      <4>7. Adding(e, x) => Adding(e, x)'
        BY <1>7, <1>9 DEF Adding
      <4>8. ~D!HasRow(e, x)' => Adding(e, x)' \/ Works(e, "store", x)' \/ Posted(e, x, "DIR+")'
        BY <1>9, <4>4, <4>5, <4>6, <4>7
      <4> QED BY <3>1, <4>1, <4>2, <4>8 DEF Meets
    <3> QED BY <3>2, <3>3, <3>4
  <2> QED BY <2>2, <2>3, <2>4
<1>17. ASSUME NEW e \in Device, NEW b \in D!Path PROVE Ordered(e, b)'
  <2> SUFFICES ASSUME NEW a \in D!Above[b], Sure(a)'
               PROVE  /\ Posted(e, b, "DIR+")' => a \in tree
                      /\ a # b /\ Works(e, "create", b)' => a \in tree
                      /\ a # b => a \in tree \/ Works(e, "create", a)' \/ Before(e, a, b)'
    BY DEF Ordered
  <2>1. a \in D!Path /\ Sure(a)
    BY <1>10, AboveOwn
  <2>2. Ordered(e, b)
    BY DEF Following
  <2>3. b \in made => a \in tree
    BY <1>14, <2>1, AboveAll
  <2> QED BY <1>2, <1>7, <1>9, <2>1, <2>2, <2>3 DEF Ordered
<1> QED BY <1>15, <1>16, <1>17 DEF Following

\* A directory is removed whose removal was announced.
LEMMA FollowErased ==
    ASSUME Following, TreeTypes', NEW d \in Device, NEW n \in D!BagToSet(notices), n.to = d, n.type = "DIR-",
           notices' = D!(-)(notices, D!SetToBag({n})), D!Erase(d, n.dir), D!Forget(d, n.dir),
           UNCHANGED <<tree, listing, doing, calls, unseen, doubtful, queue>>
    PROVE  Following'
<1>0. TreeTypes /\ Rooted
  BY DEF Following
<1>1. PICK p \in D!Path : p = n.dir
  BY <1>0, PostedLess
<1>2. /\ Posted(d, p, "DIR-")
      /\ \A e \in Device : \A q, u :
           /\ Posted(e, q, u)' => Posted(e, q, u)
           /\ Posted(e, q, u) => Posted(e, q, u)' \/ (e = d /\ q = p /\ u = "DIR-")
  BY <1>0, <1>1, PostedLess
<1>3. PICK told \in SUBSET D!Path : told = {q \in D!Below(p) \cap dirs[d] : D!Reported(d, q)}
  BY BelowPaths
<1>4. PICK l \in D!Upwards(told) :
        D!Hears(d, "delete", l) /\ dirs' = [dirs EXCEPT ![d] = @ \ (D!Below(p) \cap dirs[d])]
  BY <1>1, <1>3 DEF D!Erase
<1>5. \A e \in Device : \A q : q \in dirs'[e] <=> q \in dirs[e] /\ ~(e = d /\ q \in D!Below(p))
  BY <1>0, <1>4 DEF TreeTypes, D!TypeOK
<1> DEFINE t == D!Signals("delete", l)
<1>6. t \in Seq(D!Signal) /\ ToSet(t) = {[mask |-> "delete", dir |-> q] : q \in told}
  <2>1. l \in Seq(told) /\ ToSet(l) = told
    <3>1. l \in D!SetToSeqs(told)
      BY <1>4 DEF D!Upwards
    <3> QED BY <3>1, FewPaths, EachOrder
  <2>2. l \in Seq(D!Path)
    BY <2>1
  <2> QED BY <2>1, <2>2, SignalsOf
<1>7. heard' = [heard EXCEPT ![d] = @ \o t]
  BY <1>4 DEF D!Hears
<1> HIDE DEF t
<1>8. \A e \in Device : \A q :
        /\ HasAdd(e, q)' <=> HasAdd(e, q)
        /\ HasDrop(e, q)' <=> HasDrop(e, q) \/ (e = d /\ q \in told)
        /\ \A b : Before(e, q, b) => Before(e, q, b)'
  <2>1. \A e \in Device : \A q :
          /\ HasAdd(e, q)' <=> HasAdd(e, q) \/ (e = d /\ Add(q) \in ToSet(t))
          /\ HasDrop(e, q)' <=> HasDrop(e, q) \/ (e = d /\ Drop(q) \cap ToSet(t) # {})
          /\ \A b : Before(e, q, b) /\ (e = d /\ Add(b) \in ToSet(t) => HasAdd(e, q)) => Before(e, q, b)'
    BY <1>0, <1>6, <1>7, TrailMore
  <2>2. ASSUME NEW q PROVE Add(q) \notin ToSet(t) /\ (Drop(q) \cap ToSet(t) # {} <=> q \in told)
    <3>1. Add(q).mask = "create" /\ \A s \in ToSet(t) : s.mask = "delete" /\ s.dir \in told
      BY <1>6 DEF Add
    <3>2. \A s \in Drop(q) : s.dir = q
      BY DEF Drop
    <3>3. [mask |-> "delete", dir |-> q] \in Drop(q)
      BY DEF Drop
    <3>4. q \in told => [mask |-> "delete", dir |-> q] \in ToSet(t)
      BY <1>6
    <3> QED BY <3>1, <3>2, <3>3, <3>4
  <2> QED BY <2>1, <2>2
<1>9. /\ \A e \in Device, q \in D!Path :
                /\ D!HasRow(e, q)' => D!HasRow(e, q)
                /\ D!HasRow(e, q) => D!HasRow(e, q)' \/ (e = d /\ q \in D!Below(p))
      /\ ~D!HasRow(d, p)'
  BY <1>0, <1>1, RowsLess
<1>10. \A e \in Device : \A l2, q : Works(e, l2, q)' <=> Works(e, l2, q)
  BY WorksSame
<1>11. \A x \in D!Path : Sure(x)' => Sure(x)
  BY <1>0, SureSame
<1>12. Dying(p)
  BY <1>2 DEF Dying
<1>13. ASSUME NEW b, Making(b)' PROVE Making(b)
  <2>1. PICK e \in Device : Adding(e, b)' \/ Works(e, "store", b)' \/ Posted(e, b, "DIR+")'
    BY <1>13 DEF Making
  <2> QED BY <1>2, <1>8, <1>10, <2>1 DEF Making, Adding
<1>14. ASSUME NEW x \in D!Below(p), Sure(x)
       PROVE  x = p \/ Gone(x)
  <2>1. Sure(p)
    BY <1>0, <1>14, BelowPaths, SureUp DEF D!Below
  <2> QED BY <1>12, <1>14, <2>1 DEF Following, Dead
<1>15. ASSUME NEW x \in D!Path, Sure(x), Dying(x)' PROVE Dying(x)
  <2>1. PICK e \in Device : Dropping(e, x)' \/ Posted(e, x, "DIR-")'
    BY <1>15 DEF Dying
  <2>2. x \in told => x = p
    BY <1>3, <1>14, <1>15 DEF Gone
  <2> QED BY <1>2, <1>8, <1>10, <1>12, <2>1, <2>2 DEF Dying, Dropping
<1>16. \A q \in D!Path : Gone(q) => Gone(q)'
  BY <1>5, <1>9 DEF Gone
<1>17. Rooted'
  <2> SUFFICES ASSUME NEW e \in Device
               PROVE  Root \in dirs'[e] /\ \A q \in D!Path : q \in dirs'[e] => Parent[q] \in dirs'[e]
    BY <1>0 DEF Rooted
  <2>1. Root \in dirs'[e]
    BY <1>0, <1>5 DEF Rooted, D!Below, D!Path
  <2>2. ASSUME NEW q \in D!Path, q \in dirs'[e] PROVE Parent[q] \in dirs'[e]
    <3>1. Parent[q] \in dirs[e]
      BY <1>0, <1>5, <2>2 DEF Rooted
    <3>2. Parent[q] \in D!Below(p) => q \in D!Below(p)
      BY AboveOwn DEF D!Below
    <3> QED BY <1>5, <2>2, <3>1, <3>2
  <2> QED BY <2>1, <2>2
<1>18. ASSUME NEW x \in D!Path, Sure(x)'
       PROVE  Lists(x)' /\ Dead(x)' /\ \A e \in Device : Meets(e, x)'
  <2>1. Lists(x) /\ Dead(x) /\ (\A e \in Device : Meets(e, x)) /\ Sure(x)
    BY <1>11, <1>18 DEF Following
  <2>2. Lists(x)'
    BY <2>1 DEF Lists
  <2>3. Dead(x)'
    BY <1>11, <1>13, <1>15, <1>16, <2>1, BelowPaths DEF Dead
  <2>4. ASSUME NEW e \in Device PROVE Meets(e, x)'
    <3>1. Meets(e, x) /\ tree' = tree
      BY <2>1
    <3>2. CASE ~(e = d /\ x \in D!Below(p))
      <4>1. ~(e = d /\ x = p) /\ ~(e = d /\ x \in told)
        BY <1>3, <3>2, AboveOwn
      <4>2. /\ x \in dirs'[e] <=> x \in dirs[e]
            /\ HasDrop(e, x)' <=> HasDrop(e, x)
            /\ D!HasRow(e, x)' <=> D!HasRow(e, x)
            /\ \A u : Posted(e, x, u)' <=> Posted(e, x, u)
        BY <1>2, <1>5, <1>8, <1>9, <3>2, <4>1
      <4> QED BY <1>8, <1>10, <3>1, <4>2 DEF Meets, Adding, Dropping
    <3>3. CASE e = d /\ x \in D!Below(p) /\ x # p
      <4>1. Gone(x) /\ Gone(x)'
        BY <1>14, <1>16, <2>1, <3>3
      <4>2. /\ x \notin dirs[e] /\ x \notin dirs'[e] /\ x \notin tree
            /\ ~D!HasRow(e, x) /\ ~D!HasRow(e, x)'
        BY <3>1, <4>1 DEF Gone
      <4>3. \A u : Posted(e, x, u)' <=> Posted(e, x, u)
        BY <1>2, <3>3
      <4> QED BY <1>8, <1>10, <3>1, <4>2, <4>3 DEF Meets, Adding, Dropping
    <3>4. CASE e = d /\ x = p
      <4>1. p \notin tree /\ p \notin dirs'[d] /\ ~Making(p)
        BY <1>2, <1>5, <1>12, <2>1, <3>1, <3>4, AboveOwn DEF Meets, Dead
      <4>2. ~Adding(d, p)' /\ ~Works(d, "store", p)'
        BY <1>8, <1>10, <4>1 DEF Making, Adding
      <4> QED BY <1>9, <3>1, <3>4, <4>1, <4>2 DEF Meets
    <3> QED BY <3>2, <3>3, <3>4
  <2> QED BY <2>2, <2>3, <2>4
<1>19. ASSUME NEW e \in Device, NEW b \in D!Path PROVE Ordered(e, b)'
  <2>1. Ordered(e, b) /\ D!Above[b] \subseteq D!Path
    BY AboveOwn DEF Following
  <2> QED BY <1>2, <1>8, <1>10, <1>11, <2>1 DEF Ordered
<1> QED BY <1>17, <1>18, <1>19 DEF Following

\* A notice is followed.
LEMMA FollowRemote ==
    ASSUME Following, TreeTypes', NEW d \in Device, D!RemoteEvent(d)
    PROVE  Following'
<1>1. PICK n \in D!BagToSet(notices) :
        /\ n.to = d /\ notices' = D!(-)(notices, D!SetToBag({n}))
        /\ \/ /\ n.type = "DIR+" /\ D!MakeDirs(d, n.dir)
              /\ IF D!HasRow(d, n.dir) THEN UNCHANGED rows
                 ELSE D!SetRows(d, D!Listed([rows[d] EXCEPT ![n.dir] = {}], n.dir))
           \/ n.type = "DIR-" /\ D!Erase(d, n.dir) /\ D!Forget(d, n.dir)
        /\ UNCHANGED <<tree, listing, doing, calls, unseen, doubtful, queue>>
  BY DEF D!RemoteEvent, D!boot, D!history
<1> QED BY <1>1, FollowMade, FollowErased

-----------------------------------------------------------------------------
(* All steps. *)

\* Nothing is heard, asked or told where the events, the jobs and the notices
\* are empty.
LEMMA NothingOn ==
    ASSUME notices = D!EmptyBag,
           \A d \in Device : heard[d] = <<>> /\ queue[d] = <<>> /\ doing[d] = D!Idle
    PROVE  /\ \A d \in Device : \A p : ~Adding(d, p) /\ ~HasDrop(d, p) /\ ~Dropping(d, p) /\ ~Works(d, "store", p)
                                     /\ ~Works(d, "create", p)
           /\ \A d \in Device : \A p, u : ~Posted(d, p, u)
           /\ \A d \in Device : \A a, b : Before(d, a, b)
           /\ \A p : ~Dying(p)
<1>1. D!BagToSet(notices) = {}
  BY DEF D!EmptyBag, D!SetToBag, D!BagToSet
<1>2. \A d \in Device : \A p, u : ~Posted(d, p, u)
  BY <1>1 DEF Posted
<1>3. \A d \in Device : ToSet(Trail(d)) = {} /\ \A l \in {"create", "store", "delete"} : \A p : ~Works(d, l, p)
  <2> SUFFICES ASSUME NEW d \in Device
               PROVE  ToSet(Trail(d)) = {} /\ \A l \in {"create", "store", "delete"} : \A p : ~Works(d, l, p)
    OBVIOUS
  <2>1. Trail(d) = <<>> \o <<>> /\ doing[d].at = "idle"
    BY DEF Trail, D!Idle
  <2>2. <<>> \o <<>> = <<>> /\ ToSet(<<>>) = {}
    BY DEF ToSet
  <2>3. ToSet(Trail(d)) = {}
    BY <2>1, <2>2
  <2> QED BY <2>1, <2>3 DEF Works
<1>4. \A d \in Device : \A p : ~HasAdd(d, p) /\ ~HasDrop(d, p)
  BY <1>3 DEF HasAdd, HasDrop
<1>5. \A d \in Device : \A a, b : Before(d, a, b)
  BY <1>4, LeadsNone DEF HasAdd, Before
<1> QED BY <1>2, <1>3, <1>4, <1>5 DEF Adding, Dropping, Dying

\* At the beginning all have the same tree.
LEMMA FollowStart == ASSUME D!Init PROVE Following
<1>1. TreeTypes
  BY TypesStart
<1>2. PICK S \in D!Trees :
         /\ tree = S
         /\ listing = [p \in Dir |-> D!ChildrenIn(S, p)]
         /\ dirs = [d \in Device |-> S]
         /\ rows = [d \in Device |-> [p \in Dir |-> IF p \in S THEN D!ChildrenIn(S, p) ELSE None]]
  BY DEF D!Init
<1>3. /\ notices = D!EmptyBag /\ \A d \in Device : calls[d] = <<>>
      /\ \A d \in Device : heard[d] = <<>> /\ queue[d] = <<>> /\ doing[d] = D!Idle
  BY DEF D!Init
<1>4. S \in SUBSET Dir /\ Root \in S /\ \A p \in D!Path : p \in S => Parent[p] \in S
  BY DEF D!Trees, D!Path
<1>5. Rooted
  BY <1>2, <1>4 DEF Rooted
<1>6. \A d \in Device, p \in D!Path : D!HasRow(d, p) <=> p \in S
  <2>1. \A p : D!ChildrenIn(S, p) # None
    BY <1>4, RowAssumption DEF D!ChildrenIn
  <2>2. \A d \in Device, p \in D!Path : rows[d][p] = IF p \in S THEN D!ChildrenIn(S, p) ELSE None
    BY <1>2 DEF D!Path
  <2> QED BY <2>1, <2>2 DEF D!HasRow
<1>7. \A p \in D!Path : Lists(p)
  <2> SUFFICES ASSUME NEW p \in D!Path, p \in S PROVE Parent[p] \in S /\ p \in listing[Parent[p]]
    BY <1>2 DEF Lists
  <2>1. Parent[p] \in S /\ p \in D!ChildrenIn(S, Parent[p])
    BY <1>4 DEF D!ChildrenIn, D!Path
  <2> QED BY <1>2, <1>4, <2>1
<1>8. \A p \in D!Path : Dead(p)
  BY <1>3, NothingOn DEF Dead
<1>9. \A p \in D!Path, d \in Device : Meets(d, p)
  BY <1>2, <1>3, <1>6, NothingOn DEF Meets
<1>10. \A d \in Device, b \in D!Path : Ordered(d, b)
  BY <1>3, NothingOn DEF Ordered
<1> QED BY <1>1, <1>3, <1>5, <1>7, <1>8, <1>9, <1>10 DEF Following

\* Every step of devices that run keeps what is on its way in order.
LEMMA FollowStep == ASSUME Following, AllRun, AllRun', [D!Next]_directories PROVE Following'
<1>0. TreeTypes /\ TreeTypes'
  BY TypesStep DEF Following
<1>1. CASE UNCHANGED directories
  <2>1. UNCHANGED <<tree, listing, dirs, rows, notices, doing, calls, unseen, doubtful, heard, queue>>
    BY <1>1 DEF directories
  <2>2. \A e \in Device : \A q :
          /\ HasAdd(e, q)' <=> HasAdd(e, q)
          /\ HasDrop(e, q)' <=> HasDrop(e, q)
          /\ \A b : Before(e, q, b)' <=> Before(e, q, b)
    BY <2>1, TrailSame
  <2> QED BY <1>0, <2>1, <2>2, FollowSame
<1>2. CASE D!LoseNotice
  BY <1>0, <1>2, FollowLost
<1>3. ASSUME NEW d \in Device, D!User(d) PROVE Following'
  BY <1>0, <1>3, FollowMakes, FollowRemoves DEF D!User
<1>4. ASSUME NEW d \in Device, D!Watch(d) \/ D!Drain(d) \/ D!RemoteEvent(d) \/ D!RequestFails(d) PROVE Following'
  BY <1>0, <1>4, FollowWatch, FollowDrain, FollowRemote, FollowFails
<1>5. ASSUME NEW d \in Device, D!Local(d) PROVE Following'
  BY <1>0, <1>5, FollowLocal, FollowCreates, FollowStores, FollowDeletes, FollowDrain DEF D!Local
<1>6. ASSUME NEW d \in Device, D!Booting(d) PROVE FALSE
  <2>1. stage[d] = "on" /\ calls[d] = <<>>
    BY DEF AllRun, Following
  <2> QED BY <1>6, <2>1 DEF D!Booting, D!Boot, D!Check, D!FetchDir, D!FetchStores, D!PullEnds, D!Compare,
                            D!SendDir, D!PushEnds, D!Calling
<1>7. ASSUME NEW d \in Device, D!Crash(d) PROVE FALSE
  <2>1. stage' = [stage EXCEPT ![d] = "off"] /\ d \in DOMAIN stage /\ stage'[d] = "on"
    BY <1>0, <1>7 DEF D!Crash, AllRun, TreeTypes, D!TypeOK
  <2> QED BY <2>1
<1> QED BY <1>1, <1>2, <1>3, <1>4, <1>5, <1>6, <1>7 DEF D!Next

\* When nothing is on its way what is sure is the same everywhere.
LEMMA FollowRests ==
    ASSUME Following
    PROVE  TreesAgree /\ RowsFit
<1> SUFFICES ASSUME D!Quiet, NEW p \in D!Path, NEW d \in Device, D!Clean(p)
             PROVE  (p \in dirs[d] <=> p \in D!Reachable) /\ (p \in dirs[d] <=> D!HasRow(d, p))
  BY DEF TreesAgree, RowsFit, D!TreesAgree, D!RowsFit
<1>1. TreeTypes /\ Rooted /\ Sure(p) /\ p \in D!Above[p]
  BY AboveOwn DEF Following, Sure
<1>2. ASSUME NEW q \in D!Path, Sure(q)
      PROVE  Lists(q) /\ (q \in dirs[d] <=> q \in tree) /\ (D!HasRow(d, q) <=> q \in dirs[d])
  <2>1. Lists(q) /\ Meets(d, q)
    BY <1>2 DEF Following
  <2>2. ~Adding(d, q) /\ ~HasDrop(d, q) /\ ~Dropping(d, q) /\ ~Works(d, "store", q) /\ \A u : ~Posted(d, q, u)
    BY NothingOn DEF D!Quiet
  <2> QED BY <2>1, <2>2 DEF Meets
<1>3. ASSUME p \in dirs[d] PROVE p \in D!Reachable
  <2>1. D!Above[p] \subseteq dirs[d]
    BY <1>1, <1>3, TreeAbove DEF Rooted
  <2>2. ASSUME NEW q \in D!Above[p] PROVE Parent[q] \in tree /\ q \in listing[Parent[q]]
    <3>1. q \in D!Path /\ Sure(q)
      BY <1>1, SureUp
    <3> QED BY <1>2, <2>1, <3>1 DEF Lists
  <2>3. p \in tree
    BY <1>1, <1>2, <1>3
  <2> QED BY <2>2, <2>3 DEF D!Reachable
<1>4. p \in D!Reachable => p \in dirs[d]
  BY <1>1, <1>2 DEF D!Reachable
<1> QED BY <1>1, <1>2, <1>3, <1>4

\* As long as no device stops, what is on its way leads all devices to the tree
\* of the servers.
LEMMA FollowAlways == BothSpec /\ []AllRun => []Following
<1>1. BothInit => Following
  BY FollowStart DEF BothInit
<1>2. Following /\ AllRun /\ AllRun' /\ [BothNext]_all => Following'
  <2> SUFFICES ASSUME Following, AllRun, AllRun', [BothNext]_all
               PROVE  Following'
    OBVIOUS
  <2>1. [D!Next]_directories
    BY DEF BothNext, DirectoriesNext, all
  <2> QED BY <2>1, FollowStep
<1> QED BY <1>1, <1>2, PTL DEF BothSpec

\* Whatever users do, in whatever order the handlers, the requests and the
\* notices take their turns, and whichever of them are lost: when nothing is
\* left to do every device has the directories the servers list, but for those
\* with a loss that is known.  No device stops.
THEOREM TreesFollow == BothSpec /\ []AllRun => []TreesAgree
<1>1. Following => TreesAgree
  BY FollowRests
<1> QED BY <1>1, FollowAlways, PTL

\* So it is with the rows: there is one for what is there and none for what is
\* not, so that create_directory and DIR+ are right to trust them.
THEOREM RowsFollow == BothSpec /\ []AllRun => []RowsFit
<1>1. Following => RowsFit
  BY FollowRests
<1> QED BY <1>1, FollowAlways, PTL
=============================================================================
