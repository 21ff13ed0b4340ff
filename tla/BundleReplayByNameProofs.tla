---------------------- MODULE BundleReplayByNameProofs ----------------------
(***************************************************************************)
(* Proofs about BundleReplayByName, for any files, page size and limits.   *)
(***************************************************************************)
EXTENDS BundleReplayByName, DataTheorems, TLAPS

LEMMA StepCases ==
    ASSUME [Next]_vars
    PROVE  \/ \E f \in Files : LoadOpen(f)
           \/ LoadEntry \/ LoadEnd
           \/ \E name \in Names : PrefetchByName(name)
           \/ UNCHANGED vars
BY Zenon DEF Next

Addresses == 0 .. AddrSpace - 1

LEMMA ZeroIsAnAddress == 0 \in Addresses
BY ByNameAssumption DEF Addresses

-----------------------------------------------------------------------------
(* load_bundles_json *)

Field == [key : {"function"}, value : Names \cup {Unclosed}, quoted : {TRUE}]
         \cup [key    : {"start_pc", "end_pc", "reachable_size"},
               value  : Addresses \cup {Unreadable},
               quoted : BOOLEAN]

LEMMA FileType == ASSUME TypeOK PROVE file \in Seq(Field)
<1>1. Files \subseteq Seq(Field)
  BY ByNameAssumption, Zenon DEF Field, Addresses
<1>2. <<>> \in Seq(Field)
  OBVIOUS
<1>3. file \in Files \/ file = <<>>
  BY DEF TypeOK
<1> QED BY <1>1, <1>2, <1>3, Zenon

LEMMA FindFieldType ==
    ASSUME TypeOK, NEW key, NEW i \in Nat \ {0}
    PROVE  \/ FindField(key, i) = 0
           \/ FindField(key, i) \in DOMAIN file /\ file[FindField(key, i)].key = key
<1> DEFINE found == {j \in i .. Len(file) : file[j].key = key}
<1>1. Len(file) \in Nat /\ DOMAIN file = 1 .. Len(file)
  BY FileType
<1>2. found \in SUBSET Nat /\ found \subseteq DOMAIN file
  BY <1>1
<1>3. \A j \in found : file[j].key = key
  OBVIOUS
<1>4. FindField(key, i) = IF found = {} THEN 0 ELSE Min(found)
  BY DEF FindField
<1> HIDE DEF found
<1>5. found # {} => Min(found) \in found
  BY <1>2, MinOfNats
<1> QED BY <1>2, <1>3, <1>4, <1>5

\* A number read is an address, also when there is none to read.
LEMMA NumberType ==
    ASSUME TypeOK, NEW key \in {"start_pc", "end_pc"}, NEW i \in Nat \ {0}
    PROVE  Number(key, i) \in Addresses
<1> DEFINE j == FindField(key, i)
<1>1. CASE j = 0 \/ ~file[j].quoted \/ file[j].value = Unreadable
  BY <1>1, ZeroIsAnAddress DEF Number
<1>2. CASE ~(j = 0 \/ ~file[j].quoted \/ file[j].value = Unreadable)
  <2>1. j \in DOMAIN file /\ file[j].key = key
    BY <1>2, FindFieldType
  <2>2. file[j] \in Field
    BY <2>1, FileType
  <2>3. file[j].value \in Addresses \cup {Unreadable}
    BY <2>1, <2>2 DEF Field
  <2> QED BY <1>2, <2>3 DEF Number
<1> QED BY <1>1, <1>2

LEMMA NextFunctionType ==
    ASSUME TypeOK, NextFunction # 0
    PROVE  /\ NextFunction \in 1 .. Len(file)
           /\ file[NextFunction].value \in Names
           /\ Len(bundles) < MAX_BUNDLES
<1> DEFINE i == FindField("function", p)
<1>1. p \in Nat \ {0} /\ Len(file) \in Nat
  BY FileType DEF TypeOK
<1>2. NextFunction = i /\ i # 0 /\ file[i].value # Unclosed /\ ~(Len(bundles) >= MAX_BUNDLES)
  BY DEF NextFunction
<1>3. i \in DOMAIN file /\ file[i].key = "function"
  BY <1>1, <1>2, FindFieldType
<1>4. file[i] \in Field
  BY <1>3, FileType
<1>5. file[i].value \in Names \cup {Unclosed}
  BY <1>3, <1>4 DEF Field
<1>6. Len(bundles) \in Nat
  BY DEF TypeOK
<1> QED BY <1>1, <1>2, <1>3, <1>5, <1>6, FileType, ByNameAssumption

LEMMA LoadEntryType ==
    ASSUME TypeOK, LoadEntry
    PROVE  /\ bundles' \in Seq(Bundle)
           /\ Len(bundles') = Len(bundles) + 1
           /\ Len(bundles') <= MAX_BUNDLES
           /\ p' \in 1 .. Len(file) + 1
<1> DEFINE i == NextFunction
           b == [name |-> file[i].value, start |-> Number("start_pc", i + 1),
                 end |-> Number("end_pc", i + 1)]
<1>1. /\ i \in 1 .. Len(file) /\ file[i].value \in Names
      /\ Len(bundles) < MAX_BUNDLES /\ Len(file) \in Nat
  BY NextFunctionType, FileType DEF LoadEntry
<1>2. i + 1 \in Nat \ {0}
  BY <1>1
<1>3. b \in Bundle
  BY <1>1, <1>2, NumberType DEF Bundle, Addresses
<1>4. bundles' = Append(bundles, b) /\ p' = i + 1
  BY DEF LoadEntry
<1>5. bundles \in Seq(Bundle)
  BY DEF TypeOK
<1> HIDE DEF b, i
<1>6. /\ bundles' \in Seq(Bundle)
      /\ Len(bundles') = Len(bundles) + 1
      /\ Len(bundles) \in Nat
  BY <1>3, <1>4, <1>5
<1> QED BY <1>1, <1>4, <1>6, ByNameAssumption

-----------------------------------------------------------------------------
(* bundle_prefetch_by_name *)

LEMMA FindBundleType ==
    ASSUME TypeOK, NEW name
    PROVE  FindBundle(name) \in 0 .. Len(bundles)
<1> DEFINE found == {i \in DOMAIN bundles : bundles[i].name = name}
<1>1. DOMAIN bundles = 1 .. Len(bundles) /\ Len(bundles) \in Nat
  BY DEF TypeOK
<1>2. found \in SUBSET Nat /\ found \subseteq 1 .. Len(bundles)
  BY <1>1
<1>3. FindBundle(name) = IF found = {} THEN 0 ELSE Min(found)
  BY DEF FindBundle
<1> HIDE DEF found
<1>4. CASE found = {}
  BY <1>1, <1>3, <1>4
<1>5. CASE found # {}
  <2>1. Min(found) \in found
    BY <1>2, <1>5, MinOfNats
  <2>2. FindBundle(name) \in 1 .. Len(bundles)
    BY <1>2, <1>3, <1>5, <2>1, Zenon
  <2> QED BY <1>1, <2>2
<1> QED BY <1>4, <1>5

\* A page begins at or below each of its addresses.
LEMMA PageBelow ==
    ASSUME NEW a \in Nat
    PROVE  /\ (a \div PageSize) * PageSize \in Nat
           /\ (a \div PageSize) * PageSize <= a
<1>1. PageSize \in Nat /\ PageSize > 0
  BY ByNameAssumption
<1>2. a \div PageSize \in Nat
  BY <1>1
<1>3. a = PageSize * (a \div PageSize) + (a % PageSize) /\ a % PageSize \in Nat
  BY <1>1
<1> QED BY <1>1, <1>2, <1>3

LEMMA PagesType == ASSUME NEW b \in Bundle PROVE Pages(b) \in Seq(Addresses)
<1> DEFINE first == (b.start \div PageSize) * PageSize
           total == (b.end - first) \div PageSize + 1
           kept  == IF total > MaxPages THEN MaxPages ELSE total
<1>1. b.start \in Nat /\ b.end \in Nat /\ PageSize \in Nat /\ PageSize > 0
  BY ByNameAssumption DEF Bundle
<1>2. CASE b.end <= b.start
  BY <1>2 DEF Pages
<1>3. CASE ~(b.end <= b.start)
  <2>1. first \in Nat /\ first <= b.start
    BY <1>1, PageBelow
  <2> HIDE DEF first
  <2>4. b.end - first \in Nat
    BY <1>1, <1>3, <2>1
  <2>5. total \in Nat
    BY <1>1, <2>4
  <2> HIDE DEF total
  <2>6. kept \in Nat
    BY <2>5, ByNameAssumption
  <2> HIDE DEF kept
  <2>7. \A n \in 1 .. kept : (first + (n - 1) * PageSize) % AddrSpace \in Addresses
    <3> SUFFICES ASSUME NEW n \in 1 .. kept
                 PROVE  (first + (n - 1) * PageSize) % AddrSpace \in Addresses
      OBVIOUS
    <3>1. (n - 1) * PageSize \in Nat
      BY <1>1, <2>6
    <3>2. first + (n - 1) * PageSize \in Nat
      BY <2>1, <3>1
    <3> QED BY <3>2, ByNameAssumption DEF Addresses
  <2>8. [n \in 1 .. kept |-> (first + (n - 1) * PageSize) % AddrSpace] \in Seq(Addresses)
    BY <2>6, <2>7
  <2> QED BY <1>3, <2>8 DEF Pages, kept, total, first
<1> QED BY <1>2, <1>3

-----------------------------------------------------------------------------
(* Type correctness *)

\* A call is forgotten while the array is filled.
TypeInv ==
    /\ TypeOK
    /\ phase = "loading" => last = NoCall

LEMMA NoCallType == /\ NoCall.name = Unclosed /\ NoCall.found = 0
                    /\ NoCall.pages \in Seq(Addresses)
BY DEF NoCall

LEMMA TypeInit == Init => TypeInv
<1> SUFFICES ASSUME Init PROVE TypeInv
  OBVIOUS
<1>1. /\ last.name \in Names \cup {Unclosed} /\ last.pages \in Seq(Addresses)
      /\ last.found \in 0 .. Len(bundles)
  BY NoCallType DEF Init
<1>2. bundles \in Seq(Bundle) /\ Len(bundles) <= MAX_BUNDLES
  BY ByNameAssumption DEF Init
<1>3. file \in Files \cup {<<>>} /\ p \in 1 .. Len(file) + 1
  BY DEF Init
<1> QED BY <1>1, <1>2, <1>3 DEF Init, TypeInv, TypeOK, Addresses

LEMMA TypeNext == TypeInv /\ [Next]_vars => TypeInv'
<1> SUFFICES ASSUME TypeInv, [Next]_vars PROVE TypeInv'
  OBVIOUS
<1> USE DEF TypeInv
<1>1. ASSUME NEW f \in Files, LoadOpen(f) PROVE TypeInv'
  <2>1. /\ last' = NoCall
        /\ last'.name \in Names \cup {Unclosed} /\ last'.pages \in Seq(Addresses)
        /\ last'.found \in 0 .. Len(bundles')
    BY <1>1, NoCallType DEF LoadOpen
  <2>2. bundles' \in Seq(Bundle) /\ Len(bundles') <= MAX_BUNDLES
    BY <1>1, ByNameAssumption DEF LoadOpen
  <2>3. f \in Seq(Field)
    BY ByNameAssumption, Zenon DEF Field, Addresses
  <2>4. file' \in Files \cup {<<>>} /\ p' \in 1 .. Len(file') + 1
    BY <1>1, <2>3 DEF LoadOpen
  <2>5. phase' = "loading"
    BY <1>1 DEF LoadOpen
  <2> QED BY <2>1, <2>2, <2>4, <2>5 DEF TypeOK, Addresses
<1>2. CASE LoadEntry
  <2>1. /\ UNCHANGED <<file, phase, last>> /\ phase = "loading"
    BY <1>2 DEF LoadEntry
  <2>2. last.found \in 0 .. Len(bundles')
    BY <2>1, NoCallType
  <2> QED BY <1>2, <2>1, <2>2, LoadEntryType DEF TypeOK
<1>3. CASE LoadEnd
  BY <1>3 DEF LoadEnd, TypeOK
<1>4. ASSUME NEW name \in Names, PrefetchByName(name) PROVE TypeInv'
  <2> DEFINE i == FindBundle(name)
             pages == IF i = 0 THEN <<>> ELSE Pages(bundles[i])
  <2>1. i \in 0 .. Len(bundles)
    BY FindBundleType
  <2>2. bundles \in Seq(Bundle)
    BY DEF TypeOK
  <2>4. pages \in Seq(Addresses)
    <3>1. CASE i = 0
      BY <3>1
    <3>2. CASE i # 0
      <4>1. bundles[i] \in Bundle
        BY <2>1, <2>2, <3>2
      <4> QED BY <3>2, <4>1, PagesType
    <3> QED BY <3>1, <3>2
  <2>5. last' = [name |-> name, found |-> i, pages |-> pages]
    BY <1>4 DEF PrefetchByName
  <2> HIDE DEF i, pages
  <2>6. /\ last'.name \in Names \cup {Unclosed} /\ last'.pages \in Seq(Addresses)
        /\ last'.found \in 0 .. Len(bundles)
    BY <2>1, <2>4, <2>5
  <2>7. UNCHANGED <<bundles, file, p, phase>> /\ phase # "loading"
    BY <1>4 DEF PrefetchByName
  <2> QED BY <2>6, <2>7 DEF TypeOK, Addresses
<1>5. CASE UNCHANGED vars
  BY <1>5 DEF vars, TypeOK
<1> QED BY <1>1, <1>2, <1>3, <1>4, <1>5, StepCases

\* Whatever the file, load_bundles_json stores at most MAX_BUNDLES bundles, of
\* named functions and addresses, and bundle_prefetch_by_name looks at one of
\* these and advises pages of the address space.
THEOREM TypeCorrect == Spec => []TypeOK
<1>1. TypeInv => TypeOK
  BY DEF TypeInv
<1> QED BY <1>1, TypeInit, TypeNext, PTL DEF Spec

-----------------------------------------------------------------------------
(* The functions of a file *)

LEMMA FunctionsType ==
    ASSUME TypeOK
    PROVE  /\ Functions \in SUBSET Nat /\ 0 \notin Functions /\ IsFiniteSet(Functions)
           /\ DOMAIN file = 1 .. Len(file) /\ Len(file) \in Nat
<1>1. DOMAIN file = 1 .. Len(file) /\ Len(file) \in Nat
  BY FileType
<1>2. Functions \subseteq 1 .. Len(file)
  BY <1>1 DEF Functions
<1>3. IsFiniteSet(1 .. Len(file))
  BY <1>1, FS_Interval
<1>4. IsFiniteSet(Functions)
  BY <1>2, <1>3, FS_Subset
<1> QED BY <1>1, <1>2, <1>4

LEMMA BeforeType ==
    ASSUME TypeOK, NEW i
    PROVE  IsFiniteSet({j \in Functions : j < i}) /\ Before(i) \in Nat
<1>1. IsFiniteSet(Functions)
  BY FunctionsType
<1> QED BY <1>1, FS_Subset, FS_CardinalityType DEF Before

\* A function counts among those before any later place.
LEMMA BeforeLess ==
    ASSUME TypeOK, NEW i \in Functions, NEW j \in Nat, i < j
    PROVE  Before(i) < Before(j)
<1> DEFINE I == {h \in Functions : h < i}
           J == {h \in Functions : h < j}
<1>1. IsFiniteSet(I) /\ IsFiniteSet(J) /\ Cardinality(I) \in Nat /\ Cardinality(J) \in Nat
  BY BeforeType DEF Before
<1>2. \A h \in Functions : h \in Nat
  BY FunctionsType
<1>3. i \notin I /\ I \cup {i} \subseteq J
  BY <1>2
<1>4. Before(i) = Cardinality(I) /\ Before(j) = Cardinality(J)
  BY DEF Before
<1> HIDE DEF I, J
<1>5. IsFiniteSet(I \cup {i}) /\ Cardinality(I \cup {i}) = Cardinality(I) + 1
  BY <1>1, <1>3, FS_AddElement
<1>6. Cardinality(I \cup {i}) <= Cardinality(J)
  BY <1>1, <1>3, FS_Subset
<1> QED BY <1>1, <1>4, <1>5, <1>6

\* Each function has a place of its own in the order, and the order is that of
\* the file.
LEMMA BeforeInOrder ==
    ASSUME TypeOK, NEW i \in Functions, NEW j \in Functions
    PROVE  /\ Before(i) = Before(j) => i = j
           /\ i <= j => Before(i) <= Before(j)
<1>1. i \in Nat /\ j \in Nat
  BY FunctionsType
<1>2. Before(i) \in Nat /\ Before(j) \in Nat
  BY BeforeType
<1>3. i < j => Before(i) < Before(j)
  BY <1>1, BeforeLess
<1>4. j < i => Before(j) < Before(i)
  BY <1>1, BeforeLess
<1> QED BY <1>1, <1>2, <1>3, <1>4

\* strstr finds the next field with the key, or there is none.
LEMMA FindFieldIs ==
    ASSUME TypeOK, NEW key, NEW i \in Nat \ {0}
    PROVE  \/ /\ FindField(key, i) = 0
              /\ \A j \in DOMAIN file : i <= j => file[j].key # key
           \/ /\ FindField(key, i) \in DOMAIN file /\ i <= FindField(key, i)
              /\ file[FindField(key, i)].key = key
              /\ \A j \in DOMAIN file : i <= j /\ file[j].key = key => FindField(key, i) <= j
<1> DEFINE found == {j \in i .. Len(file) : file[j].key = key}
<1>1. Len(file) \in Nat /\ DOMAIN file = 1 .. Len(file)
  BY FileType
<1>2. found \in SUBSET Nat
  BY <1>1
<1>3. \A j \in found : j \in DOMAIN file /\ i <= j /\ file[j].key = key
  BY <1>1
<1>4. \A j \in DOMAIN file : i <= j /\ file[j].key = key => j \in found
  BY <1>1
<1>5. FindField(key, i) = IF found = {} THEN 0 ELSE Min(found)
  BY DEF FindField
<1> HIDE DEF found
<1>6. CASE found = {}
  BY <1>4, <1>5, <1>6
<1>7. CASE found # {}
  <2>1. Min(found) \in found /\ \A j \in found : Min(found) <= j
    BY <1>2, <1>7, MinOfNats
  <2> QED BY <1>3, <1>4, <1>5, <1>7, <2>1
<1> QED BY <1>6, <1>7

-----------------------------------------------------------------------------
(* What is loaded *)

\* The bundle that the entry at place i makes.
BundleAt(i) == [name  |-> file[i].value,
                start |-> Number("start_pc", i + 1),
                end   |-> Number("end_pc", i + 1)]

\* The array holds the functions in front of p, each in its place, and loading
\* ends only when there is no next one.
LoadInv ==
    /\ \A j \in DOMAIN file : j < p /\ file[j].key = "function" => file[j].value # Unclosed
    /\ Before(p) = Len(bundles)
    /\ \A n \in DOMAIN bundles :
          \E i \in Functions : i < p /\ Before(i) = n - 1 /\ bundles[n] = BundleAt(i)
    /\ phase = "ready" => NextFunction = 0

\* What the last call advised is what the array holds of its function.
LastInv ==
    last # NoCall =>
        /\ last.name \in Names
        /\ last.found = FindBundle(last.name)
        /\ last.pages = IF last.found = 0 THEN <<>> ELSE Pages(bundles[last.found])

LEMMA EntryStep ==
    ASSUME TypeInv, LoadInv, LoadEntry
    PROVE  LoadInv'
<1> DEFINE i == NextFunction
           b == BundleAt(i)
<1>1. /\ file' = file /\ phase = "loading" /\ phase' = phase
      /\ bundles' = Append(bundles, b) /\ p' = i + 1
      /\ i # 0 /\ i = FindField("function", p) /\ file[i].value # Unclosed
  BY DEF LoadEntry, NextFunction, BundleAt
<1>2. TypeOK /\ p \in Nat \ {0} /\ bundles \in Seq(Bundle)
  BY FileType DEF TypeInv, TypeOK
<1>3. /\ i \in DOMAIN file /\ p <= i /\ file[i].key = "function"
      /\ \A j \in DOMAIN file : p <= j /\ file[j].key = "function" => i <= j
  BY <1>1, <1>2, FindFieldIs, Zenon
<1>4. DOMAIN file = 1 .. Len(file) /\ Len(file) \in Nat /\ Functions \in SUBSET Nat
  BY <1>2, FunctionsType
<1>5. Functions' = Functions /\ \A j : BundleAt(j)' = BundleAt(j) /\ Before(j)' = Before(j)
  <2>1. file' = file
    BY <1>1
  <2>2. Functions' = Functions
    BY <2>1 DEF Functions
  <2>3. \A j : BundleAt(j)' = BundleAt(j)
    BY <2>1 DEF BundleAt, Number, FindField
  <2>4. \A j : Before(j)' = Before(j)
    BY <2>2 DEF Before
  <2> QED BY <2>2, <2>3, <2>4
<1> HIDE DEF i, b
<1>6. ASSUME NEW j \in DOMAIN file, j < i + 1, file[j].key = "function"
      PROVE  file[j].value # Unclosed /\ (j < p \/ j = i)
  <2>1. j \in Nat /\ i \in Nat
    BY <1>3, <1>4
  <2>2. CASE j < p
    BY <1>6, <2>2 DEF LoadInv
  <2>3. CASE ~(j < p)
    BY <1>1, <1>2, <1>3, <1>6, <2>1, <2>3
  <2> QED BY <2>2, <2>3
<1>7. i \in Functions
  BY <1>3, <1>4, <1>6 DEF Functions
<1>8. \A j \in Functions : j \in DOMAIN file /\ j \in Nat /\ file[j].key = "function"
  BY <1>4 DEF Functions
<1>9. {j \in Functions : j < i} = {j \in Functions : j < p}
  <2>1. \A j \in Functions : j < i => j < p
    BY <1>3, <1>4, <1>6, <1>8
  <2>2. \A j \in Functions : j < p => j < i
    BY <1>2, <1>3, <1>4, <1>8
  <2> QED BY <2>1, <2>2
<1>10. Before(i) = Len(bundles)
  BY <1>9 DEF LoadInv, Before
<1>11. Before(i + 1) = Len(bundles) + 1
  <2> DEFINE I == {j \in Functions : j < i}
  <2>1. IsFiniteSet(I) /\ i \notin I
    <3>1. IsFiniteSet(I)
      BY <1>2, BeforeType, Zenon
    <3>2. ~(i < i)
      BY <1>3, <1>4
    <3> QED BY <3>1, <3>2
  <2>2. {j \in Functions : j < i + 1} = I \cup {i}
    <3>1. i \in Nat
      BY <1>3, <1>4
    <3>2. \A j \in Functions : j < i + 1 <=> j < i \/ j = i
      BY <1>8, <3>1
    <3>3. i < i + 1
      BY <3>1
    <3> QED BY <1>7, <3>2, <3>3
  <2>3. Cardinality(I) = Len(bundles)
    BY <1>10 DEF Before
  <2> HIDE DEF I
  <2>4. Cardinality(I \cup {i}) = Cardinality(I) + 1
    BY <2>1, FS_AddElement
  <2> QED BY <2>2, <2>3, <2>4 DEF Before
<1>12. b \in Bundle
  BY <1>1, <1>3, <1>4, <1>2, NextFunctionType, NumberType DEF b, i, BundleAt, Bundle, Addresses
<1>13. /\ Len(bundles') = Len(bundles) + 1 /\ Len(bundles) \in Nat
       /\ DOMAIN bundles' = 1 .. Len(bundles) + 1 /\ DOMAIN bundles = 1 .. Len(bundles)
       /\ bundles'[Len(bundles) + 1] = b
       /\ \A n \in DOMAIN bundles : bundles'[n] = bundles[n]
  BY <1>1, <1>2, <1>12
<1>14. ASSUME NEW n \in DOMAIN bundles'
       PROVE  \E j \in Functions : j < i + 1 /\ Before(j) = n - 1 /\ bundles'[n] = BundleAt(j)
  <2>1. CASE n \in DOMAIN bundles
    <3>1. PICK j \in Functions : j < p /\ Before(j) = n - 1 /\ bundles[n] = BundleAt(j)
      BY <2>1 DEF LoadInv
    <3>2. j < i + 1
      BY <1>2, <1>3, <1>4, <1>8, <3>1
    <3> QED BY <1>13, <2>1, <3>1, <3>2
  <2>2. CASE n = Len(bundles) + 1
    <3>1. Before(i) = n - 1 /\ bundles'[n] = BundleAt(i) /\ i < i + 1
      BY <1>3, <1>4, <1>10, <1>13, <2>2 DEF b
    <3> QED BY <1>7, <3>1
  <2> QED BY <1>13, <2>1, <2>2
<1>15. \A j \in DOMAIN file' : j < p' /\ file'[j].key = "function" => file'[j].value # Unclosed
  BY <1>1, <1>6
<1>16. Before(p') = Len(bundles')
  BY <1>1, <1>11, <1>13
<1>17. Before(p)' = Before(p')
  BY <1>5 DEF Before
<1>18. \A n \in DOMAIN bundles' :
          \E j \in Functions' : j < p' /\ Before(j)' = n - 1 /\ bundles'[n] = BundleAt(j)'
  BY <1>1, <1>5, <1>14
<1> QED BY <1>1, <1>15, <1>16, <1>17, <1>18 DEF LoadInv

ReplayInv == TypeInv /\ LoadInv /\ LastInv

LEMMA ReplayInit == Init => ReplayInv
<1> SUFFICES ASSUME Init PROVE ReplayInv
  OBVIOUS
<1>1. TypeInv
  BY TypeInit
<1>2. LoadInv
  <2>1. DOMAIN file = {} /\ Functions = {} /\ bundles = <<>> /\ phase # "ready"
    BY DEF Init, Functions
  <2>2. Before(p) = 0
    <3>1. {i \in Functions : i < p} = {}
      BY <2>1
    <3> QED BY <3>1, FS_EmptySet DEF Before
  <2> QED BY <2>1, <2>2 DEF LoadInv
<1>3. LastInv
  BY DEF Init, LastInv
<1> QED BY <1>1, <1>2, <1>3 DEF ReplayInv

LEMMA LoadKept ==
    ASSUME LoadInv, UNCHANGED <<bundles, file, p>>, phase' = "ready" => NextFunction = 0
    PROVE  LoadInv'
<1>1. /\ Functions' = Functions /\ Before(p)' = Before(p) /\ NextFunction' = NextFunction
      /\ \A i : Before(i)' = Before(i) /\ BundleAt(i)' = BundleAt(i)
  BY DEF Before, Functions, BundleAt, Number, FindField, NextFunction
<1>2. /\ \A j \in DOMAIN file : j < p /\ file[j].key = "function" => file[j].value # Unclosed
      /\ Before(p) = Len(bundles)
      /\ \A n \in DOMAIN bundles :
            \E i \in Functions : i < p /\ Before(i) = n - 1 /\ bundles[n] = BundleAt(i)
  BY DEF LoadInv
<1>3. \A n \in DOMAIN bundles' :
          \E i \in Functions' : i < p' /\ Before(i)' = n - 1 /\ bundles'[n] = BundleAt(i)'
  BY <1>1, <1>2
<1> QED BY <1>1, <1>2, <1>3 DEF LoadInv

LEMMA LastKept ==
    ASSUME LastInv, UNCHANGED <<bundles, last>>
    PROVE  LastInv'
BY DEF LastInv, FindBundle, Pages, NoCall

LEMMA ReplayNext == ReplayInv /\ [Next]_vars => ReplayInv'
<1> SUFFICES ASSUME ReplayInv, [Next]_vars PROVE ReplayInv'
  OBVIOUS
<1>0. TypeInv /\ TypeInv' /\ LoadInv /\ LastInv
  BY TypeNext DEF ReplayInv
<1>1. ASSUME NEW f \in Files, LoadOpen(f) PROVE ReplayInv'
  <2>1. bundles' = <<>> /\ p' = 1 /\ phase' # "ready" /\ last' = NoCall
    BY <1>1 DEF LoadOpen
  <2>2. LoadInv'
    <3>1. f \in Seq(Field) /\ file' = f
      BY <1>1, ByNameAssumption, Zenon DEF Field, Addresses, LoadOpen
    <3>2. \A j \in DOMAIN file' : ~(j < p')
      BY <2>1, <3>1
    <3>3. {i \in Functions' : i < p'} = {}
      BY <3>2 DEF Functions
    <3>4. Before(p)' = 0
      BY <3>3, FS_EmptySet DEF Before
    <3> QED BY <2>1, <3>2, <3>4 DEF LoadInv
  <2>3. LastInv'
    BY <2>1 DEF LastInv, NoCall
  <2> QED BY <1>0, <2>2, <2>3 DEF ReplayInv
<1>2. CASE LoadEntry
  <2>1. last' = NoCall
    BY <1>0, <1>2 DEF LoadEntry, TypeInv
  <2>2. LastInv'
    BY <2>1 DEF LastInv, NoCall
  <2> QED BY <1>0, <1>2, <2>2, EntryStep DEF ReplayInv
<1>3. CASE LoadEnd
  BY <1>0, <1>3, LoadKept, LastKept DEF LoadEnd, ReplayInv
<1>4. ASSUME NEW name \in Names, PrefetchByName(name) PROVE ReplayInv'
  <2>1. /\ UNCHANGED <<bundles, file, p, phase>>
        /\ last' = [name |-> name, found |-> FindBundle(name),
                    pages |-> IF FindBundle(name) = 0 THEN <<>> ELSE Pages(bundles[FindBundle(name)])]
    BY <1>4 DEF PrefetchByName
  <2>2. LoadInv'
    BY <1>0, <2>1, LoadKept DEF LoadInv
  <2>3. /\ last'.name = name /\ last'.found = FindBundle(name)
        /\ last'.pages = IF FindBundle(name) = 0 THEN <<>> ELSE Pages(bundles[FindBundle(name)])
    BY <2>1
  <2>4. FindBundle(name)' = FindBundle(name)
    BY <2>1 DEF FindBundle
  <2>5. \A b : Pages(b)' = Pages(b)
    BY DEF Pages
  <2>6. LastInv'
    BY <2>1, <2>3, <2>4, <2>5 DEF LastInv, FindBundle
  <2> QED BY <1>0, <2>2, <2>6 DEF ReplayInv
<1>5. CASE UNCHANGED vars
  BY <1>0, <1>5, LoadKept, LastKept DEF vars, ReplayInv, LoadInv
<1> QED BY <1>1, <1>2, <1>3, <1>4, <1>5, StepCases

LEMMA ReplayAlways == Spec => []ReplayInv
BY ReplayInit, ReplayNext, PTL DEF Spec

-----------------------------------------------------------------------------
(* The entries of a file *)

\* When an entry has a key once, the number read for it is the one it gives.
LEMMA EntryGives ==
    ASSUME TypeOK, NEW key \in {"start_pc", "end_pc"}, NEW i \in Functions, Once(key, i)
    PROVE  Number(key, i + 1) = Given(key, i)
<1>1. /\ DOMAIN file = 1 .. Len(file) /\ Len(file) \in Nat /\ i \in Nat \ {0}
      /\ file \in Seq(Field)
  BY FunctionsType, FileType
<1>2. PICK j \in EntryOf(i) : \A h \in EntryOf(i) : file[h].key = key <=> h = j
  BY DEF Once
<1>3. /\ j \in i + 1 .. Len(file) /\ file[j].key = key
      /\ \A h \in i + 1 .. j : file[h].key # "function"
  BY <1>2 DEF EntryOf
<1>4. FindField(key, i + 1) = j
  <2> DEFINE g == FindField(key, i + 1)
  <2>1. i + 1 \in Nat \ {0} /\ j \in DOMAIN file /\ i + 1 <= j
    BY <1>1, <1>3
  <2>2. /\ g \in DOMAIN file /\ i + 1 <= g
        /\ file[g].key = key
        /\ \A h \in DOMAIN file : i + 1 <= h /\ file[h].key = key => g <= h
    BY <1>3, <2>1, FindFieldIs, Zenon
  <2> HIDE DEF g
  <2>3. g <= j
    BY <1>3, <2>1, <2>2
  <2>4. g \in i + 1 .. Len(file) /\ \A h \in i + 1 .. g : h \in i + 1 .. j
    BY <1>1, <1>3, <2>2, <2>3
  <2>5. g \in EntryOf(i)
    BY <1>3, <2>4 DEF EntryOf
  <2> QED BY <1>2, <2>2, <2>5 DEF g
<1>5. j # 0 /\ file[j] \in Field
  BY <1>1, <1>3
<1>6. file[j].value \in Nat <=> file[j].value # Unreadable
  <2>1. file[j].value \in Addresses \cup {Unreadable}
    BY <1>3, <1>5 DEF Field
  <2>2. \A a \in Addresses : a \in Nat
    BY ByNameAssumption DEF Addresses
  <2> QED BY <2>1, <2>2, ByNameAssumption
<1> DEFINE own == {h \in EntryOf(i) : file[h].key = key /\ file[h].quoted /\ file[h].value \in Nat}
<1>7. CASE file[j].quoted /\ file[j].value # Unreadable
  <2>1. own = {j}
    BY <1>2, <1>6, <1>7
  <2>2. Min({j}) = j
    <3>1. {j} \in SUBSET Nat /\ j \in {j} /\ \A y \in {j} : j <= y
      BY <1>1, <1>3
    <3> QED BY <3>1, MinIs
  <2> QED BY <1>4, <1>5, <1>7, <2>1, <2>2 DEF Given, Number
<1>8. CASE ~(file[j].quoted /\ file[j].value # Unreadable)
  <2>1. own = {}
    BY <1>2, <1>6, <1>8
  <2> QED BY <1>4, <1>8, <2>1 DEF Given, Number
<1> QED BY <1>7, <1>8

\* In the toolchain's order the end read for an entry is the one in front of the
\* next function.
LEMMA EndIsShifted ==
    ASSUME TypeOK, ToolchainOrder, NEW i \in Functions,
           NEW after, after = {j \in i + 1 .. Len(file) : file[j].key = "function"},
           NEW e, e = file[Min(after) - 1]
    PROVE  Number("end_pc", i + 1)
             = IF after # {} /\ e.quoted /\ e.value # Unreadable THEN e.value ELSE 0
<1>1. /\ DOMAIN file = 1 .. Len(file) /\ Len(file) \in Nat /\ i \in Nat \ {0}
      /\ i \in DOMAIN file /\ file[i].key = "function"
  BY FunctionsType DEF Functions
<1>2. \A j \in DOMAIN file :
          /\ file[j].key = "function" => j > 1 /\ file[j - 1].key = "end_pc"
          /\ file[j].key = "end_pc" => j < Len(file) /\ file[j + 1].key = "function"
  BY DEF ToolchainOrder
<1>3. after \in SUBSET Nat
  BY <1>1
<1>4. ASSUME after # {}
      PROVE  /\ Min(after) - 1 \in DOMAIN file /\ i + 1 <= Min(after) - 1
             /\ file[Min(after) - 1].key = "end_pc"
             /\ \A j \in after : Min(after) <= j
             /\ Min(after) \in Nat
  <2>1. Min(after) \in after /\ \A j \in after : Min(after) <= j
    BY <1>3, <1>4, MinOfNats
  <2> DEFINE m == Min(after)
  <2>2. m \in i + 1 .. Len(file) /\ file[m].key = "function" /\ m \in Nat
    BY <1>3, <2>1
  <2> HIDE DEF m
  <2>3. m \in DOMAIN file
    BY <1>1, <2>2
  <2>4. file[m - 1].key = "end_pc"
    BY <1>2, <2>2, <2>3
  <2>5. m - 1 # i
    BY <1>1, <2>4
  <2>6. m - 1 \in DOMAIN file /\ i + 1 <= m - 1
    BY <1>1, <2>2, <2>5
  <2> QED BY <2>1, <2>2, <2>4, <2>6 DEF m
<1> DEFINE g == FindField("end_pc", i + 1)
<1>5. \/ /\ g = 0
         /\ \A j \in DOMAIN file : i + 1 <= j => file[j].key # "end_pc"
      \/ /\ g \in DOMAIN file /\ i + 1 <= g
         /\ file[g].key = "end_pc"
         /\ \A j \in DOMAIN file : i + 1 <= j /\ file[j].key = "end_pc" => g <= j
  <2>1. i + 1 \in Nat \ {0}
    BY <1>1
  <2> QED BY <2>1, FindFieldIs, Zenon
<1>6. Number("end_pc", i + 1)
        = IF g = 0 \/ ~file[g].quoted \/ file[g].value = Unreadable THEN 0 ELSE file[g].value
  BY DEF Number
<1> HIDE DEF g
<1>7. CASE g = 0
  <2>1. \A j \in DOMAIN file : i + 1 <= j => file[j].key # "end_pc"
    BY <1>1, <1>5, <1>7
  <2>2. after = {}
    BY <1>4, <2>1
  <2> QED BY <1>6, <1>7, <2>2
<1>8. CASE g # 0
  <2>1. /\ g \in DOMAIN file /\ i + 1 <= g
        /\ file[g].key = "end_pc"
        /\ \A j \in DOMAIN file : i + 1 <= j /\ file[j].key = "end_pc" => g <= j
    BY <1>5, <1>8
  <2>2. g + 1 \in after
    BY <1>1, <1>2, <2>1
  <2>3. g \in Nat /\ g <= Min(after) - 1 /\ Min(after) <= g + 1 /\ Min(after) \in Nat
    BY <1>1, <1>4, <2>1, <2>2
  <2>4. g = Min(after) - 1
    BY <2>3
  <2> QED BY <1>6, <1>8, <2>2, <2>4
<1> QED BY <1>7, <1>8

\* What becomes of a file in the toolchain's order: each function has its own
\* start and the end of the entry after it, and the last function the end 0.
ShiftsTheEnds ==
    phase = "ready" /\ ToolchainOrder =>
        \A n \in DOMAIN bundles :
            LET i     == Min({j \in Functions : Before(j) = n - 1})
                after == {j \in i + 1 .. Len(file) : file[j].key = "function"}
                e     == file[Min(after) - 1]
            IN  /\ bundles[n].start = Given("start_pc", i)
                /\ bundles[n].end = IF after # {} /\ e.quoted /\ e.value # Unreadable
                                    THEN e.value ELSE 0

\* Why load_bundles_json breaks the promise of bundle_replay.h for every file in
\* the toolchain's order: it gives every function the end of the function behind
\* it, and the last one the end 0.
THEOREM EndsAreShifted == Spec => []ShiftsTheEnds
<1>1. ReplayInv => ShiftsTheEnds
  <2> SUFFICES ASSUME ReplayInv, ToolchainOrder, NEW n \in DOMAIN bundles
               PROVE  LET i     == Min({j \in Functions : Before(j) = n - 1})
                          after == {j \in i + 1 .. Len(file) : file[j].key = "function"}
                          e     == file[Min(after) - 1]
                      IN  /\ bundles[n].start = Given("start_pc", i)
                          /\ bundles[n].end = IF after # {} /\ e.quoted /\ e.value # Unreadable
                                              THEN e.value ELSE 0
    BY Zenon DEF ShiftsTheEnds
  <2>1. TypeOK
    BY DEF ReplayInv, TypeInv
  <2>2. PICK i \in Functions : i < p /\ Before(i) = n - 1 /\ bundles[n] = BundleAt(i)
    BY DEF ReplayInv, LoadInv
  <2>3. Min({j \in Functions : Before(j) = n - 1}) = i
    <3>1. {j \in Functions : Before(j) = n - 1} = {i}
      BY <2>1, <2>2, BeforeInOrder
    <3>2. {i} \in SUBSET Nat /\ i \in {i} /\ \A y \in {i} : i <= y
      BY <2>1, FunctionsType
    <3>3. Min({i}) = i
      BY <3>2, MinIs
    <3> QED BY <3>1, <3>3
  <2>4. bundles[n].start = Given("start_pc", i)
    <3>1. Once("start_pc", i)
      BY DEF ToolchainOrder
    <3> QED BY <2>1, <2>2, <3>1, EntryGives DEF BundleAt
  <2> DEFINE after == {j \in i + 1 .. Len(file) : file[j].key = "function"}
             e == file[Min(after) - 1]
  <2>5. Number("end_pc", i + 1)
          = IF after # {} /\ e.quoted /\ e.value # Unreadable THEN e.value ELSE 0
    BY <2>1, EndIsShifted, Zenon
  <2>6. bundles[n].end = Number("end_pc", i + 1)
    BY <2>2 DEF BundleAt
  <2> QED BY <2>3, <2>4, <2>5, <2>6, Zenon
<1> QED BY <1>1, ReplayAlways, PTL

-----------------------------------------------------------------------------
(* The bundle of a name *)

\* bundle_prefetch_by_name takes the first bundle with the name.
LEMMA FindBundleIs ==
    ASSUME TypeOK, NEW name
    PROVE  \/ /\ FindBundle(name) = 0
              /\ \A n \in DOMAIN bundles : bundles[n].name # name
           \/ /\ FindBundle(name) \in DOMAIN bundles
              /\ bundles[FindBundle(name)].name = name
              /\ \A n \in DOMAIN bundles : bundles[n].name = name => FindBundle(name) <= n
<1> DEFINE found == {n \in DOMAIN bundles : bundles[n].name = name}
<1>1. found \in SUBSET Nat
  BY DEF TypeOK
<1>2. FindBundle(name) = IF found = {} THEN 0 ELSE Min(found)
  BY DEF FindBundle
<1>3. \A n \in DOMAIN bundles : bundles[n].name = name => n \in found
  OBVIOUS
<1>4. \A n \in found : n \in DOMAIN bundles /\ bundles[n].name = name
  OBVIOUS
<1> HIDE DEF found
<1>5. CASE found = {}
  BY <1>2, <1>3, <1>5
<1>6. CASE found # {}
  <2>1. Min(found) \in found /\ \A n \in found : Min(found) <= n
    BY <1>1, <1>6, MinOfNats
  <2> QED BY <1>2, <1>3, <1>4, <1>6, <2>1
<1> QED BY <1>5, <1>6

\* When loading has ended, what is not in the array is behind MAX_BUNDLES functions.
LEMMA AllLoaded ==
    ASSUME TypeOK, LoadInv, phase = "ready", NEW i \in Functions
    PROVE  /\ i < p => /\ Before(i) < MAX_BUNDLES
                       /\ Before(i) + 1 \in DOMAIN bundles
                       /\ bundles[Before(i) + 1] = BundleAt(i)
           /\ ~(i < p) => Before(i) >= MAX_BUNDLES
<1>1. /\ DOMAIN file = 1 .. Len(file) /\ Len(file) \in Nat
      /\ \A j \in Functions : j \in Nat /\ j \in DOMAIN file
  BY FunctionsType DEF Functions
<1>2. /\ p \in Nat \ {0} /\ Len(bundles) \in Nat /\ Len(bundles) <= MAX_BUNDLES
      /\ DOMAIN bundles = 1 .. Len(bundles) /\ MAX_BUNDLES \in Nat
  BY <1>1, ByNameAssumption DEF TypeOK
<1>3. Before(i) \in Nat /\ Before(p) = Len(bundles)
  BY BeforeType DEF LoadInv
<1>4. ASSUME i < p
      PROVE  /\ Before(i) < MAX_BUNDLES
             /\ Before(i) + 1 \in DOMAIN bundles
             /\ bundles[Before(i) + 1] = BundleAt(i)
  <2>1. Before(i) < Len(bundles)
    BY <1>2, <1>3, <1>4, BeforeLess
  <2>2. Before(i) + 1 \in DOMAIN bundles
    BY <1>2, <1>3, <2>1
  <2>3. PICK j \in Functions : Before(j) = (Before(i) + 1) - 1 /\ bundles[Before(i) + 1] = BundleAt(j)
    BY <2>2 DEF LoadInv
  <2>4. Before(j) = Before(i)
    BY <1>3, <2>3
  <2>5. j = i
    BY <2>4, BeforeInOrder
  <2> QED BY <1>2, <1>3, <2>1, <2>2, <2>3, <2>5
<1>5. ASSUME ~(i < p) PROVE Before(i) >= MAX_BUNDLES
  <2>1. Len(bundles) >= MAX_BUNDLES
    <3> DEFINE g == FindField("function", p)
    <3>1. /\ g \in DOMAIN file /\ p <= g
          /\ file[g].key = "function"
          /\ \A j \in DOMAIN file : p <= j /\ file[j].key = "function" => g <= j
      <4>1. i \in DOMAIN file /\ p <= i /\ file[i].key = "function"
        BY <1>1, <1>2, <1>5 DEF Functions
      <4> QED BY <1>2, <4>1, FindFieldIs, Zenon
    <3>2. NextFunction = 0
      BY DEF LoadInv
    <3>3. g = 0 \/ Len(bundles) >= MAX_BUNDLES \/ file[g].value = Unclosed
      BY <3>1, <3>2 DEF NextFunction
    <3> HIDE DEF g
    <3>4. g <= i /\ g \in 1 .. i
      BY <1>1, <1>2, <1>5, <3>1 DEF Functions
    <3>5. file[g].value # Unclosed
      BY <3>1, <3>4 DEF Functions
    <3> QED BY <1>1, <3>1, <3>3, <3>5
  <2>2. Before(p) <= Before(i)
    <3> DEFINE I == {j \in Functions : j < i}
               J == {j \in Functions : j < p}
    <3>1. IsFiniteSet(I) /\ Cardinality(I) \in Nat
      BY BeforeType DEF Before
    <3>2. J \in SUBSET I
      BY <1>1, <1>2, <1>5
    <3>3. Before(i) = Cardinality(I) /\ Before(p) = Cardinality(J)
      BY DEF Before
    <3> HIDE DEF I, J
    <3> QED BY <3>1, <3>2, <3>3, FS_Subset
  <2> QED BY <1>2, <1>3, <2>1, <2>2
<1> QED BY <1>4, <1>5

\* The bundle found is that of the first function with the name, when it is one
\* of the first MAX_BUNDLES; otherwise none is found.
LEMMA BundleOfName ==
    ASSUME TypeOK, LoadInv, phase = "ready", NEW name,
           NEW own, own = {i \in Functions : file[i].value = name}
    PROVE  /\ own = {} => FindBundle(name) = 0
           /\ own # {} => /\ Min(own) \in Functions
                          /\ Before(Min(own)) >= MAX_BUNDLES => FindBundle(name) = 0
                          /\ Before(Min(own)) < MAX_BUNDLES =>
                                /\ FindBundle(name) # 0
                                /\ FindBundle(name) \in DOMAIN bundles
                                /\ bundles[FindBundle(name)] = BundleAt(Min(own))
<1>1. own \in SUBSET Nat
  BY FunctionsType
<1>2. \A n \in DOMAIN bundles : n \in Nat \ {0}
  BY DEF TypeOK
<1>3. MAX_BUNDLES \in Nat
  BY ByNameAssumption
\* A bundle with the name comes from one of own.
<1>4. ASSUME NEW n \in DOMAIN bundles, bundles[n].name = name
      PROVE  \E j \in own : j < p /\ Before(j) = n - 1 /\ bundles[n] = BundleAt(j)
  <2>1. PICK j \in Functions : j < p /\ Before(j) = n - 1 /\ bundles[n] = BundleAt(j)
    BY DEF LoadInv
  <2>2. file[j].value = name
    BY <1>4, <2>1 DEF BundleAt
  <2> QED BY <2>1, <2>2
<1>5. CASE own = {}
  <2>1. \A n \in DOMAIN bundles : bundles[n].name # name
    BY <1>4, <1>5
  <2> QED BY <1>5, <2>1, FindBundleIs
<1>6. CASE own # {}
  <2> DEFINE i == Min(own)
  <2>1. i \in own /\ \A j \in own : i <= j
    BY <1>1, <1>6, MinOfNats
  <2> HIDE DEF i
  <2>2. i \in Functions /\ file[i].value = name /\ i \in Nat /\ Before(i) \in Nat
    BY <1>1, <2>1, BeforeType
  <2>3. p \in Nat /\ \A j \in own : j \in Nat
    BY <1>1, FileType DEF TypeOK
  <2>4. CASE i < p
    <3>1. /\ Before(i) < MAX_BUNDLES
          /\ Before(i) + 1 \in DOMAIN bundles
          /\ bundles[Before(i) + 1] = BundleAt(i)
      BY <2>2, <2>4, AllLoaded
    <3>2. bundles[Before(i) + 1].name = name
      BY <2>2, <3>1 DEF BundleAt
    <3> DEFINE f == FindBundle(name)
    <3>3. f \in DOMAIN bundles /\ bundles[f].name = name /\ f <= Before(i) + 1
      BY <3>1, <3>2, FindBundleIs, Zenon
    <3> HIDE DEF f
    <3>4. PICK j \in own : Before(j) = f - 1 /\ bundles[f] = BundleAt(j)
      BY <1>4, <3>3
    <3>5. Before(i) <= Before(j)
      BY <2>1, <2>2, <3>4, BeforeInOrder
    <3>6. f = Before(i) + 1 /\ f # 0
      BY <1>2, <2>2, <3>3, <3>4, <3>5
    <3> QED BY <1>3, <1>6, <2>2, <3>1, <3>3, <3>6 DEF f, i
  <2>5. CASE ~(i < p)
    <3>1. Before(i) >= MAX_BUNDLES
      BY <2>2, <2>5, AllLoaded
    <3>2. \A n \in DOMAIN bundles : bundles[n].name # name
      <4> SUFFICES ASSUME NEW n \in DOMAIN bundles, bundles[n].name = name PROVE FALSE
        OBVIOUS
      <4>1. PICK j \in own : j < p
        BY <1>4
      <4> QED BY <2>1, <2>2, <2>3, <2>5, <4>1
    <3>3. FindBundle(name) = 0
      BY <3>2, FindBundleIs
    <3> QED BY <1>3, <1>6, <2>2, <3>1, <3>3 DEF i
  <2> QED BY <2>4, <2>5
<1> QED BY <1>5, <1>6

-----------------------------------------------------------------------------
(* The pages of a bundle *)

LEMMA Distributes ==
    ASSUME NEW d \in Nat, NEW m \in Nat, NEW n \in Nat
    PROVE  d * (m + n) = d * m + d * n /\ m * d = d * m /\ d * m \in Nat /\ d * n \in Nat
OBVIOUS

\* m pages in a row from first on.
Row(first, m) == {first + PageSize * k : k \in 0 .. m - 1}

LEMMA RowSize ==
    ASSUME NEW first \in Nat, NEW m \in Nat
    PROVE  Cardinality(Row(first, m)) = m
<1> DEFINE S == Row(first, m)
           f == [k \in 0 .. m - 1 |-> first + PageSize * k]
<1>1. PageSize \in Nat \ {0}
  BY ByNameAssumption
<1>2. f \in Injection(0 .. m - 1, S)
  <2>1. f \in [0 .. m - 1 -> S]
    BY DEF Row
  <2>2. ASSUME NEW j \in 0 .. m - 1, NEW k \in 0 .. m - 1, f[j] = f[k]
        PROVE  j = k
    <3>1. j \in Nat /\ k \in Nat /\ first + PageSize * j = first + PageSize * k
      BY <2>2
    <3>2. PageSize * j \in Nat /\ PageSize * k \in Nat
      BY <1>1, <3>1, TimesLess
    <3>3. PageSize * j <= PageSize * k /\ PageSize * k <= PageSize * j
      BY <3>1, <3>2
    <3>4. j <= k /\ k <= j
      BY <1>1, <3>1, <3>3, TimesLess
    <3> QED BY <3>1, <3>4
  <2>3. DOMAIN f = 0 .. m - 1
    OBVIOUS
  <2> HIDE DEF f
  <2> QED BY <2>1, <2>2, <2>3 DEF Injection, IsInjective
<1>3. f \in Surjection(0 .. m - 1, S)
  <2>1. \A x \in S : \E k \in 0 .. m - 1 : f[k] = x
    BY DEF Row
  <2>2. f \in [0 .. m - 1 -> S]
    BY DEF Row
  <2> QED BY <2>1, <2>2 DEF Surjection
<1>4. IsFiniteSet(0 .. m - 1) /\ Cardinality(0 .. m - 1) = m
  <2>1. 0 \in Int /\ m - 1 \in Int
    OBVIOUS
  <2>2. /\ IsFiniteSet(0 .. m - 1)
        /\ Cardinality(0 .. m - 1) = IF 0 > m - 1 THEN 0 ELSE (m - 1) - 0 + 1
    BY <2>1, FS_Interval
  <2> QED BY <2>2
<1> HIDE DEF f
<1>5. ExistsBijection(0 .. m - 1, S)
  BY <1>2, <1>3 DEF ExistsBijection, Bijection
<1> QED BY <1>4, <1>5, FS_Bijection

\* A row that goes on has the pages of the shorter one, and its own are behind them.
LEMMA RowGoesOn ==
    ASSUME NEW first \in Nat, NEW m \in Nat, NEW n \in Nat, m <= n
    PROVE  /\ Row(first, m) \subseteq Row(first, n)
           /\ \A x \in Row(first, m), y \in Row(first, n) \ Row(first, m) : x < y
<1>1. PageSize \in Nat \ {0}
  BY ByNameAssumption
<1>2. \A k \in 0 .. m - 1 : k \in 0 .. n - 1
  OBVIOUS
<1>3. Row(first, m) \subseteq Row(first, n)
  BY <1>2, Zenon DEF Row
<1>4. ASSUME NEW x \in Row(first, m), NEW y \in Row(first, n) \ Row(first, m)
      PROVE  x < y
  <2>1. PICK j \in 0 .. m - 1 : x = first + PageSize * j
    BY DEF Row
  <2>2. PICK k \in 0 .. n - 1 : y = first + PageSize * k
    BY DEF Row
  <2>3. ~(k \in 0 .. m - 1)
    BY <2>2, Zenon DEF Row
  <2>4. j \in Nat /\ k \in Nat /\ j < k
    BY <2>3
  <2>5. PageSize * j \in Nat /\ PageSize * k \in Nat /\ PageSize * j + PageSize <= PageSize * k
    BY <1>1, <2>4, TimesLess
  <2> QED BY <1>1, <2>1, <2>2, <2>5
<1> QED BY <1>3, <1>4

\* The pages between two addresses.
PagesFromTo(s, e) == {PageOf(a) : a \in s .. e}

LEMMA PagesBetween ==
    ASSUME NEW s \in Nat, NEW e \in Nat, s < e,
           NEW q, q = s \div PageSize,
           NEW n, n = (e - PageSize * q) \div PageSize
    PROVE  /\ q \in Nat /\ n \in Nat /\ PageSize * q \in Nat
           /\ \A k \in 0 .. n : /\ PageSize * k \in Nat
                                /\ PageSize * q + PageSize * k <= e
           /\ PagesFromTo(s, e) = Row(PageSize * q, n + 1)
<1>1. PageSize \in Nat \ {0}
  BY ByNameAssumption
<1>2. /\ q \in Nat /\ PageSize * q \in Nat /\ s % PageSize \in Nat /\ s % PageSize < PageSize
      /\ s = PageSize * q + (s % PageSize)
  BY <1>1, Quotient
<1> DEFINE w == e - PageSize * q
<1>3. w \in Nat
  BY <1>2
<1>4. /\ n \in Nat /\ PageSize * n \in Nat /\ w % PageSize \in Nat /\ w % PageSize < PageSize
      /\ w = PageSize * n + (w % PageSize)
  <2> HIDE DEF w
  <2>1. /\ w \div PageSize \in Nat /\ w % PageSize \in Nat /\ w % PageSize < PageSize
        /\ w = PageSize * (w \div PageSize) + (w % PageSize)
        /\ PageSize * (w \div PageSize) \in Nat
    BY <1>1, <1>3, Quotient
  <2>2. n = w \div PageSize
    BY DEF w
  <2> QED BY <2>1, <2>2
<1>5. ASSUME NEW k \in 0 .. n
      PROVE  k \in Nat /\ PageSize * k \in Nat /\ PageSize * q + PageSize * k <= e
  <2>1. k \in Nat /\ k <= n
    BY <1>4
  <2>2. PageSize * k \in Nat /\ PageSize * k <= PageSize * n
    BY <1>1, <1>4, <2>1, TimesLess
  <2> QED BY <1>2, <1>4, <2>1, <2>2
<1>6. ASSUME NEW a \in s .. e
      PROVE  \E k \in 0 .. n : PageOf(a) = PageSize * q + PageSize * k
  <2> DEFINE x == a \div PageSize
  <2>1. a \in Nat /\ s <= a /\ a <= e
    OBVIOUS
  <2>2. /\ x \in Nat /\ PageSize * x \in Nat /\ a % PageSize \in Nat /\ a % PageSize < PageSize
        /\ a = PageSize * x + (a % PageSize)
    BY <1>1, <2>1, Quotient
  <2>3. PageOf(a) = x * PageSize
    BY DEF PageOf
  <2> HIDE DEF x
  <2>4. q <= x
    <3>1. PageSize * (x + 1) = PageSize * x + PageSize * 1
      BY <1>1, <2>2, Distributes
    <3>2. PageSize * 1 = PageSize
      BY <1>1
    <3>3. PageSize * q < PageSize * (x + 1)
      BY <1>1, <1>2, <2>1, <2>2, <3>1, <3>2
    <3>4. q < x + 1
      BY <1>1, <1>2, <2>2, <3>3, TimesLess
    <3> QED BY <1>2, <2>2, <3>4
  <2> DEFINE k == x - q
  <2>5. k \in Nat /\ x = q + k
    BY <1>2, <2>2, <2>4
  <2> HIDE DEF k
  <2>6. PageSize * x = PageSize * q + PageSize * k /\ PageSize * k \in Nat /\ x * PageSize = PageSize * x
    <3>1. PageSize * (q + k) = PageSize * q + PageSize * k /\ PageSize * k \in Nat
      BY <1>1, <1>2, <2>5, Distributes
    <3>2. x * PageSize = PageSize * x
      BY <1>1, <2>2, Distributes
    <3> QED BY <2>5, <3>1, <3>2
  <2>7. k <= n
    <3>1. PageSize * (n + 1) = PageSize * n + PageSize * 1
      BY <1>1, <1>4, Distributes
    <3>2. PageSize * 1 = PageSize
      BY <1>1
    <3>3. PageSize * k <= w
      BY <1>2, <2>1, <2>2, <2>6
    <3>4. PageSize * k < PageSize * (n + 1)
      <4> HIDE DEF w
      <4> QED BY <1>1, <1>3, <1>4, <2>6, <3>1, <3>2, <3>3
    <3>5. k < n + 1
      BY <1>1, <1>4, <2>5, <3>4, TimesLess
    <3> QED BY <1>4, <2>5, <3>5
  <2>8. k \in 0 .. n
    BY <1>4, <2>5, <2>7
  <2> QED BY <2>3, <2>6, <2>8
<1>7. ASSUME NEW k \in 0 .. n
      PROVE  \E a \in s .. e : PageOf(a) = PageSize * q + PageSize * k
  <2>1. k \in Nat /\ PageSize * k \in Nat /\ PageSize * q + PageSize * k <= e
    BY <1>5
  <2>2. CASE k = 0
    <3>1. PageSize * 0 = 0
      BY <1>1
    <3>2. PageOf(s) = PageSize * q
      <4>1. q * PageSize = PageSize * q
        BY <1>1, <1>2, Distributes
      <4> QED BY <4>1 DEF PageOf
    <3>3. s \in s .. e
      OBVIOUS
    <3> QED BY <1>2, <2>2, <3>1, <3>2, <3>3
  <2>3. CASE k # 0
    <3> DEFINE a == PageSize * q + PageSize * k
    <3>1. PageSize * 1 <= PageSize * k /\ PageSize * 1 = PageSize
      <4>1. 1 \in Nat /\ 1 <= k
        BY <2>1, <2>3
      <4>2. PageSize * 1 <= PageSize * k
        BY <1>1, <2>1, <4>1, TimesLess
      <4> QED BY <1>1, <4>2
    <3>2. a \in s .. e
      BY <1>1, <1>2, <2>1, <3>1
    <3>3. a = PageSize * (q + k) + 0 /\ PageSize * (q + k) \in Nat
      <4>1. PageSize * (q + k) = PageSize * q + PageSize * k
        BY <1>1, <1>2, <2>1, Distributes
      <4> QED BY <1>2, <2>1, <4>1
    <3>4. q + k \in Nat /\ 0 \in Nat /\ 0 < PageSize
      BY <1>1, <1>2, <2>1
    <3>5. (PageSize * (q + k) + 0) \div PageSize = q + k
      BY <1>1, <3>4, Division
    <3>6. PageOf(a) = (q + k) * PageSize
      BY <3>3, <3>5 DEF PageOf
    <3>7. (q + k) * PageSize = PageSize * (q + k)
      BY <1>1, <3>4, Distributes
    <3> QED BY <3>2, <3>3, <3>6, <3>7
  <2> QED BY <2>2, <2>3
<1>8. PagesFromTo(s, e) = Row(PageSize * q, n + 1)
  <2> DEFINE page(k) == PageSize * q + PageSize * k
  <2>1. /\ \A a \in s .. e : \E k \in 0 .. n : PageOf(a) = page(k)
        /\ \A k \in 0 .. n : \E a \in s .. e : PageOf(a) = page(k)
    BY <1>6, <1>7
  <2>2. 0 .. (n + 1) - 1 = 0 .. n
    BY <1>4
  <2>3. Row(PageSize * q, n + 1) = {page(k) : k \in 0 .. n}
    BY <2>2, Zenon DEF Row
  <2> HIDE DEF page
  <2>4. {PageOf(a) : a \in s .. e} = {page(k) : k \in 0 .. n}
    BY <2>1
  <2> QED BY <2>3, <2>4 DEF PagesFromTo
<1> QED BY <1>2, <1>4, <1>5, <1>8

\* The pages a call advises for a bundle: in a row from the page of the start on,
\* as many as reach the end or MaxPages of them.
LEMMA PagesAdvised ==
    ASSUME NEW b \in Bundle, b.start < b.end,
           NEW q, q = b.start \div PageSize,
           NEW n, n = (b.end - PageSize * q) \div PageSize,
           NEW kept, kept = IF n + 1 > MaxPages THEN MaxPages ELSE n + 1
    PROVE  Range(Pages(b)) = Row(PageSize * q, kept)
<1>1. PageSize \in Nat \ {0} /\ AddrSpace \in Nat \ {0} /\ MaxPages \in Nat
  BY ByNameAssumption
<1>2. b.start \in Nat /\ b.end \in Nat /\ b.end < AddrSpace
  BY <1>1 DEF Bundle
<1> DEFINE first == PageSize * q
           page(k) == first + PageSize * k
<1>3. /\ q \in Nat /\ n \in Nat /\ first \in Nat
      /\ \A k \in 0 .. n : page(k) \in Nat /\ page(k) <= b.end
  <2>1. /\ q \in Nat /\ n \in Nat /\ PageSize * q \in Nat
        /\ \A k \in 0 .. n : /\ PageSize * k \in Nat
                             /\ PageSize * q + PageSize * k <= b.end
    BY <1>2, PagesBetween
  <2> HIDE DEF first
  <2>2. first = PageSize * q
    BY DEF first
  <2>3. ASSUME NEW k \in 0 .. n PROVE page(k) \in Nat /\ page(k) <= b.end
    <3>1. PageSize * k \in Nat /\ first \in Nat /\ first + PageSize * k <= b.end
      BY <2>1, <2>2
    <3> QED BY <3>1
  <2> HIDE DEF page
  <2> QED BY <2>1, <2>2, <2>3
<1>4. kept \in Nat /\ \A k \in 0 .. kept - 1 : k \in 0 .. n
  BY <1>1, <1>3
<1>5. (b.start \div PageSize) * PageSize = first
  BY <1>1, <1>3, Distributes
<1>6. Pages(b) = [x \in 1 .. kept |-> (first + (x - 1) * PageSize) % AddrSpace]
  <2>1. ~(b.end <= b.start)
    BY <1>2
  <2>2. n = (b.end - first) \div PageSize
    OBVIOUS
  <2> HIDE DEF first
  <2> QED BY <1>5, <2>1, <2>2 DEF Pages
<1>7. ASSUME NEW x \in 1 .. kept
      PROVE  Pages(b)[x] = page(x - 1) /\ x - 1 \in 0 .. kept - 1
  <2>1. x - 1 \in 0 .. kept - 1 /\ x - 1 \in Nat
    BY <1>4
  <2>2. page(x - 1) \in Nat /\ page(x - 1) < AddrSpace
    <3>1. page(x - 1) \in Nat /\ page(x - 1) <= b.end
      BY <1>3, <1>4, <2>1
    <3> HIDE DEF page
    <3> QED BY <1>1, <1>2, <3>1
  <2>3. page(x - 1) % AddrSpace = page(x - 1)
    <3> HIDE DEF page
    <3> QED BY <1>1, <2>2
  <2>4. first + (x - 1) * PageSize = page(x - 1)
    <3>1. (x - 1) * PageSize = PageSize * (x - 1)
      BY <1>1, <2>1, Distributes
    <3> QED BY <3>1
  <2>5. Pages(b)[x] = (first + (x - 1) * PageSize) % AddrSpace
    <3> HIDE DEF first
    <3> QED BY <1>6
  <2> HIDE DEF page, first
  <2> QED BY <2>1, <2>3, <2>4, <2>5
<1>8. DOMAIN Pages(b) = 1 .. kept
  BY <1>6
<1>9. ASSUME NEW k \in 0 .. kept - 1
      PROVE  \E x \in 1 .. kept : Pages(b)[x] = page(k)
  <2>1. k + 1 \in 1 .. kept /\ (k + 1) - 1 = k
    BY <1>4
  <2> HIDE DEF page
  <2>2. Pages(b)[k + 1] = page((k + 1) - 1)
    BY <1>7, <2>1
  <2> QED BY <2>1, <2>2
<1>10. Row(PageSize * q, kept) = {page(k) : k \in 0 .. kept - 1}
  BY Zenon DEF Row
<1> HIDE DEF page
<1>11. Range(Pages(b)) = {Pages(b)[x] : x \in 1 .. kept}
  BY <1>8 DEF Range
<1>12. \A k \in 0 .. kept - 1 : page(k) \in Range(Pages(b))
  BY <1>9, <1>11
<1>13. \A x \in 1 .. kept : Pages(b)[x] \in {page(k) : k \in 0 .. kept - 1}
  BY <1>7
<1> QED BY <1>10, <1>11, <1>12, <1>13

\* What the property says of the pages of one bundle.
LEMMA PagesAreCovered ==
    ASSUME NEW b \in Bundle, b.start < b.end
    PROVE  LET covered == PagesFromTo(b.start, b.end)
               pages   == Range(Pages(b))
           IN  /\ pages \subseteq covered
               /\ Cardinality(pages) = Min({MaxPages, Cardinality(covered)})
               /\ \A x \in pages, y \in covered \ pages : x < y
<1> DEFINE covered == PagesFromTo(b.start, b.end)
           pages == Range(Pages(b))
           q == b.start \div PageSize
           first == PageSize * q
           n == (b.end - first) \div PageSize
           kept == IF n + 1 > MaxPages THEN MaxPages ELSE n + 1
<1>1. b.start \in Nat /\ b.end \in Nat /\ MaxPages \in Nat
  BY ByNameAssumption DEF Bundle
<1>2. n \in Nat /\ first \in Nat /\ covered = Row(first, n + 1)
  BY <1>1, PagesBetween
<1>3. pages = Row(first, kept)
  BY PagesAdvised, Zenon
<1> HIDE DEF n, first, covered, pages
<1>4. kept \in Nat /\ n + 1 \in Nat /\ kept <= n + 1
  BY <1>1, <1>2
<1>5. Cardinality(pages) = kept /\ Cardinality(covered) = n + 1
  BY <1>2, <1>3, <1>4, RowSize
<1>6. Min({MaxPages, n + 1}) = kept
  <2>1. /\ {MaxPages, n + 1} \in SUBSET Nat /\ kept \in {MaxPages, n + 1}
        /\ \A y \in {MaxPages, n + 1} : kept <= y
    BY <1>1, <1>2
  <2> HIDE DEF kept
  <2> QED BY <2>1, MinIs
<1> HIDE DEF kept
<1>7. /\ pages \subseteq covered
      /\ \A x \in pages, y \in covered \ pages : x < y
  BY <1>2, <1>3, <1>4, RowGoesOn
<1> QED BY <1>5, <1>6, <1>7, Zenon DEF covered, pages

\* The functions with the name last asked for.
Own == {i \in Functions : file[i].value = last.name}

LEMMA PagesOfName ==
    ASSUME ReplayInv, phase = "ready", last # NoCall, Complete
    PROVE  LET i       == Min(Own)
               covered == PagesFromTo(Given("start_pc", i), Given("end_pc", i))
               pages   == Range(last.pages)
           IN  IF \/ Own = {}
                  \/ Before(i) >= MAX_BUNDLES
                  \/ Given("end_pc", i) <= Given("start_pc", i)
               THEN pages = {}
               ELSE /\ pages \subseteq covered
                    /\ Cardinality(pages) = Min({MaxPages, Cardinality(covered)})
                    /\ \A a \in pages, b \in covered \ pages : a < b
<1> DEFINE i       == Min(Own)
           covered == PagesFromTo(Given("start_pc", i), Given("end_pc", i))
           pages   == Range(last.pages)
<1> DEFINE f == FindBundle(last.name)
<1>1. TypeOK /\ LoadInv
  BY DEF ReplayInv, TypeInv
<1>2. last.pages = IF f = 0 THEN <<>> ELSE Pages(bundles[f])
  BY DEF ReplayInv, LastInv
<1>3. last.pages = <<>> => pages = {}
  BY DEF Range
<1>4. /\ Own = {} => f = 0
      /\ Own # {} => /\ i \in Functions
                     /\ Before(i) >= MAX_BUNDLES => f = 0
                     /\ Before(i) < MAX_BUNDLES => /\ f # 0
                                                   /\ f \in DOMAIN bundles
                                                   /\ bundles[f] = BundleAt(i)
  BY <1>1, BundleOfName, Zenon DEF Own
<1> HIDE DEF f, i
<1>5. CASE Own = {} \/ Before(i) >= MAX_BUNDLES
  <2>1. pages = {}
    BY <1>2, <1>3, <1>4, <1>5
  <2> QED BY <1>5, <2>1 DEF i
<1>6. CASE ~(Own = {} \/ Before(i) >= MAX_BUNDLES)
  <2>1. i \in Functions /\ Before(i) \in Nat /\ MAX_BUNDLES \in Nat
    BY <1>1, <1>4, <1>6, BeforeType, ByNameAssumption
  <2>2. Before(i) < MAX_BUNDLES
    BY <1>6, <2>1
  <2>3. f # 0 /\ f \in DOMAIN bundles /\ bundles[f] = BundleAt(i)
    BY <1>4, <1>6, <2>2
  <2>4. /\ Number("start_pc", i + 1) = Given("start_pc", i)
        /\ Number("end_pc", i + 1) = Given("end_pc", i)
    BY <1>1, <2>1, EntryGives DEF Complete
  <2> DEFINE b == bundles[f]
  <2>5. b \in Bundle /\ b.start = Given("start_pc", i) /\ b.end = Given("end_pc", i)
    <3>1. bundles \in Seq(Bundle)
      BY <1>1 DEF TypeOK
    <3> QED BY <2>3, <2>4, <3>1 DEF BundleAt
  <2>6. last.pages = Pages(b)
    BY <1>2, <2>3
  <2>7. b.start \in Nat /\ b.end \in Nat
    BY <2>5, ByNameAssumption DEF Bundle
  <2> HIDE DEF b
  <2>8. CASE b.end <= b.start
    <3>1. Pages(b) = <<>>
      BY <2>8 DEF Pages
    <3>2. pages = {}
      BY <1>3, <2>6, <3>1
    <3> QED BY <2>5, <2>8, <3>2 DEF i
  <2>9. CASE ~(b.end <= b.start)
    <3>1. b.start < b.end
      BY <2>7, <2>9
    <3>2. covered = PagesFromTo(b.start, b.end) /\ pages = Range(Pages(b))
      BY <2>5, <2>6
    <3>3. LET c == PagesFromTo(b.start, b.end)
              g == Range(Pages(b))
          IN  /\ g \subseteq c
              /\ Cardinality(g) = Min({MaxPages, Cardinality(c)})
              /\ \A x \in g, y \in c \ g : x < y
      BY <2>5, <3>1, PagesAreCovered, Zenon
    <3>4. /\ pages \subseteq covered
          /\ Cardinality(pages) = Min({MaxPages, Cardinality(covered)})
          /\ \A x \in pages, y \in covered \ pages : x < y
      <4> HIDE DEF covered, pages
      <4> QED BY <3>2, <3>3
    <3>5. ~(\/ Own = {}
            \/ Before(i) >= MAX_BUNDLES
            \/ Given("end_pc", i) <= Given("start_pc", i))
      BY <1>6, <2>5, <2>9
    <3> HIDE DEF covered, pages
    <3> QED BY <3>4, <3>5, Zenon DEF i, covered, pages
  <2> QED BY <2>8, <2>9
<1> QED BY <1>5, <1>6

\* A file whose entries are complete and name their function first: a call advises
\* the pages of the first function with the name, the lowest MaxPages of them at
\* most, and none when the function has no place in the array or is empty.
THEOREM FunctionsPagesAreAdvised == Spec => []AdvisesThePagesOfTheFunction
<1>1. ReplayInv => AdvisesThePagesOfTheFunction
  <2> SUFFICES ASSUME ReplayInv, phase = "ready" /\ last # NoCall /\ Complete
               PROVE  LET own     == {i \in Functions : file[i].value = last.name}
                          i       == Min(own)
                          covered == {PageOf(a) : a \in Given("start_pc", i) .. Given("end_pc", i)}
                          pages   == {last.pages[n] : n \in DOMAIN last.pages}
                      IN  IF \/ own = {}
                             \/ Before(i) >= MAX_BUNDLES
                             \/ Given("end_pc", i) <= Given("start_pc", i)
                          THEN pages = {}
                          ELSE /\ pages \subseteq covered
                               /\ Cardinality(pages) = Min({MaxPages, Cardinality(covered)})
                               /\ \A a \in pages, b \in covered \ pages : a < b
    BY Zenon DEF AdvisesThePagesOfTheFunction
  <2> QED BY PagesOfName, Zenon DEF Own, PagesFromTo, Range
<1> QED BY <1>1, ReplayAlways, PTL

=============================================================================
