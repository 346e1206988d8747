--------------------------- MODULE InventoryProofs --------------------------
(***************************************************************************)
(* What the two components that fold over data compute, for inputs of any  *)
(* size: what an import adds to the targets, and what a scan's output adds *)
(* to the host inventory.  The library's induction theorems take a         *)
(* predicate as a parameter; Least does without, and the lemmas under it   *)
(* unfold the folds one element at a time.                                 *)
(***************************************************************************)
EXTENDS HostInventory, Targets, FiniteSetTheorems, WellFoundedInduction, TLAPS

-----------------------------------------------------------------------------
(* Induction.                                                              *)

(* Numbers, if there are any, have a least one.                            *)
LEMMA Least ==
    ASSUME NEW S \in SUBSET Nat, S # {}
    PROVE  \E n \in S : \A m \in S : n <= m
<1> DEFINE R == OpToRel(<, Nat)
<1>1. \A m, n \in Nat : <<m, n>> \in R <=> m < n
  BY DEF OpToRel
<1>2. IsWellFoundedOn(R, Nat)
  BY NatLessThanWellFounded
<1> HIDE DEF R
<1>3. PICK n \in S : \A m \in S : <<m, n>> \notin R
  BY <1>2, WFMin
<1>4. \A m \in S : ~(m < n)
  BY <1>1, <1>3
<1> QED BY <1>4

(* A set of numbers that has 0 and, up to n, the next number of each, has  *)
(* n.                                                                      *)
LEMMA UpTo ==
    ASSUME NEW n \in Nat, NEW S, 0 \in S, \A k \in 0 .. n - 1 : k \in S => k + 1 \in S
    PROVE  n \in S
<1> SUFFICES ASSUME n \notin S PROVE FALSE
  OBVIOUS
<1> DEFINE T == {k \in 0 .. n : k \notin S}
<1>1. PICK k \in T : \A m \in T : k <= m
  <2>1. n \in T /\ T \in SUBSET Nat
    OBVIOUS
  <2> QED BY <2>1, Least
<1>2. k \in 1 .. n /\ k \notin S
  BY <1>1
<1>3. k - 1 \in 0 .. n - 1 /\ k - 1 \notin T
  BY <1>1, <1>2
<1>4. k - 1 \in S
  BY <1>3
<1> QED BY <1>2, <1>3, <1>4

(* The greatest of some numbers up to k is k when k is one of them.        *)
LEMMA Greatest ==
    ASSUME NEW k \in Nat, NEW s \in SUBSET (1 .. k), k \in s
    PROVE  Max(s) = k
<1>1. \E x \in s : \A y \in s : x >= y
  OBVIOUS
<1>2. Max(s) \in s /\ \A y \in s : Max(s) >= y
  BY <1>1 DEF Max
<1>3. \A m \in 1 .. k : m >= k => m = k
  OBVIOUS
<1> QED BY <1>2, <1>3

(* The subsets of 1 .. k + 1 are those of 1 .. k and those with k + 1 in   *)
(* them.                                                                   *)
LEMMA Below ==
    ASSUME NEW k \in Nat, NEW s \in SUBSET (1 .. (k + 1))
    PROVE  /\ k + 1 \in s => Max(s) = k + 1 /\ s # {} /\ s \ {k + 1} \in SUBSET (1 .. k)
           /\ k + 1 \notin s => s \in SUBSET (1 .. k) /\ s \ {Max(s)} \in SUBSET (1 .. k)
<1>1. CASE k + 1 \in s
  BY <1>1, Greatest
<1>2. CASE k + 1 \notin s
  <2>1. s \in SUBSET (1 .. k)
    BY <1>2
  <2> QED BY <1>2, <2>1
<1> QED BY <1>1, <1>2

(* The numbers up to k, without the greatest, are those up to k - 1.       *)
LEMMA Counting ==
    ASSUME NEW n \in Nat, NEW k \in 1 .. n
    PROVE  /\ Max(1 .. k) = k /\ (1 .. k) \ {k} = 1 .. (k - 1) /\ 1 .. k # {}
           /\ 1 .. k \in SUBSET (1 .. n)
<1>1. Max(1 .. k) = k
  BY Greatest
<1>2. (1 .. k) \ {k} = 1 .. (k - 1)
  OBVIOUS
<1>3. k \in 1 .. k /\ 1 .. k \subseteq 1 .. n
  OBVIOUS
<1> QED BY <1>1, <1>2, <1>3

-----------------------------------------------------------------------------
(* Targets.                                                                *)

(* An import is made row by row.                                           *)
LEMMA ImportSteps ==
    ASSUME NEW known, NEW file, NEW n \in Nat, DOMAIN file = 1 .. n
    PROVE  \E acc : /\ acc[0] = <<>> /\ acc[n] = Imported(known, file)
                    /\ \A k \in 1 .. n : acc[k] = ImportRow(known, acc[k - 1], file[k])
<1> DEFINE From(f, s) == IF s = {} THEN <<>> ELSE ImportRow(known, f[s \ {Max(s)}], file[Max(s)])
           Has(k) == \E f : f = [s \in SUBSET (1 .. k) |-> From(f, s)]
<1>1. Has(0)
  <2>1. [s \in SUBSET (1 .. 0) |-> <<>>]
        = [s \in SUBSET (1 .. 0) |-> From([t \in SUBSET (1 .. 0) |-> <<>>], s)]
    OBVIOUS
  <2> QED BY <2>1
<1>2. ASSUME NEW k \in Nat, Has(k) PROVE Has(k + 1)
  <2>1. PICK f : f = [s \in SUBSET (1 .. k) |-> From(f, s)]
    BY <1>2
  <2> DEFINE g == [s \in SUBSET (1 .. (k + 1)) |->
                      IF k + 1 \in s THEN ImportRow(known, f[s \ {k + 1}], file[k + 1]) ELSE f[s]]
  <2>2. \A s \in SUBSET (1 .. k) : g[s] = f[s]
    OBVIOUS
  <2>3. ASSUME NEW s \in SUBSET (1 .. (k + 1)) PROVE g[s] = From(g, s)
    <3>1. CASE k + 1 \in s
      BY <2>2, <3>1, Below
    <3>2. CASE k + 1 \notin s
      <4>1. s \in SUBSET (1 .. k) /\ s \ {Max(s)} \in SUBSET (1 .. k)
        BY <3>2, Below
      <4>2. g[s \ {Max(s)}] = f[s \ {Max(s)}] /\ g[s] = f[s]
        BY <2>2, <4>1
      <4>3. f[s] = From(f, s)
        BY <2>1, <4>1
      <4> QED BY <4>2, <4>3
    <3> QED BY <3>1, <3>2
  <2>4. g = [s \in SUBSET (1 .. (k + 1)) |-> From(g, s)]
    BY <2>3
  <2> QED BY <2>4
<1>3. Has(n)
  <2> DEFINE S == {k \in Nat : Has(k)}
  <2> HIDE DEF Has
  <2>1. 0 \in S /\ \A k \in 0 .. n - 1 : k \in S => k + 1 \in S
    BY <1>1, <1>2
  <2>2. n \in S
    <3> HIDE DEF S
    <3> QED BY <2>1, UpTo
  <2> QED BY <2>2
<1> DEFINE it[s \in SUBSET (1 .. n)] ==
               IF s = {} THEN <<>> ELSE ImportRow(known, it[s \ {Max(s)}], file[Max(s)])
<1>4. it = [s \in SUBSET (1 .. n) |-> From(it, s)]
  BY <1>3
<1>5. Imported(known, file) = it[1 .. n]
  BY DEF Imported, FoldLeft, MapThenFoldSet
<1> HIDE DEF it
<1>6. it[{}] = <<>>
  BY <1>4
<1>7. ASSUME NEW k \in 1 .. n
      PROVE  it[1 .. k] = ImportRow(known, it[1 .. (k - 1)], file[k])
  <2>1. /\ Max(1 .. k) = k /\ (1 .. k) \ {k} = 1 .. (k - 1) /\ 1 .. k # {}
        /\ 1 .. k \in SUBSET (1 .. n)
    BY Counting
  <2> QED BY <1>4, <2>1
<1> DEFINE acc == [k \in 0 .. n |-> it[1 .. k]]
<1>8. acc[0] = <<>> /\ acc[n] = Imported(known, file)
  BY <1>5, <1>6
<1>9. \A k \in 1 .. n : acc[k] = ImportRow(known, acc[k - 1], file[k])
  BY <1>7
<1> QED BY <1>8, <1>9

(* Rows in order, no value twice and none that was known.                  *)
Fresh(known, found) ==
    /\ Len(found) \in Nat /\ DOMAIN found = 1 .. Len(found)
    /\ DistinctValues(found) /\ Values(found) \cap known = {}

(* What an import finds is fresh.                                          *)
LEMMA ImportsFresh ==
    ASSUME NEW known, NEW file, file \in Seq(ToSet(file))
    PROVE  Fresh(known, Imported(known, file))
<1> DEFINE n == Len(file)
<1>1. n \in Nat /\ DOMAIN file = 1 .. n
  OBVIOUS
<1> HIDE DEF n
<1>2. PICK acc : /\ acc[0] = <<>> /\ acc[n] = Imported(known, file)
                 /\ \A k \in 1 .. n : acc[k] = ImportRow(known, acc[k - 1], file[k])
  BY <1>1, ImportSteps
<1>3. Fresh(known, acc[0])
  BY <1>2 DEF Fresh, DistinctValues, Values
<1>4. ASSUME NEW k \in 0 .. n - 1, Fresh(known, acc[k]) PROVE Fresh(known, acc[k + 1])
  <2> DEFINE found == acc[k]
             value == Normal(RowType(file[k + 1]), file[k + 1].text)
             row == NewTarget(RowType(file[k + 1]), value, "USER")
  <2>1. acc[k + 1] = ImportRow(known, found, file[k + 1])
    BY <1>1, <1>2
  <2>2. \/ acc[k + 1] = found
        \/ value \notin known \cup Values(found) /\ acc[k + 1] = Append(found, row)
    BY <2>1 DEF ImportRow
  <2>3. row.value = value
    BY DEF NewTarget
  <2> HIDE DEF found, value, row
  <2>4. ASSUME value \notin known \cup Values(found), Fresh(known, found)
        PROVE  Fresh(known, Append(found, row))
    <3>1. /\ Len(Append(found, row)) = Len(found) + 1 /\ DOMAIN Append(found, row) = 1 .. Len(found) + 1
          /\ \A i \in 1 .. Len(found) : Append(found, row)[i] = found[i]
          /\ Append(found, row)[Len(found) + 1] = row
      BY <2>4 DEF Fresh
    <3> QED BY <2>3, <2>4, <3>1 DEF Fresh, DistinctValues, Values
  <2> QED BY <1>4, <2>2, <2>4 DEF found
<1>5. Fresh(known, acc[n])
  <2> DEFINE S == {k \in 0 .. n : Fresh(known, acc[k])}
  <2>1. 0 \in S /\ \A k \in 0 .. n - 1 : k \in S => k + 1 \in S
    BY <1>1, <1>3, <1>4
  <2>2. n \in S
    <3> HIDE DEF S
    <3> QED BY <1>1, <2>1, UpTo
  <2> QED BY <2>2
<1> QED BY <1>2, <1>5

(* The index holds, and a request has what it will write in order; what an *)
(* import found is new to what it read.                                    *)
AskedKnows(u) ==
    /\ asked[u].op \in {"none", "answered", "insert", "update", "delete", "import"}
    /\ Len(asked[u].new) \in Nat /\ DOMAIN asked[u].new = 1 .. Len(asked[u].new)
    /\ asked[u].op = "import" => Fresh(asked[u].known, asked[u].new)

TargetInv ==
    /\ created \in Nat /\ DOMAIN targets \subseteq 1 .. created /\ DistinctValues(targets)
    /\ targets = [i \in DOMAIN targets |-> targets[i]] /\ DOMAIN asked = Users
    /\ \A u \in Users : AskedKnows(u)

(* A request that reads.                                                   *)
LEMMA ReadsInv ==
    ASSUME TargetInv, NEW u \in Users, UserReads(u)
    PROVE  TargetInv' /\ asked[u].op = "none" /\ \A v \in Users : v # u => asked'[v] = asked[v]
<1>1. PICK op, id, new :
          /\ op \in {"insert", "update", "delete", "import"}
          /\ Asks(u, op, id, new) /\ Len(new) \in Nat /\ DOMAIN new = 1 .. Len(new)
          /\ op = "import" => Fresh(Values(targets), new)
  <2>0. ASSUME NEW row PROVE Len(<<row>>) = 1 /\ DOMAIN <<row>> = 1 .. 1
    OBVIOUS
  <2>1. CASE AsksToCreate(u) \/ AsksToUpdate(u) \/ AsksToDuplicate(u)
    <3>1. \E op \in {"insert", "update"} : \E id, row : Asks(u, op, id, <<row>>)
      <4>1. CASE AsksToCreate(u)
        BY <4>1 DEF AsksToCreate
      <4>2. CASE AsksToUpdate(u)
        BY <4>2, Zenon DEF AsksToUpdate
      <4>3. CASE AsksToDuplicate(u)
        BY <4>3, Zenon DEF AsksToDuplicate
      <4> QED BY <2>1, <4>1, <4>2, <4>3
    <3> QED BY <2>0, <3>1
  <2>2. CASE AsksToDelete(u)
    BY <2>2 DEF AsksToDelete
  <2>3. CASE AsksToImport(u)
    <3>1. PICK f \in Files : Asks(u, "import", 0, Imported(Values(targets), f))
      BY <2>3 DEF AsksToImport
    <3>2. Fresh(Values(targets), Imported(Values(targets), f))
      BY ImportsFresh, TargetAssumption DEF TargetAssumption
    <3> QED BY <3>1, <3>2 DEF Fresh
  <2> QED BY <2>1, <2>2, <2>3 DEF UserReads
<1>2. UNCHANGED <<targets, created>> /\ asked[u].op = "none"
  BY DEF UserReads, NotAsked
<1>3. /\ DOMAIN asked' = Users /\ \A v \in Users : v # u => asked'[v] = asked[v]
      /\ asked'[u].op = op /\ asked'[u].new = new /\ asked'[u].known = Values(targets)
  BY <1>1 DEF Asks, TargetInv
<1>4. \A v \in Users : AskedKnows(v)'
  BY <1>1, <1>3 DEF TargetInv, AskedKnows
<1> QED BY <1>2, <1>3, <1>4 DEF TargetInv, DistinctValues

(* Rows added, and where.                                                  *)
LEMMA WithRows ==
    ASSUME TargetInv, NEW new, Len(new) \in Nat, DOMAIN new = 1 .. Len(new)
    PROVE  /\ DOMAIN With(new) = DOMAIN targets \cup (created + 1 .. created + Len(new))
           /\ DOMAIN With(new) \subseteq 1 .. created + Len(new)
           /\ With(new) = [i \in DOMAIN With(new) |-> With(new)[i]]
           /\ \A i \in DOMAIN targets : With(new)[i] = targets[i]
           /\ \A i \in 1 .. Len(new) : With(new)[created + i] = new[i]
           /\ Values(With(new)) = Values(targets) \cup Values(new)
<1>1. /\ DOMAIN With(new) = DOMAIN targets \cup (created + 1 .. created + Len(new))
      /\ With(new) = [i \in DOMAIN With(new) |-> With(new)[i]]
      /\ \A i \in DOMAIN targets : With(new)[i] = targets[i]
  BY DEF With
<1>2. DOMAIN With(new) \subseteq 1 .. created + Len(new)
  BY <1>1 DEF TargetInv
<1>3. ASSUME NEW i \in 1 .. Len(new)
      PROVE  created + i \in created + 1 .. created + Len(new) /\ With(new)[created + i] = new[i]
  <2>1. created + i \in created + 1 .. created + Len(new) /\ created + i \notin DOMAIN targets
        /\ (created + i) - created = i
    BY DEF TargetInv
  <2> QED BY <2>1 DEF With
<1>4. \A j \in created + 1 .. created + Len(new) : j - created \in 1 .. Len(new) /\ created + (j - created) = j
  BY DEF TargetInv
<1>5. Values(With(new)) = Values(targets) \cup Values(new)
  <2>1. Values(With(new)) \subseteq Values(targets) \cup Values(new)
    BY <1>1, <1>3, <1>4 DEF Values
  <2>2. Values(targets) \cup Values(new) \subseteq Values(With(new))
    BY <1>1, <1>3 DEF Values
  <2> QED BY <2>1, <2>2
<1> QED BY <1>1, <1>2, <1>3, <1>5

(* No value twice among rows to add that are new to the targets.           *)
LEMMA WithFresh ==
    ASSUME TargetInv, NEW new, Len(new) \in Nat, DOMAIN new = 1 .. Len(new)
    PROVE  DistinctValues(With(new)) <=> DistinctValues(new) /\ Values(new) \cap Values(targets) = {}
<1> DEFINE w == With(new)
<1>1. /\ DOMAIN w = DOMAIN targets \cup (created + 1 .. created + Len(new))
      /\ \A i \in DOMAIN targets : w[i] = targets[i]
      /\ \A i \in 1 .. Len(new) : w[created + i] = new[i]
  BY WithRows
<1> HIDE DEF w
<1>2. created \in Nat /\ DOMAIN targets \subseteq 1 .. created /\ DistinctValues(targets)
  BY DEF TargetInv
<1>3. ASSUME NEW i \in 1 .. Len(new)
      PROVE  created + i \in DOMAIN w /\ created + i \notin DOMAIN targets
  BY <1>1, <1>2
<1>4. ASSUME NEW k \in DOMAIN w
      PROVE  \/ k \in DOMAIN targets /\ w[k] = targets[k]
             \/ \E i \in DOMAIN new : k = created + i /\ w[k] = new[i]
  <2>1. CASE k \in DOMAIN targets
    BY <1>1, <2>1
  <2>2. CASE k \in created + 1 .. created + Len(new)
    <3>1. k - created \in DOMAIN new /\ k = created + (k - created)
      BY <1>2, <2>2
    <3> QED BY <1>1, <3>1
  <2> QED BY <1>1, <2>1, <2>2
<1>5. ASSUME DistinctValues(w)
      PROVE  DistinctValues(new) /\ Values(new) \cap Values(targets) = {}
  <2>1. ASSUME NEW i \in DOMAIN new, NEW j \in DOMAIN new, new[i].value = new[j].value
        PROVE  i = j
    <3>1. created + i = created + j
      BY <1>1, <1>3, <1>5, <2>1 DEF DistinctValues
    <3> QED BY <1>2, <2>1, <3>1
  <2>2. ASSUME NEW i \in DOMAIN new, NEW j \in DOMAIN targets, new[i].value = targets[j].value
        PROVE  FALSE
    <3>1. created + i = j
      BY <1>1, <1>3, <1>5, <2>2 DEF DistinctValues
    <3> QED BY <1>3, <3>1
  <2> QED BY <2>1, <2>2 DEF DistinctValues, Values
<1>6. ASSUME DistinctValues(new), Values(new) \cap Values(targets) = {},
             NEW i \in DOMAIN w, NEW j \in DOMAIN w, w[i].value = w[j].value
      PROVE  i = j
  <2>1. \A k \in DOMAIN targets, l \in DOMAIN new : targets[k].value # new[l].value
    BY <1>6 DEF Values
  <2> QED BY <1>2, <1>4, <1>6, <2>1 DEF DistinctValues
<1> QED BY <1>5, <1>6 DEF DistinctValues, w

(* A request that writes.                                                  *)
LEMMA WritesInv ==
    ASSUME TargetInv, NEW u \in Users, UserWrites(u)
    PROVE  /\ TargetInv' /\ \A v \in Users : v # u => asked'[v] = asked[v]
           /\ asked[u].op = "import" =>
                 IF Values(asked[u].new) \cap Values(targets) = {}
                 THEN Values(targets') = Values(targets) \cup Values(asked[u].new)
                 ELSE targets' = targets /\ ~(Values(targets) \subseteq asked[u].known)
<1> DEFINE q == asked[u]
<1>1. /\ Len(q.new) \in Nat /\ DOMAIN q.new = 1 .. Len(q.new)
      /\ q.op = "import" => Fresh(q.known, q.new)
  BY DEF TargetInv, AskedKnows
<1>2. /\ targets' = (IF DistinctValues(After(q)) THEN After(q) ELSE targets)
      /\ created' = IF q.op \in {"insert", "import"} THEN created + Len(q.new) ELSE created
      /\ asked' = [asked EXCEPT ![u] = Answered]
  BY DEF UserWrites
<1>3. /\ DOMAIN asked' = Users /\ \A v \in Users : v # u => asked'[v] = asked[v]
      /\ asked'[u] = Answered
  BY <1>2 DEF TargetInv
<1>4. \A v \in Users : AskedKnows(v)'
  <2>1. Answered.op = "answered" /\ Answered.new = <<>>
    BY DEF Answered, NotAsked
  <2> QED BY <1>3, <2>1 DEF TargetInv, AskedKnows
<1>5. created' \in Nat /\ created' >= created
  BY <1>1, <1>2 DEF TargetInv
<1>6. DOMAIN targets' \subseteq 1 .. created' /\ targets' = [i \in DOMAIN targets' |-> targets'[i]]
  <2>1. CASE targets' = targets
    BY <1>5, <2>1 DEF TargetInv
  <2>2. CASE targets' = After(q) /\ q.op \in {"insert", "import"}
    <3>1. After(q) = With(q.new)
      BY <2>2 DEF After
    <3>2. created' = created + Len(q.new)
      BY <1>2, <2>2
    <3> HIDE DEF q
    <3> QED BY <1>1, <2>2, <3>1, <3>2, WithRows
  <2>3. CASE targets' = After(q) /\ q.op = "update"
    <3>1. After(q) = IF q.id \in DOMAIN targets
                     THEN [targets EXCEPT ![q.id] = WriteColumns(@, q)] ELSE targets
      BY <2>3 DEF After
    <3> QED BY <1>5, <2>3, <3>1 DEF TargetInv
  <2>4. CASE targets' = After(q) /\ q.op = "delete"
    <3>1. After(q) = [i \in DOMAIN targets \ {q.id} |-> targets[i]]
      BY <2>4 DEF After
    <3> QED BY <1>5, <2>4, <3>1 DEF TargetInv
  <2>5. q.op \in {"insert", "import", "update", "delete"}
    BY DEF TargetInv, AskedKnows, UserWrites
  <2> HIDE DEF q
  <2> QED BY <1>2, <2>1, <2>2, <2>3, <2>4, <2>5
<1>7. DistinctValues(targets')
  BY <1>2 DEF TargetInv
<1>8. ASSUME q.op = "import"
      PROVE  IF Values(q.new) \cap Values(targets) = {}
             THEN Values(targets') = Values(targets) \cup Values(q.new)
             ELSE targets' = targets /\ ~(Values(targets) \subseteq q.known)
  <2>1. After(q) = With(q.new)
    BY <1>8 DEF After
  <2>2. DistinctValues(q.new) /\ Values(q.new) \cap q.known = {}
    BY <1>1, <1>8 DEF Fresh
  <2>3. targets' = IF DistinctValues(With(q.new)) THEN With(q.new) ELSE targets
    BY <1>2, <2>1
  <2>4. /\ Values(With(q.new)) = Values(targets) \cup Values(q.new)
        /\ DistinctValues(With(q.new)) <=> Values(q.new) \cap Values(targets) = {}
    <3> HIDE DEF q
    <3> QED BY <1>1, <2>2, WithRows, WithFresh
  <2> HIDE DEF q
  <2> QED BY <2>2, <2>3, <2>4
<1> QED BY <1>3, <1>4, <1>5, <1>6, <1>7, <1>8 DEF TargetInv

(* The pipeline adds a target.                                             *)
LEMMA PipelineInv ==
    ASSUME TargetInv, NEW text \in Texts, PipelineAdds(text)
    PROVE  TargetInv'
<1> DEFINE new == <<NewTarget("url", text, "PIPELINE")>>
<1>1. Len(new) = 1 /\ DOMAIN new = 1 .. 1 /\ new[1].value = text
  BY DEF NewTarget
<1>2. targets' = With(new) /\ created' = created + 1 /\ UNCHANGED asked /\ text \notin Values(targets)
  BY DEF PipelineAdds, Unused
<1> HIDE DEF new
<1>3. DistinctValues(new) /\ Values(new) \cap Values(targets) = {}
  BY <1>1, <1>2 DEF DistinctValues, Values
<1>4. DistinctValues(targets')
  BY <1>1, <1>2, <1>3, WithFresh
<1>5. DOMAIN targets' \subseteq 1 .. created' /\ targets' = [i \in DOMAIN targets' |-> targets'[i]]
  <2>1. Len(new) \in Nat /\ DOMAIN new = 1 .. Len(new)
    BY <1>1
  <2>2. DOMAIN With(new) \subseteq 1 .. created + Len(new) /\ With(new) = [i \in DOMAIN With(new) |-> With(new)[i]]
    BY <2>1, WithRows
  <2> QED BY <1>1, <1>2, <2>2
<1> QED BY <1>2, <1>4, <1>5 DEF TargetInv, AskedKnows

(* The index holds, and every import waits for a write that it found to be *)
(* new, however requests and the pipeline overlap.                         *)
THEOREM TargetInvHolds == TargetSpec => []TargetInv
<1>1. TargetInit => TargetInv
  BY DEF TargetInit, TargetInv, AskedKnows, NotAsked, DistinctValues
<1>2. TargetInv /\ [TargetNext]_targetVars => TargetInv'
  <2>1. TargetInv /\ UNCHANGED targetVars => TargetInv'
    BY DEF TargetInv, targetVars, AskedKnows
  <2> QED BY <2>1, ReadsInv, WritesInv, PipelineInv DEF TargetNext
<1> QED BY <1>1, <1>2, PTL DEF TargetSpec

(* An import adds every value it found to be new, whatever its file        *)
(* repeats, or, when another request took one of them meanwhile, none: for *)
(* files of any length.                                                    *)
THEOREM ImportsAll == TargetSpec => ImportsAllUnlessRaced
<1> DEFINE Imports(u) ==
        (asked[u].op = "import" /\ asked'[u] # asked[u]) =>
            IF Values(asked[u].new) \cap Values(targets) = {}
            THEN Values(targets') = Values(targets) \cup Values(asked[u].new)
            ELSE targets' = targets /\ ~(Values(targets) \subseteq asked[u].known)
<1>1. ASSUME TargetInv, [TargetNext]_targetVars, NEW u \in Users PROVE Imports(u)
  <2>1. CASE UNCHANGED asked
    BY <2>1
  <2>2. ASSUME NEW v \in Users, UserReads(v) PROVE Imports(u)
    BY <1>1, <2>2, ReadsInv
  <2>3. ASSUME NEW v \in Users, UserWrites(v) PROVE Imports(u)
    BY <1>1, <2>3, WritesInv
  <2> QED BY <1>1, <2>1, <2>2, <2>3 DEF TargetNext, targetVars, PipelineAdds
<1>2. TargetInv /\ [TargetNext]_targetVars => [\A u \in Users : Imports(u)]_targetVars
  BY <1>1
<1> QED BY <1>2, TargetInvHolds, PTL DEF TargetSpec, ImportsAllUnlessRaced

-----------------------------------------------------------------------------
(* The rows of an output.                                                  *)

(* Sequences of rows, one after the other.                                 *)
LEMMA Flattened ==
    ASSUME NEW S, NEW seqs \in Seq(Seq(S))
    PROVE  FlattenSeq(seqs) \in Seq(S)
<1> DEFINE n == Len(seqs)
           flatten[i \in 1 .. n] == IF i = 1 THEN seqs[i] ELSE flatten[i - 1] \o seqs[i]
           Has(k) == \E f : f = [i \in 1 .. k |-> IF i = 1 THEN seqs[i] ELSE f[i - 1] \o seqs[i]]
<1>1. n \in Nat /\ \A i \in 1 .. n : seqs[i] \in Seq(S)
  OBVIOUS
<1>2. CASE n = 0
  <2>1. FlattenSeq(seqs) = seqs /\ seqs = <<>>
    BY <1>2 DEF FlattenSeq
  <2> QED BY <2>1
<1>3. CASE n # 0
  <2>1. Has(0)
    <3>1. [i \in 1 .. 0 |-> seqs[i]]
          = [i \in 1 .. 0 |-> IF i = 1 THEN seqs[i] ELSE [j \in 1 .. 0 |-> seqs[j]][i - 1] \o seqs[i]]
      OBVIOUS
    <3> QED BY <3>1
  <2>2. ASSUME NEW k \in Nat, Has(k) PROVE Has(k + 1)
    <3>1. PICK f : f = [i \in 1 .. k |-> IF i = 1 THEN seqs[i] ELSE f[i - 1] \o seqs[i]]
      BY <2>2
    <3> DEFINE g == [i \in 1 .. (k + 1) |->
                        IF i # k + 1 THEN f[i] ELSE IF i = 1 THEN seqs[i] ELSE f[k] \o seqs[i]]
    <3>2. ASSUME NEW i \in 1 .. (k + 1) PROVE g[i] = IF i = 1 THEN seqs[i] ELSE g[i - 1] \o seqs[i]
      <4>0. \A j \in 1 .. k : g[j] = f[j]
        OBVIOUS
      <4>1. CASE i \in 1 .. k
        <5>1. f[i] = IF i = 1 THEN seqs[i] ELSE f[i - 1] \o seqs[i]
          BY <3>1, <4>1
        <5>2. i # 1 => i - 1 \in 1 .. k
          BY <4>1
        <5> HIDE DEF g
        <5> QED BY <4>0, <4>1, <5>1, <5>2
      <4>2. CASE i = k + 1
        <5>1. g[i] = IF i = 1 THEN seqs[i] ELSE f[k] \o seqs[i]
          BY <4>2
        <5>2. i # 1 => k \in 1 .. k /\ i - 1 = k
          BY <4>2
        <5> HIDE DEF g
        <5> QED BY <4>0, <5>1, <5>2
      <4> QED BY <4>1, <4>2
    <3>3. g = [i \in 1 .. (k + 1) |-> IF i = 1 THEN seqs[i] ELSE g[i - 1] \o seqs[i]]
      BY <3>2
    <3> QED BY <3>3
  <2>3. Has(n)
    <3> DEFINE T == {k \in Nat : Has(k)}
    <3> HIDE DEF Has
    <3>1. 0 \in T /\ \A k \in 0 .. n - 1 : k \in T => k + 1 \in T
      BY <2>1, <2>2
    <3>2. n \in T
      <4> HIDE DEF T, n
      <4> QED BY <1>1, <3>1, UpTo
    <3> QED BY <3>2
  <2>4. flatten = [i \in 1 .. n |-> IF i = 1 THEN seqs[i] ELSE flatten[i - 1] \o seqs[i]]
    BY <2>3
  <2>5. FlattenSeq(seqs) = flatten[n]
    BY <1>3 DEF FlattenSeq
  <2> HIDE DEF flatten, n
  <2> DEFINE T == {k \in 0 .. n : k # 0 => flatten[k] \in Seq(S)}
  <2>6. ASSUME NEW k \in 0 .. n - 1, k # 0 => flatten[k] \in Seq(S)
        PROVE  flatten[k + 1] \in Seq(S)
    <3>1. flatten[k + 1] = IF k + 1 = 1 THEN seqs[k + 1] ELSE flatten[k] \o seqs[k + 1]
      <4>1. k + 1 \in 1 .. n /\ (k + 1) - 1 = k
        BY <1>1
      <4> QED BY <2>4, <4>1
    <3>2. seqs[k + 1] \in Seq(S)
      BY <1>1
    <3> QED BY <2>6, <3>1, <3>2
  <2>7. 0 \in T /\ \A k \in 0 .. n - 1 : k \in T => k + 1 \in T
    BY <1>1, <2>6
  <2>8. n \in T
    <3> HIDE DEF T
    <3> QED BY <1>1, <2>7, UpTo
  <2> QED BY <1>3, <2>5, <2>8
<1> QED BY <1>2, <1>3

Kinds == {"host", "interface", "service", "technology", "os", "observation", "orphan"}

(* The rows of an output are a sequence of rows of these kinds.            *)
LEMMA RowsAreRows ==
    ASSUME NEW out, IsOutput(out)
    PROVE  /\ RowsOf(out) \in Seq(ToSet(RowsOf(out)))
           /\ \A row \in ToSet(RowsOf(out)) : row[1] \in Kinds
<1> DEFINE fp(h) == HostFingerprint(h)
           Under(h) == {Row("host", fp(h)), Row("interface", <<fp(h), h.ip>>)}
                       \cup {Row("service", <<fp(h), s.port>>) : s \in ToSet(h.services)}
                       \cup {Row("technology", <<fp(h), s.port, s.product>>) : s \in ToSet(h.services)}
                       \cup {Row("os", <<fp(h), o>>) : o \in ToSet(h.os)}
           S == (UNION {Under(h) : h \in ToSet(out.hosts)})
                \cup {ObservationRow(out, o) : o \in ToSet(out.observations)}
<1>1. ASSUME NEW h \in ToSet(out.hosts) PROVE HostRows(h) \in Seq(S)
  <2>1. IsSeq(h.services) /\ IsSeq(h.os) /\ Under(h) \subseteq S
    <3>1. IsSeq(h.services) /\ IsSeq(h.os)
      BY <1>1 DEF IsOutput
    <3> HIDE DEF Under
    <3> QED BY <1>1, <3>1
  <2> DEFINE of(s) == <<Row("service", <<fp(h), s.port>>)>>
                      \o IF s.product = None THEN <<>>
                         ELSE <<Row("technology", <<fp(h), s.port, s.product>>)>>
             services == [i \in DOMAIN h.services |-> of(h.services[i])]
             systems == [i \in DOMAIN h.os |-> Row("os", <<fp(h), h.os[i]>>)]
             address == IF h.ip = None THEN <<>> ELSE <<Row("interface", <<fp(h), h.ip>>)>>
  <2>2. ASSUME NEW s \in ToSet(h.services) PROVE of(s) \in Seq(Under(h))
    <3>1. Row("service", <<fp(h), s.port>>) \in Under(h)
          /\ Row("technology", <<fp(h), s.port, s.product>>) \in Under(h)
      BY <2>2
    <3> HIDE DEF Under
    <3> QED BY <3>1
  <2>3. services \in Seq(Seq(Under(h)))
    <3>1. Len(h.services) \in Nat /\ DOMAIN h.services = 1 .. Len(h.services)
          /\ \A i \in DOMAIN h.services : h.services[i] \in ToSet(h.services)
      BY <2>1 DEF IsSeq, ToSet
    <3> HIDE DEF Under, of
    <3> QED BY <2>2, <3>1
  <2>4. systems \in Seq(Under(h))
    <3>1. Len(h.os) \in Nat /\ DOMAIN h.os = 1 .. Len(h.os)
          /\ \A i \in DOMAIN h.os : h.os[i] \in ToSet(h.os)
      BY <2>1 DEF IsSeq, ToSet
    <3>2. \A i \in DOMAIN h.os : Row("os", <<fp(h), h.os[i]>>) \in Under(h)
      BY <3>1
    <3> HIDE DEF Under
    <3> QED BY <3>1, <3>2
  <2>5. address \in Seq(Under(h)) /\ <<Row("host", fp(h))>> \in Seq(Under(h))
    <3>1. Row("interface", <<fp(h), h.ip>>) \in Under(h) /\ Row("host", fp(h)) \in Under(h)
      OBVIOUS
    <3> HIDE DEF Under
    <3> QED BY <3>1
  <2>6. HostRows(h) = IF fp(h) = <<>> THEN <<>>
                      ELSE <<Row("host", fp(h))>> \o address \o FlattenSeq(services) \o systems
    BY DEF HostRows
  <2>7. HostRows(h) \in Seq(Under(h))
    <3>1. FlattenSeq(services) \in Seq(Under(h))
      BY <2>3, Flattened
    <3> HIDE DEF Under, services, systems, address, fp
    <3> QED BY <2>4, <2>5, <2>6, <3>1
  <2> HIDE DEF Under, S
  <2> QED BY <2>1, <2>7
<1>2. \A row \in S : row[1] \in Kinds
  BY DEF Row, ObservationRow, Kinds
<1>3. RowsOf(out) \in Seq(S)
  <2>1. /\ Len(out.hosts) \in Nat /\ DOMAIN out.hosts = 1 .. Len(out.hosts)
        /\ \A i \in DOMAIN out.hosts : out.hosts[i] \in ToSet(out.hosts)
        /\ Len(out.observations) \in Nat /\ DOMAIN out.observations = 1 .. Len(out.observations)
        /\ \A i \in DOMAIN out.observations : out.observations[i] \in ToSet(out.observations)
    BY DEF IsOutput, IsSeq, ToSet
  <2>2. \A o \in ToSet(out.observations) : ObservationRow(out, o) \in S
    OBVIOUS
  <2> HIDE DEF S
  <2>3. [i \in DOMAIN out.hosts |-> HostRows(out.hosts[i])] \in Seq(Seq(S))
    BY <1>1, <2>1
  <2>4. [i \in DOMAIN out.observations |-> ObservationRow(out, out.observations[i])] \in Seq(S)
    BY <2>1, <2>2
  <2>5. FlattenSeq([i \in DOMAIN out.hosts |-> HostRows(out.hosts[i])]) \in Seq(S)
    BY <2>3, Flattened
  <2> QED BY <2>4, <2>5 DEF RowsOf
<1> HIDE DEF S
<1>4. ToSet(RowsOf(out)) \subseteq S
  BY <1>3 DEF ToSet
<1> QED BY <1>2, <1>3, <1>4 DEF ToSet

-----------------------------------------------------------------------------
(* Sessions.                                                               *)

(* A session merges its output's rows one by one, and commits.             *)
LEMMA SessionSteps ==
    ASSUME NEW e, NEW n \in Nat, DOMAIN RowsOf(output[e]) = 1 .. n
    PROVE  \E acc : /\ acc[0] = Opened(e) /\ Session(e) = Flush(acc[n])
                    /\ \A k \in 1 .. n : acc[k] = Merge(acc[k - 1], e, RowsOf(output[e])[k])
<1> DEFINE rows == RowsOf(output[e])
           From(f, s) == IF s = {} THEN Opened(e) ELSE Merge(f[s \ {Max(s)}], e, rows[Max(s)])
           Has(k) == \E f : f = [s \in SUBSET (1 .. k) |-> From(f, s)]
<1>1. Has(0)
  <2>1. [s \in SUBSET (1 .. 0) |-> Opened(e)]
        = [s \in SUBSET (1 .. 0) |-> From([t \in SUBSET (1 .. 0) |-> Opened(e)], s)]
    OBVIOUS
  <2> QED BY <2>1
<1>2. ASSUME NEW k \in Nat, Has(k) PROVE Has(k + 1)
  <2>1. PICK f : f = [s \in SUBSET (1 .. k) |-> From(f, s)]
    BY <1>2
  <2> DEFINE g == [s \in SUBSET (1 .. (k + 1)) |->
                      IF k + 1 \in s THEN Merge(f[s \ {k + 1}], e, rows[k + 1]) ELSE f[s]]
  <2>2. \A s \in SUBSET (1 .. k) : g[s] = f[s]
    OBVIOUS
  <2>3. ASSUME NEW s \in SUBSET (1 .. (k + 1)) PROVE g[s] = From(g, s)
    <3>1. CASE k + 1 \in s
      BY <2>2, <3>1, Below
    <3>2. CASE k + 1 \notin s
      <4>1. s \in SUBSET (1 .. k) /\ s \ {Max(s)} \in SUBSET (1 .. k)
        BY <3>2, Below
      <4>2. g[s \ {Max(s)}] = f[s \ {Max(s)}] /\ g[s] = f[s]
        BY <2>2, <4>1
      <4>3. f[s] = From(f, s)
        BY <2>1, <4>1
      <4> QED BY <4>2, <4>3
    <3> QED BY <3>1, <3>2
  <2>4. g = [s \in SUBSET (1 .. (k + 1)) |-> From(g, s)]
    BY <2>3
  <2> QED BY <2>4
<1>3. Has(n)
  <2> DEFINE S == {k \in Nat : Has(k)}
  <2> HIDE DEF Has
  <2>1. 0 \in S /\ \A k \in 0 .. n - 1 : k \in S => k + 1 \in S
    BY <1>1, <1>2
  <2>2. n \in S
    <3> HIDE DEF S
    <3> QED BY <2>1, UpTo
  <2> QED BY <2>2
<1> DEFINE it[s \in SUBSET (1 .. n)] ==
               IF s = {} THEN Opened(e) ELSE Merge(it[s \ {Max(s)}], e, rows[Max(s)])
<1>4. it = [s \in SUBSET (1 .. n) |-> From(it, s)]
  BY <1>3
<1>5. Session(e) = Flush(it[1 .. n])
  BY DEF Session, FoldLeft, MapThenFoldSet
<1> HIDE DEF it
<1>6. it[{}] = Opened(e)
  BY <1>4
<1>7. ASSUME NEW k \in 1 .. n
      PROVE  it[1 .. k] = Merge(it[1 .. (k - 1)], e, rows[k])
  <2>1. /\ Max(1 .. k) = k /\ (1 .. k) \ {k} = 1 .. (k - 1) /\ 1 .. k # {}
        /\ 1 .. k \in SUBSET (1 .. n)
    BY Counting
  <2> QED BY <1>4, <2>1
<1> DEFINE acc == [k \in 0 .. n |-> it[1 .. k]]
<1>8. acc[0] = Opened(e) /\ Session(e) = Flush(acc[n])
  BY <1>5, <1>6
<1>9. \A k \in 1 .. n : acc[k] = Merge(acc[k - 1], e, rows[k])
  BY <1>7
<1> QED BY <1>8, <1>9

(* What a flush adds to a bag.                                             *)
Once(s, row) == \A i, j \in DOMAIN s : s[i] = row /\ s[j] = row => i = j

Adds(bag, rows, after) ==
    /\ IsABag(after) /\ DOMAIN after = DOMAIN bag \cup ToSet(rows)
    /\ \A row \in DOMAIN bag : row \notin ToSet(rows) => after[row] = bag[row]
    /\ \A row \in ToSet(rows) : after[row] = 1 => row \notin DOMAIN bag
    /\ \A row \in ToSet(rows) : row \notin DOMAIN bag /\ Once(rows, row) => after[row] = 1

(* A flush adds to the bag it finds.                                       *)
LEMMA AddedRows ==
    ASSUME NEW bag, IsABag(bag), NEW U, NEW rows \in Seq(U)
    PROVE  Adds(bag, rows, Added(bag, rows))
<1> DEFINE Where(row) == {i \in DOMAIN rows : rows[i] = row}
           after == Added(bag, rows)
<1>1. \A row : IsFiniteSet(Where(row)) /\ Cardinality(Where(row)) \in Nat
  <2>1. IsFiniteSet(DOMAIN rows)
    BY FS_Interval
  <2> QED BY <2>1, FS_Subset, FS_CardinalityType
<1>2. /\ DOMAIN after = DOMAIN bag \cup ToSet(rows)
      /\ after = [row \in DOMAIN after |-> after[row]]
      /\ \A row \in DOMAIN after : after[row] = Copies(row, bag) + Cardinality(Where(row))
  BY DEF Added
<1>3. \A row \in DOMAIN bag : bag[row] \in Nat /\ bag[row] > 0
  BY DEF IsABag
<1>4. \A row : Copies(row, bag) = IF row \in DOMAIN bag THEN bag[row] ELSE 0
  BY DEF Copies, BagIn, BagToSet
<1>5. \A row : row \notin ToSet(rows) => Cardinality(Where(row)) = 0
  <2>1. \A row : row \notin ToSet(rows) => Where(row) = {}
    BY DEF ToSet
  <2> QED BY <2>1, FS_EmptySet
<1>6. \A row \in ToSet(rows) : Cardinality(Where(row)) # 0
  <2>1. \A row \in ToSet(rows) : Where(row) # {}
    BY DEF ToSet
  <2> QED BY <1>1, <2>1, FS_EmptySet
<1>7. ASSUME NEW row \in ToSet(rows), Once(rows, row)
      PROVE  Cardinality(Where(row)) = 1
  <2>1. PICK i \in DOMAIN rows : rows[i] = row
    BY DEF ToSet
  <2>2. Where(row) = {i}
    BY <1>7, <2>1 DEF Once
  <2> QED BY <2>2, FS_Singleton
<1> HIDE DEF Where, after
<1>8. IsABag(after)
  <2>1. \A row \in DOMAIN after : after[row] \in Nat /\ after[row] > 0
    BY <1>1, <1>2, <1>3, <1>4, <1>6
  <2> QED BY <1>2, <2>1 DEF IsABag
<1>9. \A row \in DOMAIN bag : row \notin ToSet(rows) => after[row] = bag[row]
  BY <1>2, <1>3, <1>4, <1>5
<1>10. \A row \in ToSet(rows) : after[row] = 1 => row \notin DOMAIN bag
  BY <1>1, <1>2, <1>3, <1>4, <1>6
<1>11. \A row \in ToSet(rows) :
          row \notin DOMAIN bag /\ Cardinality(Where(row)) = 1 => after[row] = 1
  BY <1>2, <1>4
<1> QED BY <1>2, <1>7, <1>8, <1>9, <1>10, <1>11 DEF Adds, after

(* A session's row waits for a flush if it is of one of these kinds, or a  *)
(* link to one of the output's rows.                                       *)
Late == {"interface", "technology", "os"}
Named(e) == ToSet(RowsOf(output[e]))
LinkTo(e, row) == Row("link", <<e, row>>)
Pendable(e) ==
    {row \in Named(e) : row[1] \in Late} \cup {LinkTo(e, row) : row \in {r \in Named(e) : r[1] \in Linked}}

IsSession(w, e) ==
    /\ w = [rows |-> w.rows, read |-> w.read, pending |-> w.pending, touched |-> w.touched,
            firsts |-> w.firsts, wrote |-> w.wrote, ok |-> w.ok]
    /\ IsABag(w.rows) /\ IsABag(w.read) /\ w.read = seen[e]
    /\ w.pending \in Seq(Pendable(e)) /\ w.ok \in BOOLEAN /\ w.wrote \in BOOLEAN

(* What becomes of a row: it is inserted at once, waits, is linked.        *)
Found(w, row) == IF row[1] = "orphan" THEN 0 ELSE Copies(row, Visible(w))
Flushes(w, row) == row[1] \in FlushedAtOnce /\ Found(w, row) = 0
Waits(w, row) == row[1] \notin FlushedAtOnce /\ Found(w, row) = 0
Links(w, row) == row[1] \in Linked /\ ~(row[1] = "host" /\ row \in w.touched)
Left(w, row) ==
    IF Flushes(w, row) THEN <<>> ELSE IF Waits(w, row) THEN Append(w.pending, row) ELSE w.pending
Uniquely(rows, bag) == \A row \in ToSet(rows) : Unique(row) => Copies(row, bag) = 1

(* What a flush does to a session.                                         *)
LEMMA FlushFacts ==
    ASSUME NEW e, NEW w, IsSession(w, e), NEW U, NEW rows \in Seq(U)
    PROVE  LET v == Flush([w EXCEPT !.pending = rows]) IN
           v = [rows |-> Added(w.rows, rows), read |-> w.read, pending |-> <<>>,
                touched |-> w.touched, firsts |-> w.firsts, wrote |-> TRUE,
                ok |-> w.ok /\ Uniquely(rows, Added(w.rows, rows))]
<1> DEFINE u == [w EXCEPT !.pending = rows]
           after == Added(u.rows, u.pending)
<1>1. u = [rows |-> w.rows, read |-> w.read, pending |-> rows, touched |-> w.touched,
           firsts |-> w.firsts, wrote |-> w.wrote, ok |-> w.ok]
  BY DEF IsSession
<1>2. Flush(u) = [u EXCEPT !.rows = after, !.pending = <<>>, !.wrote = TRUE,
                           !.ok = u.ok /\ Uniquely(u.pending, after)]
  BY DEF Flush, Uniquely
<1>3. after = Added(w.rows, rows) /\ u.pending = rows /\ u.ok = w.ok
  BY <1>1
<1> HIDE DEF after, u
<1> QED BY <1>1, <1>2, <1>3 DEF u

(* What merging a row does to a session.                                   *)
Merges(w, v, e, row) ==
    /\ IsSession(v, e)
    /\ v.ok => w.ok /\ Found(w, row) <= 1
    /\ w.ok /\ Found(w, row) <= 1 =>
          /\ v.rows = IF Flushes(w, row) THEN Added(w.rows, Append(w.pending, row)) ELSE w.rows
          /\ v.wrote = (w.wrote \/ Flushes(w, row))
          /\ v.pending = IF Links(w, row) THEN Append(Left(w, row), LinkTo(e, row)) ELSE Left(w, row)
          /\ v.touched = IF Links(w, row) THEN w.touched \cup {row} ELSE w.touched
          /\ v.firsts = IF Links(w, row) /\ Found(w, row) = 0 THEN w.firsts \cup {<<e, row>>}
                        ELSE w.firsts
          /\ v.ok <=> (Flushes(w, row) => Uniquely(Append(w.pending, row), v.rows))

(* A session stays one, and stands only if it stood and found at most one  *)
(* row.                                                                    *)
LEMMA MergeFacts ==
    ASSUME NEW e, NEW w, IsSession(w, e), NEW row \in Named(e), row[1] \in Kinds
    PROVE  Merges(w, Merge(w, e, row), e, row)
<1> DEFINE found == Found(w, row)
           more == Append(w.pending, row)
           after == Added(w.rows, more)
           u == IF found = 0 THEN Insert(w, row) ELSE w
           v == Merge(w, e, row)
<1>1. more \in Seq(Pendable(e) \cup {row}) /\ found \in Nat /\ IsABag(after)
  <2>1. more \in Seq(Pendable(e) \cup {row})
    BY DEF IsSession
  <2>2. found \in Nat
    BY DEF Found, Copies, Visible, IsSession, IsABag, BagIn, BagToSet
  <2> QED BY <2>1, <2>2, AddedRows DEF Adds, IsSession
<1>2. v = IF ~w.ok \/ found > 1 THEN [w EXCEPT !.ok = FALSE] ELSE Link(u, e, row, found = 0)
  BY DEF Merge, Found
<1>3. CASE ~w.ok \/ found > 1
  <2>1. v = [w EXCEPT !.ok = FALSE]
    BY <1>2, <1>3
  <2> HIDE DEF found, v
  <2>2. IsSession(v, e) /\ v.ok = FALSE
    BY <2>1 DEF IsSession
  <2> QED BY <1>1, <1>3, <2>2 DEF Merges, found, v
<1>4. CASE w.ok /\ found <= 1
  <2>1. v = Link(u, e, row, found = 0)
    BY <1>1, <1>2, <1>4
  <2>2. /\ u = [rows |-> u.rows, read |-> u.read, pending |-> u.pending, touched |-> u.touched,
                firsts |-> u.firsts, wrote |-> u.wrote, ok |-> u.ok]
        /\ u.rows = (IF Flushes(w, row) THEN after ELSE w.rows) /\ u.read = w.read
        /\ u.pending = Left(w, row) /\ u.touched = w.touched /\ u.firsts = w.firsts
        /\ u.wrote = (w.wrote \/ Flushes(w, row))
        /\ u.ok = (Flushes(w, row) => Uniquely(more, after))
    <3>1. CASE Flushes(w, row)
      <4>1. Pend(w, row) = [w EXCEPT !.pending = more]
        BY DEF Pend
      <4>2. u = Flush([w EXCEPT !.pending = more])
        BY <3>1, <4>1 DEF Flushes, Insert
      <4>3. u = [rows |-> after, read |-> w.read, pending |-> <<>>, touched |-> w.touched,
                 firsts |-> w.firsts, wrote |-> TRUE, ok |-> w.ok /\ Uniquely(more, after)]
        <5> HIDE DEF u, after, more
        <5> QED BY <1>1, <4>2, FlushFacts DEF after
      <4> HIDE DEF u, after, more
      <4> QED BY <1>4, <3>1, <4>3 DEF Left
    <3>2. CASE Waits(w, row)
      <4>1. u = [w EXCEPT !.pending = more] /\ ~Flushes(w, row)
        BY <3>2 DEF Waits, Flushes, Insert, Pend
      <4> HIDE DEF u, after, more
      <4> QED BY <1>4, <3>2, <4>1 DEF Left, IsSession, more
    <3>3. CASE found # 0
      <4>1. u = w /\ ~Flushes(w, row) /\ ~Waits(w, row)
        BY <3>3 DEF Flushes, Waits
      <4> HIDE DEF u, after, more
      <4> QED BY <1>4, <4>1 DEF Left, IsSession
    <3> QED BY <3>1, <3>2, <3>3 DEF Flushes, Waits
  <2>3. IsABag(u.rows) /\ u.wrote \in BOOLEAN /\ u.ok \in BOOLEAN
    <3> HIDE DEF u, after
    <3> QED BY <1>1, <2>2 DEF IsSession, Uniquely
  <2>4. u.pending \in Seq(Pendable(e))
    <3>1. Waits(w, row) => row \in Pendable(e)
      BY DEF Waits, Pendable, Kinds, Late, FlushedAtOnce
    <3> HIDE DEF u
    <3> QED BY <2>2, <3>1 DEF Left, IsSession
  <2>5. CASE Links(w, row)
    <3>1. LinkTo(e, row) \in Pendable(e)
      BY <2>5 DEF Links, Pendable
    <3> DEFINE p == Pend(u, LinkTo(e, row))
    <3>2. v = [p EXCEPT !.touched = p.touched \cup {row},
                        !.firsts = IF found = 0 THEN p.firsts \cup {<<e, row>>} ELSE p.firsts]
      <4>1. ~(row[1] \notin Linked \/ (row[1] = "host" /\ row \in u.touched))
        <5> HIDE DEF u
        <5> QED BY <2>2, <2>5 DEF Links
      <4> HIDE DEF u, v
      <4> QED BY <2>1, <4>1 DEF Link, LinkTo
    <3> HIDE DEF u, v, found, after
    <3>3. p = [rows |-> u.rows, read |-> u.read, pending |-> Append(u.pending, LinkTo(e, row)),
               touched |-> u.touched, firsts |-> u.firsts, wrote |-> u.wrote, ok |-> u.ok]
      BY <2>2 DEF Pend
    <3> HIDE DEF p
    <3>4. v = [rows |-> u.rows, read |-> u.read, pending |-> Append(u.pending, LinkTo(e, row)),
               touched |-> u.touched \cup {row},
               firsts |-> IF found = 0 THEN u.firsts \cup {<<e, row>>} ELSE u.firsts,
               wrote |-> u.wrote, ok |-> u.ok]
      <4> DEFINE links == Append(u.pending, LinkTo(e, row))
                 touched == u.touched \cup {row}
                 first == IF found = 0 THEN u.firsts \cup {<<e, row>>} ELSE u.firsts
      <4>1. p = [rows |-> u.rows, read |-> u.read, pending |-> links,
                 touched |-> u.touched, firsts |-> u.firsts, wrote |-> u.wrote, ok |-> u.ok]
        BY <3>3
      <4>2. v = [p EXCEPT !.touched = touched, !.firsts = first]
        BY <3>2, <4>1
      <4> HIDE DEF links, touched, first
      <4>3. v = [rows |-> u.rows, read |-> u.read, pending |-> links, touched |-> touched,
                 firsts |-> first, wrote |-> u.wrote, ok |-> u.ok]
        BY <4>1, <4>2
      <4> QED BY <4>3 DEF links, touched, first
    <3>5. IsSession(v, e)
      <4>1. Append(u.pending, LinkTo(e, row)) \in Seq(Pendable(e))
        BY <2>4, <3>1
      <4>2. /\ v.rows = u.rows /\ v.read = u.read /\ v.wrote = u.wrote /\ v.ok = u.ok
            /\ v.pending = Append(u.pending, LinkTo(e, row)) /\ v.touched = u.touched \cup {row}
            /\ v.firsts = IF found = 0 THEN u.firsts \cup {<<e, row>>} ELSE u.firsts
        BY <3>4
      <4>3. v = [rows |-> v.rows, read |-> v.read, pending |-> v.pending, touched |-> v.touched,
                 firsts |-> v.firsts, wrote |-> v.wrote, ok |-> v.ok]
        BY <3>4
      <4> QED BY <2>2, <2>3, <4>1, <4>2, <4>3 DEF IsSession
    <3>6. /\ v.rows = u.rows /\ v.wrote = u.wrote /\ v.ok = u.ok
          /\ v.pending = Append(u.pending, LinkTo(e, row)) /\ v.touched = u.touched \cup {row}
          /\ v.firsts = IF found = 0 THEN u.firsts \cup {<<e, row>>} ELSE u.firsts
      BY <3>4
    <3>7. /\ v.rows = (IF Flushes(w, row) THEN after ELSE w.rows)
          /\ v.wrote = (w.wrote \/ Flushes(w, row))
          /\ v.pending = Append(Left(w, row), LinkTo(e, row))
          /\ v.touched = w.touched \cup {row}
          /\ v.firsts = (IF found = 0 THEN w.firsts \cup {<<e, row>>} ELSE w.firsts)
          /\ v.ok <=> (Flushes(w, row) => Uniquely(more, after))
      BY <2>2, <3>6
    <3>8. Flushes(w, row) => v.rows = after
      BY <3>7
    <3>9. v.ok <=> (Flushes(w, row) => Uniquely(more, v.rows))
      BY <3>7, <3>8
    <3> QED BY <1>4, <2>5, <3>5, <3>7, <3>9 DEF Merges, found, v, after, more
  <2>6. CASE ~Links(w, row)
    <3>1. v = u
      <4>1. row[1] \notin Linked \/ (row[1] = "host" /\ row \in u.touched)
        <5> HIDE DEF u
        <5> QED BY <2>2, <2>6 DEF Links
      <4> HIDE DEF u, v
      <4> QED BY <2>1, <4>1 DEF Link
    <3> HIDE DEF u, v, found, after
    <3>2. IsSession(v, e)
      BY <2>2, <2>3, <2>4, <3>1 DEF IsSession
    <3> QED BY <1>4, <2>2, <2>6, <3>1, <3>2 DEF Merges, found, v, after, more
  <2> QED BY <2>5, <2>6
<1> QED BY <1>1, <1>3, <1>4

(* The rows that a unique key covers are there once.                       *)
Distinct(bag) == \A row \in DOMAIN bag : Unique(row) => bag[row] = 1

(* A flush that breaks no unique key keeps their rows single, and none of  *)
(* those it inserts was there.                                             *)
LEMMA Flushed ==
    ASSUME NEW bag, IsABag(bag), Distinct(bag), NEW U, NEW rows \in Seq(U),
           Uniquely(rows, Added(bag, rows))
    PROVE  /\ Distinct(Added(bag, rows))
           /\ \A row \in ToSet(rows) : Unique(row) => row \notin DOMAIN bag
<1> DEFINE after == Added(bag, rows)
<1>1. /\ DOMAIN after = DOMAIN bag \cup ToSet(rows)
      /\ \A row \in DOMAIN bag : row \notin ToSet(rows) => after[row] = bag[row]
      /\ \A row \in ToSet(rows) : after[row] = 1 => row \notin DOMAIN bag
  BY AddedRows DEF Adds
<1>2. \A row \in ToSet(rows) : Unique(row) => Copies(row, after) = 1
  BY DEF Uniquely
<1> HIDE DEF after
<1>3. \A row \in ToSet(rows) : Unique(row) => after[row] = 1
  BY <1>1, <1>2 DEF Copies, BagIn, BagToSet
<1> QED BY <1>1, <1>3 DEF Distinct, after

(* What a session that stands has recorded: each host or observation it    *)
(* inserted is new to its execution, and the link that says so is there or *)
(* waits for the next flush.                                               *)
NewRows(w) == {row \in DOMAIN w.rows \ DOMAIN inventory : row[1] \in Linked}

Records(w, e) ==
    /\ Distinct(w.rows) /\ DOMAIN w.read \subseteq DOMAIN inventory
    /\ DOMAIN inventory \subseteq DOMAIN w.rows
    /\ ~w.wrote => w.rows = inventory
    /\ \A row \in NewRows(w) : <<e, row>> \in w.firsts
    /\ \A first \in w.firsts : \E row \in NewRows(w) :
          /\ first = <<e, row>>
          /\ LinkTo(e, row) \in DOMAIN w.rows \cup ToSet(w.pending)
    /\ \A row \in w.touched : row[1] = "host" => row \in DOMAIN Visible(w)

(* No row that waits for a flush is one that an insert flushes, or one     *)
(* that an execution is linked to.                                         *)
LEMMA PendableKinds ==
    ASSUME NEW e, NEW row \in Pendable(e)
    PROVE  row[1] \in Late \cup {"link"} /\ row[1] \notin Linked \cup FlushedAtOnce
  BY DEF Pendable, Late, LinkTo, Row, Linked, FlushedAtOnce

(* The members of a sequence with one more element.                        *)
LEMMA Appended ==
    ASSUME NEW S, NEW s \in Seq(S), NEW x
    PROVE  ToSet(Append(s, x)) = ToSet(s) \cup {x}
<1>1. /\ DOMAIN Append(s, x) = 1 .. Len(s) + 1 /\ DOMAIN s = 1 .. Len(s) /\ Len(s) \in Nat
      /\ \A i \in 1 .. Len(s) : Append(s, x)[i] = s[i]
      /\ Append(s, x)[Len(s) + 1] = x
  OBVIOUS
<1> QED BY <1>1 DEF ToSet

(* A row that is not found is not there.                                   *)
LEMMA NotFound ==
    ASSUME NEW e, NEW w, IsSession(w, e), NEW row
    PROVE  /\ row[1] # "orphan" /\ Found(w, row) = 0 => row \notin DOMAIN Visible(w)
           /\ Found(w, row) # 0 => row \in DOMAIN Visible(w)
  BY DEF IsSession, Found, Copies, BagIn, BagToSet, Visible, IsABag

(* What merging leaves when the session still stands.                      *)
Becomes(w, v, e, row) ==
    /\ v.rows = IF Flushes(w, row) THEN Added(w.rows, Append(w.pending, row)) ELSE w.rows
    /\ v.wrote = (w.wrote \/ Flushes(w, row)) /\ v.read = w.read
    /\ v.pending = IF Links(w, row) THEN Append(Left(w, row), LinkTo(e, row)) ELSE Left(w, row)
    /\ v.touched = IF Links(w, row) THEN w.touched \cup {row} ELSE w.touched
    /\ v.firsts = IF Links(w, row) /\ Found(w, row) = 0 THEN w.firsts \cup {<<e, row>>}
                  ELSE w.firsts
    /\ Flushes(w, row) =>
          /\ DOMAIN v.rows = DOMAIN w.rows \cup ToSet(w.pending) \cup {row} /\ Distinct(v.rows)
          /\ Unique(row) => row \notin DOMAIN w.rows
    /\ ToSet(v.pending) = (IF Flushes(w, row) THEN {} ELSE ToSet(w.pending))
                          \cup (IF Waits(w, row) THEN {row} ELSE {})
                          \cup (IF Links(w, row) THEN {LinkTo(e, row)} ELSE {})
    /\ Append(w.pending, row) \in Seq(Pendable(e) \cup {row})
    /\ ToSet(Append(w.pending, row)) = ToSet(w.pending) \cup {row}
    /\ ToSet(w.pending) \subseteq Pendable(e) /\ IsABag(w.rows)

(* When the session stands before and after, it is this one.               *)
LEMMA Merged ==
    ASSUME NEW e, NEW w, IsSession(w, e), Distinct(w.rows), NEW row \in Named(e),
           row[1] \in Kinds, Merge(w, e, row).ok
    PROVE  Becomes(w, Merge(w, e, row), e, row)
<1> DEFINE v == Merge(w, e, row)
           more == Append(w.pending, row)
<1>1. /\ v.rows = IF Flushes(w, row) THEN Added(w.rows, more) ELSE w.rows
      /\ v.wrote = (w.wrote \/ Flushes(w, row)) /\ v.read = w.read
      /\ v.pending = IF Links(w, row) THEN Append(Left(w, row), LinkTo(e, row)) ELSE Left(w, row)
      /\ v.touched = IF Links(w, row) THEN w.touched \cup {row} ELSE w.touched
      /\ v.firsts = IF Links(w, row) /\ Found(w, row) = 0 THEN w.firsts \cup {<<e, row>>}
                    ELSE w.firsts
      /\ Flushes(w, row) => Uniquely(more, v.rows)
  <2>1. IsSession(v, e) /\ v.read = w.read
    BY MergeFacts DEF Merges, IsSession
  <2>2. Merges(w, v, e, row)
    BY MergeFacts
  <2> QED BY <2>1, <2>2 DEF Merges
<1> HIDE DEF v
<1>2. /\ more \in Seq(Pendable(e) \cup {row}) /\ ToSet(more) = ToSet(w.pending) \cup {row}
      /\ ToSet(w.pending) \subseteq Pendable(e) /\ IsABag(w.rows)
  <2>1. more \in Seq(Pendable(e) \cup {row}) /\ IsABag(w.rows)
    BY DEF IsSession
  <2>2. ToSet(w.pending) \subseteq Pendable(e)
    BY DEF IsSession, ToSet
  <2> QED BY <2>1, <2>2, Appended DEF IsSession
<1>3. Flushes(w, row) =>
         /\ DOMAIN v.rows = DOMAIN w.rows \cup ToSet(w.pending) \cup {row} /\ Distinct(v.rows)
         /\ Unique(row) => row \notin DOMAIN w.rows
  <2> HIDE DEF more
  <2>1. ASSUME Flushes(w, row)
        PROVE  /\ DOMAIN v.rows = DOMAIN w.rows \cup ToSet(more) /\ Distinct(v.rows)
               /\ Unique(row) => row \notin DOMAIN w.rows
    <3>1. v.rows = Added(w.rows, more) /\ Uniquely(more, Added(w.rows, more))
      BY <1>1, <2>1
    <3>2. Distinct(w.rows) /\ row \in ToSet(more)
      BY <1>2 DEF Records
    <3>3. DOMAIN Added(w.rows, more) = DOMAIN w.rows \cup ToSet(more)
      BY DEF Added
    <3>4. /\ Distinct(Added(w.rows, more))
          /\ \A r \in ToSet(more) : Unique(r) => r \notin DOMAIN w.rows
      BY <1>2, <3>1, <3>2, Flushed
    <3> QED BY <3>1, <3>2, <3>3, <3>4
  <2> QED BY <1>2, <2>1
<1> HIDE DEF more
<1>4. ToSet(v.pending) = (IF Flushes(w, row) THEN {} ELSE ToSet(w.pending))
                         \cup (IF Waits(w, row) THEN {row} ELSE {})
                         \cup (IF Links(w, row) THEN {LinkTo(e, row)} ELSE {})
  <2>1. Left(w, row) \in Seq(Pendable(e) \cup {row})
    BY DEF Left, IsSession
  <2>2. ToSet(<<>>) = {}
    BY DEF ToSet
  <2>3. ToSet(Left(w, row)) = (IF Flushes(w, row) THEN {} ELSE ToSet(w.pending))
                              \cup (IF Waits(w, row) THEN {row} ELSE {})
    BY <1>2, <2>2, Appended DEF Left, Flushes, Waits, IsSession
  <2> QED BY <1>1, <2>1, <2>3, Appended
<1> QED BY <1>1, <1>2, <1>3, <1>4 DEF Becomes, v, more

(* A merge that the session survives records what it inserts.              *)
LEMMA RecordsMerge ==
    ASSUME NEW e, NEW w, IsSession(w, e), Records(w, e), NEW row \in Named(e),
           row[1] \in Kinds, Merge(w, e, row).ok
    PROVE  Records(Merge(w, e, row), e)
<1> DEFINE v == Merge(w, e, row)
<1>0. Becomes(w, v, e, row)
  BY Merged DEF Records
<1> HIDE DEF v
<1>1. /\ v.wrote = (w.wrote \/ Flushes(w, row)) /\ v.read = w.read
      /\ v.touched = IF Links(w, row) THEN w.touched \cup {row} ELSE w.touched
      /\ v.firsts = IF Links(w, row) /\ Found(w, row) = 0 THEN w.firsts \cup {<<e, row>>}
                    ELSE w.firsts
  BY <1>0 DEF Becomes
<1>2. ToSet(w.pending) \subseteq Pendable(e)
  BY <1>0 DEF Becomes
<1>3. Flushes(w, row) =>
         /\ DOMAIN v.rows = DOMAIN w.rows \cup ToSet(w.pending) \cup {row} /\ Distinct(v.rows)
         /\ Unique(row) => row \notin DOMAIN w.rows
  BY <1>0 DEF Becomes
<1>4. ~Flushes(w, row) => v.rows = w.rows
  BY <1>0 DEF Becomes
<1>5. ToSet(v.pending) = (IF Flushes(w, row) THEN {} ELSE ToSet(w.pending))
                         \cup (IF Waits(w, row) THEN {row} ELSE {})
                         \cup (IF Links(w, row) THEN {LinkTo(e, row)} ELSE {})
  BY <1>0 DEF Becomes
<1>6. DOMAIN w.rows \subseteq DOMAIN v.rows /\ DOMAIN inventory \subseteq DOMAIN v.rows
  BY <1>3, <1>4 DEF Records
<1>7. row[1] \in Linked /\ Found(w, row) = 0 =>
         /\ Flushes(w, row) /\ Links(w, row) /\ row \notin DOMAIN inventory
  <2> SUFFICES ASSUME row[1] \in Linked, Found(w, row) = 0
               PROVE  Flushes(w, row) /\ Links(w, row) /\ row \notin DOMAIN inventory
    OBVIOUS
  <2>1. Flushes(w, row) /\ Unique(row) /\ row[1] # "orphan"
    BY DEF Flushes, Linked, FlushedAtOnce, Unique, NotUnique
  <2>2. row \notin DOMAIN Visible(w)
    BY <2>1, NotFound
  <2> QED BY <1>3, <2>1, <2>2 DEF Links, Records
<1>8. NewRows(v) = NewRows(w) \cup (IF row[1] \in Linked /\ Found(w, row) = 0 THEN {row} ELSE {})
  <2>1. \A r \in ToSet(w.pending) : r[1] \notin Linked
    BY <1>2, PendableKinds
  <2>2. CASE Flushes(w, row)
    BY <1>3, <1>7, <2>1, <2>2 DEF NewRows, Flushes
  <2>3. CASE ~Flushes(w, row)
    BY <1>4, <1>7, <2>3 DEF NewRows
  <2> QED BY <2>2, <2>3
<1>9. \A r \in NewRows(v) : <<e, r>> \in v.firsts
  BY <1>1, <1>7, <1>8 DEF Records
<1>10. \A first \in v.firsts : \E r \in NewRows(v) :
          first = <<e, r>> /\ LinkTo(e, r) \in DOMAIN v.rows \cup ToSet(v.pending)
  <2>1. ASSUME NEW first \in w.firsts
        PROVE  \E r \in NewRows(v) :
                  first = <<e, r>> /\ LinkTo(e, r) \in DOMAIN v.rows \cup ToSet(v.pending)
    BY <1>3, <1>4, <1>5, <1>8 DEF Records
  <2>2. ASSUME Links(w, row), Found(w, row) = 0
        PROVE  row \in NewRows(v) /\ LinkTo(e, row) \in ToSet(v.pending)
    BY <1>5, <1>8, <2>2 DEF Links
  <2> QED BY <1>1, <2>1, <2>2
<1>11. \A r \in v.touched : r[1] = "host" => r \in DOMAIN Visible(v)
  <2>1. DOMAIN Visible(w) \subseteq DOMAIN Visible(v)
    BY <1>1, <1>3, <1>4 DEF Records, Visible
  <2>2. Links(w, row) => row \in DOMAIN Visible(v)
    <3>1. CASE Found(w, row) = 0
      BY <1>1, <1>3, <1>7, <3>1 DEF Links, Visible
    <3>2. CASE Found(w, row) # 0
      BY <2>1, <3>2, NotFound
    <3> QED BY <3>1, <3>2
  <2> QED BY <1>1, <2>1, <2>2 DEF Records
<1> QED BY <1>1, <1>3, <1>4, <1>6, <1>9, <1>10, <1>11 DEF Records, v

(* A session begins with nothing recorded.                                 *)
Readable(e) ==
    /\ IsABag(inventory) /\ Distinct(inventory) /\ IsOutput(output[e])
    /\ IsABag(seen[e]) /\ DOMAIN seen[e] \subseteq DOMAIN inventory

(* Then the session it opens has recorded what there is.                   *)
LEMMA Opening ==
    ASSUME NEW e, Readable(e)
    PROVE  IsSession(Opened(e), e) /\ Records(Opened(e), e)
<1>1. /\ Opened(e).rows = inventory /\ Opened(e).read = seen[e] /\ Opened(e).pending = <<>>
      /\ Opened(e).touched = {} /\ Opened(e).firsts = {} /\ Opened(e).wrote = FALSE
      /\ Opened(e).ok = TRUE
  BY DEF Opened
<1>2. IsSession(Opened(e), e)
  <2>1. Opened(e) = [rows |-> inventory, read |-> seen[e], pending |-> <<>>, touched |-> {},
                     firsts |-> {}, wrote |-> FALSE, ok |-> TRUE]
    BY DEF Opened
  <2>2. <<>> \in Seq(Pendable(e))
    OBVIOUS
  <2> QED BY <1>1, <2>1, <2>2 DEF IsSession, Readable
<1> QED BY <1>1, <1>2 DEF Records, Readable, NewRows

(* After any number of rows a session that stands has recorded them.       *)
Recorded(e, n, acc) ==
    /\ DOMAIN RowsOf(output[e]) = 1 .. n
    /\ \A k \in 1 .. n : RowsOf(output[e])[k] \in Named(e)
    /\ \A row \in Named(e) : row[1] \in Kinds
    /\ acc[0] = Opened(e) /\ Session(e) = Flush(acc[n])
    /\ \A k \in 1 .. n : acc[k] = Merge(acc[k - 1], e, RowsOf(output[e])[k])
    /\ \A k \in 0 .. n : IsSession(acc[k], e) /\ (acc[k].ok => Records(acc[k], e))

LEMMA Recording ==
    ASSUME NEW e, Readable(e)
    PROVE  \E n \in Nat : \E acc : Recorded(e, n, acc)
<1> DEFINE rows == RowsOf(output[e])
           n == Len(rows)
<1>1. /\ n \in Nat /\ DOMAIN rows = 1 .. n /\ \A k \in 1 .. n : rows[k] \in Named(e)
      /\ \A row \in Named(e) : row[1] \in Kinds
  <2>1. rows \in Seq(ToSet(rows)) /\ \A row \in ToSet(rows) : row[1] \in Kinds
    BY RowsAreRows DEF Readable
  <2> HIDE DEF rows
  <2>2. n \in Nat /\ DOMAIN rows = 1 .. n /\ \A k \in 1 .. n : rows[k] \in ToSet(rows)
    BY <2>1 DEF ToSet
  <2> QED BY <2>1, <2>2 DEF Named, rows
<1> HIDE DEF n
<1>2. PICK acc : /\ acc[0] = Opened(e) /\ Session(e) = Flush(acc[n])
                 /\ \A k \in 1 .. n : acc[k] = Merge(acc[k - 1], e, rows[k])
  BY <1>1, SessionSteps
<1> HIDE DEF rows
<1> DEFINE Good(w) == IsSession(w, e) /\ (w.ok => Records(w, e))
           S == {k \in 0 .. n : Good(acc[k])}
<1>3. Good(acc[0])
  BY <1>2, Opening
<1>4. ASSUME NEW k \in 0 .. n - 1, Good(acc[k]) PROVE Good(acc[k + 1])
  <2> DEFINE w == acc[k]
             row == rows[k + 1]
  <2>1. acc[k + 1] = Merge(w, e, row) /\ row \in Named(e) /\ row[1] \in Kinds
    BY <1>1, <1>2
  <2>2. Good(w)
    BY <1>4
  <2> HIDE DEF w, row
  <2>3. IsSession(Merge(w, e, row), e) /\ (Merge(w, e, row).ok => w.ok)
    BY <2>1, <2>2, MergeFacts DEF Merges
  <2>4. Merge(w, e, row).ok => Records(Merge(w, e, row), e)
    BY <2>1, <2>2, <2>3, RecordsMerge
  <2> QED BY <2>1, <2>3, <2>4
<1>5. ASSUME NEW j \in 0 .. n PROVE Good(acc[j])
  <2>1. 0 \in S /\ \A k \in 0 .. j - 1 : k \in S => k + 1 \in S
    BY <1>1, <1>3, <1>4
  <2>2. j \in S
    <3> HIDE DEF S
    <3> QED BY <1>1, <2>1, UpTo
  <2> QED BY <2>2
<1>6. Recorded(e, n, acc)
  BY <1>1, <1>2, <1>5 DEF Recorded, rows
<1> QED BY <1>1, <1>6

(* The commit flushes what waits.                                          *)
LEMMA Commits ==
    ASSUME NEW e, NEW w, IsSession(w, e)
    PROVE  /\ Flush(w).rows = Added(w.rows, w.pending) /\ Flush(w).firsts = w.firsts
           /\ Flush(w).ok <=> w.ok /\ Uniquely(w.pending, Added(w.rows, w.pending))
<1>1. [w EXCEPT !.pending = w.pending] = w
  BY DEF IsSession
<1>2. w.pending \in Seq(Pendable(e))
  BY DEF IsSession
<1>3. Flush(w) = [rows |-> Added(w.rows, w.pending), read |-> w.read, pending |-> <<>>,
                  touched |-> w.touched, firsts |-> w.firsts, wrote |-> TRUE,
                  ok |-> w.ok /\ Uniquely(w.pending, Added(w.rows, w.pending))]
  BY <1>1, <1>2, FlushFacts
<1> DEFINE v == Flush(w)
           ok == w.ok /\ Uniquely(w.pending, Added(w.rows, w.pending))
<1> HIDE DEF v, ok
<1>4. v.rows = Added(w.rows, w.pending) /\ v.firsts = w.firsts /\ v.ok = ok
  BY <1>3 DEF v, ok
<1> QED BY <1>4 DEF v, ok

(* What a session that stands leaves: the rows it inserted that an         *)
(* execution is linked to are the ones it discovered.                      *)
LEMMA SessionRecords ==
    ASSUME NEW e, Readable(e), Session(e).ok
    PROVE  /\ IsABag(Session(e).rows) /\ Distinct(Session(e).rows)
           /\ DOMAIN inventory \subseteq DOMAIN Session(e).rows
           /\ \A row \in NewRows(Session(e)) : <<e, row>> \in Session(e).firsts
           /\ \A first \in Session(e).firsts : \E row \in NewRows(Session(e)) :
                 first = <<e, row>> /\ LinkTo(e, row) \in DOMAIN Session(e).rows
<1>1. PICK w : IsSession(w, e) /\ (w.ok => Records(w, e)) /\ Session(e) = Flush(w)
  <2>1. PICK n \in Nat : \E acc : Recorded(e, n, acc)
    BY Recording
  <2>2. PICK acc : Recorded(e, n, acc)
    BY <2>1
  <2>3. n \in 0 .. n
    OBVIOUS
  <2> QED BY <2>2, <2>3 DEF Recorded
<1> DEFINE s == Session(e)
<1>2. /\ s.rows = Added(w.rows, w.pending) /\ s.firsts = w.firsts
      /\ Uniquely(w.pending, Added(w.rows, w.pending)) /\ Records(w, e)
  BY <1>1, Commits
<1>3. w.pending \in Seq(Pendable(e)) /\ IsABag(w.rows) /\ Distinct(w.rows)
  BY <1>1, <1>2 DEF IsSession, Records
<1> HIDE DEF s
<1>4. IsABag(s.rows) /\ Distinct(s.rows)
  <2>1. IsABag(Added(w.rows, w.pending))
    BY <1>3, AddedRows DEF Adds
  <2>2. Distinct(Added(w.rows, w.pending))
    BY <1>2, <1>3, Flushed
  <2> QED BY <1>2, <2>1, <2>2
<1>5. DOMAIN s.rows = DOMAIN w.rows \cup ToSet(w.pending)
  BY <1>2 DEF Added
<1>6. NewRows(s) = NewRows(w)
  <2>1. \A r \in ToSet(w.pending) : r[1] \notin Linked
    BY <1>3, PendableKinds DEF ToSet
  <2> QED BY <1>5, <2>1 DEF NewRows
<1> QED BY <1>2, <1>4, <1>5, <1>6 DEF Records, s

(* What holds of the inventory: a row that executions are linked to was    *)
(* new to exactly one of them.                                             *)
FirstsInv ==
    /\ \A first \in firsts : \E e \in Executions, row \in DOMAIN inventory :
          first = <<e, row>> /\ row[1] \in Linked /\ LinkTo(e, row) \in DOMAIN inventory
    /\ \A row \in DOMAIN inventory : row[1] \in Linked =>
          \E e \in Executions : <<e, row>> \in firsts
    /\ \A d, e \in Executions, row \in DOMAIN inventory :
          <<d, row>> \in firsts /\ <<e, row>> \in firsts => d = e

InventoryInv ==
    /\ IsABag(inventory) /\ Distinct(inventory) /\ suspect \subseteq Executions
    /\ phase \in [Executions -> {"idle", "reading", "done", "failed"}]
    /\ output \in [Executions -> Outputs \cup {Empty}]
    /\ attempts \in [Executions -> 0 .. MaxAttempts]
    /\ DOMAIN seen = Executions
    /\ \A e \in Executions : IsABag(seen[e])
    /\ deleted \in BOOLEAN /\ interrupted \subseteq Executions
    /\ ~deleted => \A e \in Executions : DOMAIN seen[e] \subseteq DOMAIN inventory
    /\ FirstsInv

(* Every execution's session begins from such a state while there is a     *)
(* target.                                                                 *)
LEMMA ReadableInv ==
    ASSUME InventoryInv, ~deleted, NEW e \in Executions
    PROVE  Readable(e)
<1>1. IsOutput(Empty)
  <2>1. Empty.hosts = <<>> /\ Empty.observations = <<>>
    BY DEF Empty
  <2> QED BY <2>1 DEF IsOutput, IsSeq, ToSet
<1>2. output[e] \in Outputs \cup {Empty}
  BY DEF InventoryInv
<1> QED BY <1>1, <1>2, InventoryAssumption DEF Readable, InventoryInv, InventoryAssumption

(* A step that leaves the rows and the links alone.                        *)
LEMMA FirstsStay ==
    ASSUME InventoryInv, UNCHANGED <<inventory, firsts>>
    PROVE  FirstsInv' /\ IsABag(inventory)' /\ Distinct(inventory)'
<1>1. FirstsInv /\ inventory' = inventory /\ firsts' = firsts
  BY DEF InventoryInv
<1>2. FirstsInv'
  BY <1>1, Zenon DEF FirstsInv, LinkTo
<1> QED BY <1>1, <1>2 DEF InventoryInv, Distinct

(* A job that reads.                                                       *)
LEMMA ReadInventoryInv ==
    ASSUME InventoryInv, NEW e \in Executions, ReadInventory(e)
    PROVE  InventoryInv'
<1>1. attempts' \in [Executions -> 0 .. MaxAttempts]
  <2>1. attempts[e] + 1 \in 0 .. MaxAttempts
    BY InventoryAssumption DEF InventoryAssumption, InventoryInv, ReadInventory
  <2> QED BY <2>1 DEF InventoryInv, ReadInventory
<1>2. output' \in [Executions -> Outputs \cup {Empty}]
  BY DEF InventoryInv, ReadInventory
<1>3. /\ DOMAIN seen' = Executions /\ \A d \in Executions : IsABag(seen'[d])
      /\ ~deleted => \A d \in Executions : DOMAIN seen'[d] \subseteq DOMAIN inventory
  BY DEF InventoryInv, ReadInventory
<1>4. phase' \in [Executions -> {"idle", "reading", "done", "failed"}]
  BY DEF InventoryInv, ReadInventory
<1>5. UNCHANGED <<inventory, firsts, suspect, deleted, interrupted>>
  BY DEF ReadInventory
<1> QED BY <1>1, <1>2, <1>3, <1>4, <1>5, FirstsStay DEF InventoryInv

(* A job that commits: no other execution was linked first to a row it     *)
(* inserts, and no link it makes is taken back.                            *)
LEMMA PersistInv ==
    ASSUME InventoryInv, NEW e \in Executions, Persist(e)
    PROVE  InventoryInv'
<1> DEFINE s == Session(e)
<1>1. ~deleted /\ s.ok /\ inventory' = s.rows /\ firsts' = firsts \cup s.firsts
  BY DEF Persist
<1>2. /\ IsABag(s.rows) /\ Distinct(s.rows) /\ DOMAIN inventory \subseteq DOMAIN s.rows
      /\ \A row \in NewRows(s) : <<e, row>> \in s.firsts
      /\ \A first \in s.firsts : \E row \in NewRows(s) :
            first = <<e, row>> /\ LinkTo(e, row) \in DOMAIN s.rows
  BY <1>1, ReadableInv, SessionRecords
<1> HIDE DEF s
<1>3. phase' \in [Executions -> {"idle", "reading", "done", "failed"}] /\ suspect' \subseteq Executions
  BY DEF Persist, InventoryInv
<1>4. \A first \in firsts' : \E d \in Executions, row \in DOMAIN inventory' :
         first = <<d, row>> /\ row[1] \in Linked /\ LinkTo(d, row) \in DOMAIN inventory'
  <2>1. ASSUME NEW first \in firsts
        PROVE  \E d \in Executions, row \in DOMAIN s.rows :
                  first = <<d, row>> /\ row[1] \in Linked /\ LinkTo(d, row) \in DOMAIN s.rows
    BY <1>2 DEF InventoryInv, FirstsInv
  <2>2. ASSUME NEW first \in s.firsts
        PROVE  \E d \in Executions, row \in DOMAIN s.rows :
                  first = <<d, row>> /\ row[1] \in Linked /\ LinkTo(d, row) \in DOMAIN s.rows
    BY <1>2 DEF NewRows
  <2> QED BY <1>1, <2>1, <2>2
<1>5. \A row \in DOMAIN inventory' : row[1] \in Linked => \E d \in Executions : <<d, row>> \in firsts'
  BY <1>1, <1>2 DEF NewRows, InventoryInv, FirstsInv
<1>6. \A first \in firsts : \E d \in Executions, row \in DOMAIN inventory : first = <<d, row>>
  BY DEF InventoryInv, FirstsInv
<1>7. \A c, d \in Executions, row \in DOMAIN inventory' :
         <<c, row>> \in firsts' /\ <<d, row>> \in firsts' => c = d
  <2>1. ASSUME NEW d \in Executions, NEW row, <<d, row>> \in firsts'
        PROVE  IF row \in DOMAIN inventory THEN <<d, row>> \in firsts ELSE d = e
    <3>1. CASE <<d, row>> \in firsts
      BY <1>6, <3>1
    <3>2. CASE <<d, row>> \in s.firsts
      BY <1>2, <3>2 DEF NewRows
    <3> QED BY <1>1, <2>1, <3>1, <3>2
  <2>2. \A c, d \in Executions, row \in DOMAIN inventory :
           <<c, row>> \in firsts /\ <<d, row>> \in firsts => c = d
    BY DEF InventoryInv, FirstsInv
  <2> QED BY <2>1, <2>2
<1>8. FirstsInv'
  BY <1>4, <1>5, <1>7 DEF FirstsInv, LinkTo
<1>9. UNCHANGED <<output, seen, attempts, deleted>> /\ interrupted' \subseteq Executions
  BY DEF Persist, InventoryInv
<1>10. \A d \in Executions : IsABag(seen'[d]) /\ DOMAIN seen'[d] \subseteq DOMAIN inventory'
  BY <1>1, <1>2, <1>9 DEF InventoryInv
<1>11. IsABag(inventory') /\ Distinct(inventory')
  BY <1>1, <1>2
<1> QED BY <1>3, <1>8, <1>9, <1>10, <1>11 DEF InventoryInv, Distinct

(* The target goes: what stays is about no host, and no job is told first. *)
LEMMA DeleteTargetInv ==
    ASSUME InventoryInv, DeleteTarget
    PROVE  InventoryInv' /\ \A row \in DOMAIN inventory' : row[1] = "orphan"
<1>1. /\ DOMAIN inventory' = {row \in DOMAIN inventory : row[1] = "orphan"}
      /\ \A row \in DOMAIN inventory' : inventory'[row] = inventory[row]
      /\ inventory' = [row \in DOMAIN inventory' |-> inventory'[row]]
      /\ firsts' = {} /\ deleted' = TRUE
  BY DEF DeleteTarget
<1>2. IsABag(inventory')
  BY <1>1 DEF InventoryInv, IsABag
<1>3. Distinct(inventory')
  BY <1>1 DEF InventoryInv, Distinct
<1>4. FirstsInv'
  BY <1>1 DEF FirstsInv, Linked
<1>5. UNCHANGED <<phase, output, seen, attempts, suspect, interrupted>>
  BY DEF DeleteTarget
<1> QED BY <1>1, <1>2, <1>3, <1>4, <1>5 DEF InventoryInv, Distinct

(* Every step keeps the invariant.                                         *)
LEMMA InventoryStepInv ==
    ASSUME InventoryInv, [InventoryNext]_inventoryVars
    PROVE  InventoryInv'
<1>1. ASSUME NEW e \in Executions, ReadInventory(e) PROVE InventoryInv'
  BY <1>1, ReadInventoryInv
<1>2. ASSUME NEW e \in Executions, Persist(e) PROVE InventoryInv'
  BY <1>2, PersistInv
<1>3. ASSUME NEW e \in Executions, RollBack(e) PROVE InventoryInv'
  <2>1. phase' \in [Executions -> {"idle", "reading", "done", "failed"}]
    BY <1>3 DEF RollBack, InventoryInv
  <2>2. UNCHANGED <<inventory, firsts, output, seen, suspect, deleted>>
        /\ interrupted' \subseteq Executions
    BY <1>3 DEF RollBack, InventoryInv
  <2>3. attempts' \in [Executions -> 0 .. MaxAttempts]
    BY <1>3, InventoryAssumption DEF RollBack, InventoryInv, InventoryAssumption
  <2> QED BY <2>1, <2>2, <2>3, FirstsStay DEF InventoryInv
<1>5. ASSUME NEW e \in Executions, Interrupt(e) PROVE InventoryInv'
  <2>1. UNCHANGED <<inventory, firsts, phase, output, seen, attempts, suspect, deleted>>
        /\ interrupted' \subseteq Executions
    BY <1>5 DEF Interrupt, InventoryInv
  <2> QED BY <2>1, FirstsStay DEF InventoryInv
<1>6. DeleteTarget => InventoryInv'
  BY DeleteTargetInv
<1>4. ASSUME UNCHANGED inventoryVars PROVE InventoryInv'
  BY <1>4, FirstsStay DEF InventoryInv, inventoryVars
<1> QED BY <1>1, <1>2, <1>3, <1>4, <1>5, <1>6 DEF InventoryNext

(* An inventory with no rows.                                              *)
LEMMA InventoryInitInv ==
    ASSUME InventoryInit
    PROVE  InventoryInv
<1>1. IsABag(EmptyBag) /\ DOMAIN EmptyBag = {}
  BY DEF EmptyBag, SetToBag, IsABag
<1>2. \A e \in Executions : IsABag(seen[e]) /\ DOMAIN seen[e] \subseteq DOMAIN inventory
  <2>1. \A e \in Executions : seen[e] = EmptyBag
    BY DEF InventoryInit
  <2>2. inventory = EmptyBag
    BY DEF InventoryInit
  <2> QED BY <1>1, <2>1, <2>2
<1>3. DOMAIN seen = Executions /\ FirstsInv
  BY <1>1 DEF InventoryInit, FirstsInv
<1>4. IsABag(inventory) /\ Distinct(inventory)
  BY <1>1 DEF InventoryInit, Distinct
<1>5. attempts \in [Executions -> 0 .. MaxAttempts]
  BY InventoryAssumption DEF InventoryInit, InventoryAssumption
<1>6. /\ phase \in [Executions -> {"idle", "reading", "done", "failed"}]
      /\ output \in [Executions -> Outputs \cup {Empty}]
      /\ suspect \subseteq Executions /\ deleted \in BOOLEAN /\ interrupted \subseteq Executions
  BY DEF InventoryInit
<1> QED BY <1>2, <1>3, <1>4, <1>5, <1>6 DEF InventoryInv

(* The inventory's rows keep their unique keys, what a job read is still   *)
(* there, and every linked row was new to exactly one job.                 *)
THEOREM InventoryInvHolds == InventorySpec => []InventoryInv
<1>1. InventoryInit => InventoryInv
  BY InventoryInitInv
<1>2. InventoryInv /\ [InventoryNext]_inventoryVars => InventoryInv'
  BY InventoryStepInv
<1> QED BY <1>1, <1>2, PTL DEF InventorySpec

(* The state variables keep their types; in particular is_new is said only *)
(* of rows that exist.                                                     *)
THEOREM InventoryTypes == InventorySpec => []InventoryTypeOK
<1>1. InventoryInv => InventoryTypeOK
  <2> SUFFICES ASSUME InventoryInv PROVE InventoryTypeOK
    OBVIOUS
  <2>1. firsts \subseteq Executions \X DOMAIN inventory
    BY DEF InventoryInv, FirstsInv
  <2> QED BY <2>1 DEF InventoryInv, InventoryTypeOK
<1> QED BY <1>1, InventoryInvHolds, PTL

(* However the jobs' lookups and writes overlap, every host and            *)
(* observation persist() has written was new to exactly one execution, and *)
(* has the link that says so (host_inventory_service.py's is_new).         *)
THEOREM FirstsAreDiscoveries == InventorySpec => []DiscoveredOnce
<1>1. InventoryInv => DiscoveredOnce
  <2> SUFFICES ASSUME InventoryInv, NEW row \in BagToSet(inventory), row[1] \in Linked
               PROVE  /\ Cardinality({e \in Executions : <<e, row>> \in firsts}) = 1
                      /\ \A e \in Executions : <<e, row>> \in firsts =>
                            BagIn(Row("link", <<e, row>>), inventory)
    BY DEF DiscoveredOnce
  <2>1. row \in DOMAIN inventory
    BY DEF BagToSet
  <2>2. PICK e \in Executions : <<e, row>> \in firsts
    BY <2>1 DEF InventoryInv, FirstsInv
  <2>3. {d \in Executions : <<d, row>> \in firsts} = {e}
    BY <2>1, <2>2 DEF InventoryInv, FirstsInv
  <2>4. Cardinality({d \in Executions : <<d, row>> \in firsts}) = 1
    BY <2>3, FS_Singleton
  <2>5. \A d \in Executions : <<d, row>> \in firsts => LinkTo(d, row) \in DOMAIN inventory
    BY DEF InventoryInv, FirstsInv
  <2> QED BY <2>4, <2>5 DEF LinkTo, BagIn, BagToSet
<1> QED BY <1>1, InventoryInvHolds, PTL

-----------------------------------------------------------------------------
(* An output that names nothing twice, written over what its job read.     *)
Clean(e) == seen[e] = inventory /\ ~NamesTwice(RowsOf(output[e]))
Single(bag) == \A row \in DOMAIN bag : row[1] = "os" => bag[row] = 1

(* After k rows, one that waits was named with no flush since, and a row   *)
(* that an insert flushes was named.                                       *)
Waited(rows, k, row) ==
    \E m \in 1 .. k : rows[m] = row /\ \A x \in m .. k : ~FlushesAt(rows, x)

Tidy(w, e, k) ==
    /\ Single(w.rows)
    /\ \A row \in ToSet(w.pending) : row[1] \in Late =>
          Once(w.pending, row) /\ row \notin DOMAIN w.rows /\ Waited(RowsOf(output[e]), k, row)
    /\ \A row \in DOMAIN w.rows \ DOMAIN inventory : row[1] \in FlushedAtOnce =>
          \E m \in 1 .. k : RowsOf(output[e])[m] = row

(* A row is in a sequence once when one more element is another row, or is *)
(* the row itself and it was not there.                                    *)
LEMMA AppendedOnce ==
    ASSUME NEW S, NEW s \in Seq(S), NEW x
    PROVE  /\ x \notin ToSet(s) => Once(Append(s, x), x)
           /\ \A row : row # x /\ Once(s, row) => Once(Append(s, x), row)
<1>1. /\ DOMAIN Append(s, x) = 1 .. Len(s) + 1 /\ DOMAIN s = 1 .. Len(s) /\ Len(s) \in Nat
      /\ \A i \in 1 .. Len(s) : Append(s, x)[i] = s[i]
      /\ Append(s, x)[Len(s) + 1] = x
  OBVIOUS
<1>2. \A i \in DOMAIN Append(s, x) : i \in 1 .. Len(s) \/ i = Len(s) + 1
  BY <1>1
<1> DEFINE a == Append(s, x)
<1> HIDE DEF a
<1>3. ASSUME NEW row, row # x, Once(s, row), NEW i \in DOMAIN a, NEW j \in DOMAIN a, a[i] = row, a[j] = row
      PROVE  i = j
  BY <1>1, <1>2, <1>3 DEF Once, a
<1>4. ASSUME x \notin ToSet(s), NEW i \in DOMAIN a, a[i] = x
      PROVE  i = Len(s) + 1
  BY <1>1, <1>2, <1>4 DEF ToSet, a
<1> QED BY <1>3, <1>4 DEF Once, a

(* Then a session sees every row there is but those that wait.             *)
LEMMA Sees ==
    ASSUME NEW e, NEW w, IsSession(w, e), Records(w, e), Clean(e)
    PROVE  Visible(w) = w.rows
  BY DEF IsSession, Records, Clean, Visible

(* A merge keeps a session tidy: a row waits a second time only if the     *)
(* output names it twice with no flush in between.                         *)
LEMMA TidyMerge ==
    ASSUME NEW e, NEW w, IsSession(w, e), Records(w, e), Clean(e), NEW n \in Nat,
           DOMAIN RowsOf(output[e]) = 1 .. n, NEW k \in 0 .. n - 1, Tidy(w, e, k),
           NEW row \in Named(e), row = RowsOf(output[e])[k + 1], row[1] \in Kinds,
           Merge(w, e, row).ok
    PROVE  Tidy(Merge(w, e, row), e, k + 1)
<1> DEFINE v == Merge(w, e, row)
           rows == RowsOf(output[e])
<1>1. Becomes(w, v, e, row)
  BY Merged DEF Records
<1> HIDE DEF v, rows
<1>2. Visible(w) = w.rows
  BY Sees
<1>3. k + 1 \in 1 .. n /\ rows[k + 1] = row /\ 1 .. k \subseteq 1 .. k + 1
  BY DEF rows
<1>4. /\ \A r \in ToSet(w.pending) : r[1] \in Late \cup {"link"} /\ r[1] \notin FlushedAtOnce
      /\ LinkTo(e, row)[1] \notin Late
  BY <1>1, PendableKinds DEF Becomes, LinkTo, Row, Late
<1>5. ASSUME NEW r \in DOMAIN w.rows \ DOMAIN inventory, r[1] \in FlushedAtOnce
      PROVE  \E m \in 1 .. k + 1 : rows[m] = r
  BY <1>3, <1>5 DEF Tidy, rows
<1>6. CASE Flushes(w, row)
  <2> DEFINE more == Append(w.pending, row)
  <2>1. /\ v.rows = Added(w.rows, more) /\ more \in Seq(Pendable(e) \cup {row}) /\ IsABag(w.rows)
        /\ ToSet(more) = ToSet(w.pending) \cup {row}
        /\ DOMAIN v.rows = DOMAIN w.rows \cup ToSet(w.pending) \cup {row}
    BY <1>1, <1>6 DEF Becomes
  <2> HIDE DEF more
  <2>0. Adds(w.rows, more, v.rows)
    BY <2>1, AddedRows
  <2>2. \A r \in ToSet(v.pending) : r[1] \notin Late
    BY <1>1, <1>4, <1>6 DEF Becomes, Waits, Flushes
  <2>3. ASSUME NEW r \in DOMAIN v.rows, r[1] = "os" PROVE v.rows[r] = 1
    <3>1. CASE r \in ToSet(w.pending)
      <4>1. Once(w.pending, r) /\ r \notin DOMAIN w.rows /\ r # row
        BY <1>6, <2>3, <3>1 DEF Tidy, Late, Flushes, FlushedAtOnce
      <4>2. Once(more, r)
        BY <4>1, AppendedOnce DEF IsSession, more
      <4>3. r \in ToSet(more)
        BY <2>1, <3>1
      <4> QED BY <2>0, <4>1, <4>2, <4>3 DEF Adds
    <3>2. CASE r \notin ToSet(w.pending)
      <4>1. r # row
        BY <1>6, <2>3 DEF Flushes, FlushedAtOnce
      <4>2. r \in DOMAIN w.rows /\ r \notin ToSet(more)
        BY <2>1, <3>2, <4>1
      <4> QED BY <2>0, <2>3, <4>2 DEF Adds, Tidy, Single
    <3> QED BY <3>1, <3>2
  <2>4. ASSUME NEW r \in DOMAIN v.rows \ DOMAIN inventory, r[1] \in FlushedAtOnce
        PROVE  \E m \in 1 .. k + 1 : rows[m] = r
    <3>1. k + 1 \in 1 .. k + 1
      OBVIOUS
    <3> QED BY <1>3, <1>4, <1>5, <2>1, <2>4, <3>1
  <2> QED BY <2>2, <2>3, <2>4 DEF Tidy, Single, v, rows
<1>7. CASE ~Flushes(w, row)
  <2>1. v.rows = w.rows
    BY <1>1, <1>7 DEF Becomes
  <2>2. ~FlushesAt(rows, k + 1)
    <3> SUFFICES ASSUME FlushesAt(rows, k + 1) PROVE FALSE
      OBVIOUS
    <3>1. row[1] \in FlushedAtOnce /\ row \notin DOMAIN inventory /\ \A m \in 1 .. k : rows[m] # row
      BY <1>3 DEF FlushesAt, BagIn, BagToSet
    <3>2. row \notin DOMAIN w.rows
      BY <3>1 DEF Tidy, rows
    <3>3. Found(w, row) = 0
      BY <1>2, <3>2 DEF Found, Copies, BagIn, BagToSet
    <3> QED BY <1>7, <3>1, <3>3 DEF Flushes
  <2>3. ASSUME NEW r, Waited(rows, k, r) PROVE Waited(rows, k + 1, r)
    <3>1. PICK m \in 1 .. k : rows[m] = r /\ \A x \in m .. k : ~FlushesAt(rows, x)
      BY <2>3 DEF Waited
    <3>2. m \in 1 .. k + 1 /\ \A x \in m .. k + 1 : x \in m .. k \/ x = k + 1
      OBVIOUS
    <3> QED BY <2>2, <3>1, <3>2 DEF Waited
  <2>4. ASSUME Waits(w, row)
        PROVE  row[1] \in Late /\ row \notin ToSet(w.pending) /\ row \notin DOMAIN w.rows
    <3>1. row[1] \in Late
      BY <2>4 DEF Waits, Kinds, FlushedAtOnce, Late
    <3>2. row \notin DOMAIN w.rows
      BY <1>2, <2>4, <3>1, NotFound DEF Waits, Late
    <3>3. ASSUME row \in ToSet(w.pending) PROVE FALSE
      <4>1. PICK m \in 1 .. k : rows[m] = row /\ \A x \in m .. k : ~FlushesAt(rows, x)
        BY <3>1, <3>3 DEF Tidy, Waited, rows
      <4>2. \A x \in m .. k + 1 : ~FlushesAt(rows, x)
        <5>1. \A x \in m .. k + 1 : x \in m .. k \/ x = k + 1
          OBVIOUS
        <5> QED BY <2>2, <4>1, <5>1
      <4>3. m \in DOMAIN rows /\ k + 1 \in DOMAIN rows /\ m < k + 1
        BY DEF rows
      <4>4. rows[m][1] \in {"interface", "technology", "os"}
        BY <3>1, <4>1 DEF Late
      <4>5. NamesTwice(rows)
        BY <1>3, <4>1, <4>2, <4>3, <4>4 DEF NamesTwice
      <4> QED BY <4>5 DEF Clean, rows
    <3> QED BY <3>1, <3>2, <3>3
  <2>5. Left(w, row) \in Seq(Pendable(e) \cup {row})
    BY DEF Left, IsSession
  <2>6. ASSUME NEW r \in ToSet(v.pending), r[1] \in Late
        PROVE  Once(v.pending, r) /\ r \notin DOMAIN v.rows /\ Waited(rows, k + 1, r)
    <3>1. r \in ToSet(w.pending) \/ (Waits(w, row) /\ r = row)
      BY <1>1, <1>4, <1>7, <2>6 DEF Becomes
    <3>2. CASE r \in ToSet(w.pending)
      <4>1. Once(w.pending, r) /\ r \notin DOMAIN w.rows /\ Waited(rows, k, r)
        BY <2>6, <3>2 DEF Tidy, rows
      <4>2. Once(Left(w, row), r)
        <5>1. Waits(w, row) => r # row
          BY <2>4, <3>2
        <5> QED BY <1>7, <4>1, <5>1, AppendedOnce DEF Left, IsSession
      <4>3. Once(v.pending, r)
        BY <1>1, <1>4, <2>5, <2>6, <4>2, AppendedOnce DEF Becomes
      <4> QED BY <2>1, <2>3, <4>1, <4>3
    <3>3. CASE Waits(w, row) /\ r = row
      <4>1. Once(Left(w, row), r)
        BY <1>7, <2>4, <3>3, AppendedOnce DEF Left, IsSession
      <4>2. Once(v.pending, r)
        BY <1>1, <1>4, <2>5, <2>6, <4>1, AppendedOnce DEF Becomes
      <4>3. Waited(rows, k + 1, r)
        <5>1. k + 1 \in 1 .. k + 1 /\ \A x \in k + 1 .. k + 1 : x = k + 1
          OBVIOUS
        <5> QED BY <1>3, <2>2, <3>3, <5>1 DEF Waited
      <4> QED BY <2>1, <2>4, <3>3, <4>2, <4>3
    <3> QED BY <3>1, <3>2, <3>3
  <2>7. Single(v.rows) /\ \A r \in DOMAIN v.rows \ DOMAIN inventory :
           r[1] \in FlushedAtOnce => \E m \in 1 .. k + 1 : rows[m] = r
    BY <1>5, <2>1 DEF Tidy
  <2> QED BY <2>6, <2>7 DEF Tidy, v, rows
<1> QED BY <1>6, <1>7

(* A session begins tidy.                                                  *)
LEMMA TidyOpening ==
    ASSUME NEW e, Single(inventory)
    PROVE  Tidy(Opened(e), e, 0)
<1>1. Opened(e).rows = inventory /\ Opened(e).pending = <<>>
  BY DEF Opened
<1>2. ToSet(<<>>) = {}
  BY DEF ToSet
<1> QED BY <1>1, <1>2 DEF Tidy

(* The commit of a tidy session.                                           *)
LEMMA TidyCommit ==
    ASSUME NEW e, NEW w, IsSession(w, e), NEW k \in Nat, Tidy(w, e, k)
    PROVE  Single(Added(w.rows, w.pending))
<1> DEFINE after == Added(w.rows, w.pending)
<1>1. /\ w.pending \in Seq(Pendable(e)) /\ IsABag(w.rows)
      /\ \A r \in ToSet(w.pending) : r[1] \in Late \cup {"link"}
  BY PendableKinds DEF IsSession, ToSet
<1>2. Adds(w.rows, w.pending, after)
  BY <1>1, AddedRows
<1> HIDE DEF after
<1>3. ASSUME NEW r \in DOMAIN after, r[1] = "os" PROVE after[r] = 1
  <2>1. CASE r \in ToSet(w.pending)
    BY <1>2, <1>3, <2>1 DEF Adds, Tidy, Late
  <2>2. CASE r \notin ToSet(w.pending)
    BY <1>2, <1>3, <2>2 DEF Adds, Tidy, Single
  <2> QED BY <2>1, <2>2
<1> QED BY <1>3 DEF Single, after

(* A session that stands throughout stays tidy.                            *)
LEMMA SessionTidy ==
    ASSUME NEW e, Readable(e), Clean(e), Single(inventory), Session(e).ok
    PROVE  Single(Session(e).rows)
<1> DEFINE rows == RowsOf(output[e])
<1>0. PICK n \in Nat : \E acc : Recorded(e, n, acc)
  BY Recording
<1>1. PICK acc :
         /\ DOMAIN rows = 1 .. n /\ \A k \in 1 .. n : rows[k] \in Named(e)
         /\ \A row \in Named(e) : row[1] \in Kinds
         /\ acc[0] = Opened(e) /\ Session(e) = Flush(acc[n])
         /\ \A k \in 1 .. n : acc[k] = Merge(acc[k - 1], e, rows[k])
         /\ \A k \in 0 .. n : IsSession(acc[k], e) /\ (acc[k].ok => Records(acc[k], e))
  BY <1>0 DEF Recorded
<1> HIDE DEF rows
<1> DEFINE S == {k \in 0 .. n : acc[k].ok => Tidy(acc[k], e, k)}
<1>2. acc[0].ok => Tidy(acc[0], e, 0)
  BY <1>1, TidyOpening
<1>3. ASSUME NEW k \in 0 .. n - 1, acc[k].ok => Tidy(acc[k], e, k), acc[k + 1].ok
      PROVE  Tidy(acc[k + 1], e, k + 1)
  <2> DEFINE w == acc[k]
             row == rows[k + 1]
  <2>1. /\ acc[k + 1] = Merge(w, e, row) /\ row \in Named(e) /\ row[1] \in Kinds
        /\ IsSession(w, e) /\ (w.ok => Records(w, e)) /\ (w.ok => Tidy(w, e, k))
    BY <1>1, <1>3
  <2> HIDE DEF w
  <2>2. Merge(w, e, row).ok
    BY <1>3, <2>1
  <2>3. w.ok
    <3> HIDE DEF row
    <3> QED BY <2>1, <2>2, MergeFacts DEF Merges
  <2>4. row = RowsOf(output[e])[k + 1] /\ DOMAIN RowsOf(output[e]) = 1 .. n
    BY <1>1 DEF rows
  <2> HIDE DEF row
  <2> QED BY <2>1, <2>2, <2>3, <2>4, TidyMerge
<1>4. n \in S
  <2>1. 0 \in S /\ \A k \in 0 .. n - 1 : k \in S => k + 1 \in S
    BY <1>2, <1>3
  <2> HIDE DEF S
  <2> QED BY <2>1, UpTo
<1>5. IsSession(acc[n], e) /\ acc[n].ok
  <2>1. IsSession(acc[n], e)
    BY <1>1
  <2> QED BY <1>1, <2>1, Commits
<1>6. Single(Added(acc[n].rows, acc[n].pending))
  BY <1>4, <1>5, TidyCommit
<1> QED BY <1>1, <1>5, <1>6, Commits

SystemsInv == suspect = {} => Single(inventory)

(* As long as no job wrote over an inventory that changed since it read    *)
(* it, and no output named a row twice, every host has each operating      *)
(* system once, although no unique key says so.                            *)
THEOREM SystemsAreSingle == InventorySpec => []OneRowPerSystem
<1>1. InventoryInit => SystemsInv
  BY DEF InventoryInit, SystemsInv, Single, EmptyBag, SetToBag
<1>2. InventoryInv /\ SystemsInv /\ [InventoryNext]_inventoryVars => SystemsInv'
  <2> SUFFICES ASSUME InventoryInv, SystemsInv, [InventoryNext]_inventoryVars PROVE SystemsInv'
    OBVIOUS
  <2>1. ASSUME NEW e \in Executions, Persist(e), suspect' = {} PROVE Single(inventory')
    <3>1. ~deleted /\ Clean(e) /\ suspect = {} /\ Session(e).ok /\ inventory' = Session(e).rows
      BY <2>1 DEF Persist, Clean
    <3> QED BY <3>1, ReadableInv, SessionTidy DEF SystemsInv
  <2>2. ASSUME UNCHANGED <<inventory, suspect>> PROVE SystemsInv'
    BY <2>2 DEF SystemsInv, Single
  <2>3. \A e \in Executions : ReadInventory(e) \/ Interrupt(e) \/ RollBack(e) =>
                              UNCHANGED <<inventory, suspect>>
    BY DEF ReadInventory, Interrupt, RollBack
  <2>4. DeleteTarget => SystemsInv'
    BY DeleteTargetInv DEF SystemsInv, Single
  <2> QED BY <2>1, <2>2, <2>3, <2>4 DEF InventoryNext, SystemsInv, inventoryVars, Single
<1>3. InventoryInv /\ SystemsInv => OneRowPerSystem
  BY DEF InventoryInv, SystemsInv, OneRowPerSystem, Single, Copies, BagIn, BagToSet
<1> QED BY <1>1, <1>2, <1>3, InventoryInvHolds, PTL DEF InventorySpec

-----------------------------------------------------------------------------
(* A job that was never linked to anything: what it touched is what it     *)
(* linked, once.                                                           *)
Linkless(e) == \A row \in DOMAIN inventory : ~(row[1] = "link" /\ row[2][1] = e)

Clear(w, e, k) ==
    /\ \A row : LinkTo(e, row) \in DOMAIN w.rows \cup ToSet(w.pending) => row \in w.touched
    /\ \A row \in w.touched : \E m \in 1 .. k : RowsOf(output[e])[m] = row
    /\ \A row \in ToSet(w.pending) : row[1] = "link" =>
          Once(w.pending, row) /\ row \notin DOMAIN w.rows

(* A session of such a job begins with nothing touched.                    *)
LEMMA ClearOpening ==
    ASSUME NEW e, Linkless(e)
    PROVE  Clear(Opened(e), e, 0)
<1>1. Opened(e).rows = inventory /\ Opened(e).pending = <<>> /\ Opened(e).touched = {}
  BY DEF Opened
<1>2. ToSet(<<>>) = {}
  BY DEF ToSet
<1>3. \A row : LinkTo(e, row)[1] = "link" /\ LinkTo(e, row)[2][1] = e
  BY DEF LinkTo, Row
<1> QED BY <1>1, <1>2, <1>3 DEF Clear, Linkless

(* Rows that wait, each once and new, flush without breaking a key.        *)
LEMMA FlushesUniquely ==
    ASSUME NEW bag, IsABag(bag), NEW U, NEW rows \in Seq(U),
           \A row \in ToSet(rows) : Unique(row) => Once(rows, row) /\ row \notin DOMAIN bag
    PROVE  Uniquely(rows, Added(bag, rows))
<1>1. Adds(bag, rows, Added(bag, rows))
  BY AddedRows
<1> QED BY <1>1 DEF Adds, Uniquely, Copies, BagIn, BagToSet

(* A merge that adds to a tidy session neither finds two rows for one nor  *)
(* inserts a key twice, and links what it touches once.                    *)
LEMMA ClearMerge ==
    ASSUME NEW e, NEW w, IsSession(w, e), Records(w, e), Clean(e), NEW n \in Nat,
           DOMAIN RowsOf(output[e]) = 1 .. n, NEW k \in 0 .. n - 1, Tidy(w, e, k), Clear(w, e, k),
           NEW row \in Named(e), row = RowsOf(output[e])[k + 1], row[1] \in Kinds, w.ok
    PROVE  Merge(w, e, row).ok /\ Clear(Merge(w, e, row), e, k + 1)
<1> DEFINE v == Merge(w, e, row)
           rows == RowsOf(output[e])
           more == Append(w.pending, row)
<1> HIDE DEF v, rows, more
<1>1. Visible(w) = w.rows
  BY Sees
<1>2. /\ w.pending \in Seq(Pendable(e)) /\ ToSet(w.pending) \subseteq Pendable(e) /\ IsABag(w.rows)
      /\ more \in Seq(Pendable(e) \cup {row}) /\ ToSet(more) = ToSet(w.pending) \cup {row}
  <2>1. w.pending \in Seq(Pendable(e)) /\ IsABag(w.rows)
    BY DEF IsSession
  <2>2. ToSet(w.pending) \subseteq Pendable(e) /\ more \in Seq(Pendable(e) \cup {row})
    BY <2>1 DEF ToSet, more
  <2> QED BY <2>1, <2>2, Appended DEF more
<1>3. \A r \in ToSet(w.pending) : r[1] \in Late \cup {"link"} /\ r[1] \notin FlushedAtOnce
  BY <1>2, PendableKinds
<1>4. Found(w, row) <= 1
  <2>1. CASE row[1] = "orphan"
    BY <2>1 DEF Found
  <2>2. CASE row[1] # "orphan"
    <3>1. row \in DOMAIN w.rows => w.rows[row] = 1
      <4>1. row[1] # "os" => Unique(row)
        BY <2>2 DEF Unique, NotUnique
      <4> QED BY <4>1 DEF Records, Distinct, Tidy, Single
    <3> QED BY <1>1, <2>2, <3>1 DEF Found, Copies, BagIn, BagToSet
  <2> QED BY <2>1, <2>2
<1>5. Flushes(w, row) => Uniquely(more, Added(w.rows, more))
  <2> SUFFICES ASSUME Flushes(w, row), NEW r \in ToSet(more), Unique(r)
               PROVE  Once(more, r) /\ r \notin DOMAIN w.rows
    BY <1>2, FlushesUniquely
  <2>1. CASE r \in ToSet(w.pending)
    <3>1. r # row /\ Once(w.pending, r) /\ r \notin DOMAIN w.rows
      BY <1>3, <2>1 DEF Flushes, Tidy, Clear
    <3> QED BY <1>2, <3>1, AppendedOnce DEF more
  <2>2. CASE r = row
    <3>1. row \notin ToSet(w.pending)
      BY <1>3 DEF Flushes
    <3>2. row \notin DOMAIN w.rows
      BY <1>1, <2>2, NotFound DEF Flushes, Unique, NotUnique
    <3> QED BY <1>2, <2>2, <3>1, <3>2, AppendedOnce DEF more
  <2> QED BY <1>2, <2>1, <2>2
<1>6. v.ok
  <2>1. Merges(w, v, e, row)
    BY MergeFacts DEF v
  <2> QED BY <1>4, <1>5, <2>1 DEF Merges, more
<1>7. Becomes(w, v, e, row)
  BY <1>6, Merged DEF Records, v
<1>8. DOMAIN v.rows = DOMAIN w.rows \cup (IF Flushes(w, row) THEN ToSet(w.pending) \cup {row} ELSE {})
  BY <1>7 DEF Becomes
<1>9. row[1] # "link" /\ \A r : LinkTo(e, r) # row
  BY DEF Kinds, LinkTo, Row
<1>10. \A q, r : LinkTo(e, q) = LinkTo(e, r) => q = r
  BY DEF LinkTo, Row
<1>11. Links(w, row) => row \notin w.touched
  <2> SUFFICES ASSUME Links(w, row), row \in w.touched PROVE FALSE
    OBVIOUS
  <2>1. row[1] = "observation"
    BY DEF Links, Linked
  <2>2. PICK m \in 1 .. k : rows[m] = row
    BY DEF Clear, rows
  <2>3. m \in DOMAIN rows /\ k + 1 \in DOMAIN rows /\ m < k + 1 /\ rows[k + 1] = row
    BY DEF rows
  <2>4. NamesTwice(rows)
    BY <2>1, <2>2, <2>3 DEF NamesTwice
  <2> QED BY <2>4 DEF Clean, rows
<1>12. ASSUME NEW r, LinkTo(e, r) \in DOMAIN v.rows \cup ToSet(v.pending)
       PROVE  r \in v.touched
  <2>1. LinkTo(e, r) \in DOMAIN w.rows \cup ToSet(w.pending) \/ (Links(w, row) /\ r = row)
    BY <1>7, <1>8, <1>9, <1>10, <1>12 DEF Becomes
  <2> QED BY <1>7, <2>1 DEF Becomes, Clear
<1>13. \A r \in v.touched : \E m \in 1 .. k + 1 : rows[m] = r
  <2>1. k + 1 \in 1 .. k + 1 /\ rows[k + 1] = row /\ 1 .. k \subseteq 1 .. k + 1
    BY DEF rows
  <2>2. \A r \in w.touched : \E m \in 1 .. k : rows[m] = r
    BY DEF Clear, rows
  <2> QED BY <1>7, <2>1, <2>2 DEF Becomes
<1>14. ASSUME NEW r \in ToSet(v.pending), r[1] = "link"
       PROVE  Once(v.pending, r) /\ r \notin DOMAIN v.rows
  <2>1. Left(w, row) \in Seq(Pendable(e) \cup {row})
    BY <1>2 DEF Left, more
  <2>2. ToSet(Left(w, row)) = (IF Flushes(w, row) THEN {} ELSE ToSet(w.pending))
                              \cup (IF Waits(w, row) THEN {row} ELSE {})
    <3>1. ToSet(<<>>) = {}
      BY DEF ToSet
    <3> QED BY <1>2, <3>1 DEF Left, Flushes, Waits, more
  <2>3. CASE Links(w, row) /\ r = LinkTo(e, row)
    <3>1. r \notin DOMAIN w.rows \cup ToSet(w.pending)
      BY <1>11, <2>3 DEF Clear
    <3>2. r \notin ToSet(Left(w, row)) /\ r \notin DOMAIN v.rows
      BY <1>8, <1>9, <2>2, <2>3, <3>1
    <3> QED BY <1>7, <2>1, <2>3, <3>2, AppendedOnce DEF Becomes
  <2>4. CASE ~(Links(w, row) /\ r = LinkTo(e, row))
    <3>1. r \in ToSet(w.pending) /\ ~Flushes(w, row)
      BY <1>7, <1>9, <1>14, <2>4 DEF Becomes
    <3>2. Once(w.pending, r) /\ r \notin DOMAIN w.rows /\ r # row
      BY <1>9, <1>14, <3>1 DEF Clear
    <3>3. Once(Left(w, row), r)
      BY <1>2, <3>1, <3>2, AppendedOnce DEF Left
    <3>4. Once(v.pending, r)
      BY <1>7, <2>1, <2>4, <3>3, AppendedOnce DEF Becomes
    <3> QED BY <1>8, <3>1, <3>2, <3>4
  <2> QED BY <2>3, <2>4
<1> QED BY <1>6, <1>12, <1>13, <1>14 DEF Clear, v, rows

(* So its session stands to the end.                                       *)
LEMMA SessionStands ==
    ASSUME NEW e, Readable(e), Clean(e), Single(inventory), Linkless(e)
    PROVE  Session(e).ok
<1> DEFINE rows == RowsOf(output[e])
<1>0. PICK n \in Nat : \E acc : Recorded(e, n, acc)
  BY Recording
<1>1. PICK acc :
         /\ DOMAIN rows = 1 .. n /\ \A k \in 1 .. n : rows[k] \in Named(e)
         /\ \A row \in Named(e) : row[1] \in Kinds
         /\ acc[0] = Opened(e) /\ Session(e) = Flush(acc[n])
         /\ \A k \in 1 .. n : acc[k] = Merge(acc[k - 1], e, rows[k])
         /\ \A k \in 0 .. n : IsSession(acc[k], e) /\ (acc[k].ok => Records(acc[k], e))
  BY <1>0 DEF Recorded
<1> HIDE DEF rows
<1> DEFINE Stands(w, k) == w.ok /\ Tidy(w, e, k) /\ Clear(w, e, k)
           S == {k \in 0 .. n : Stands(acc[k], k)}
<1>2. Stands(acc[0], 0)
  <2>1. Opened(e).ok
    BY DEF Opened
  <2> QED BY <1>1, <2>1, TidyOpening, ClearOpening
<1>3. ASSUME NEW k \in 0 .. n - 1, Stands(acc[k], k)
      PROVE  Stands(acc[k + 1], k + 1)
  <2> DEFINE w == acc[k]
             row == rows[k + 1]
  <2>1. /\ acc[k + 1] = Merge(w, e, row) /\ row \in Named(e) /\ row[1] \in Kinds
        /\ IsSession(w, e) /\ w.ok /\ Records(w, e) /\ Tidy(w, e, k) /\ Clear(w, e, k)
    BY <1>1, <1>3
  <2>2. row = RowsOf(output[e])[k + 1] /\ DOMAIN RowsOf(output[e]) = 1 .. n
    BY <1>1 DEF rows
  <2> HIDE DEF w, row
  <2>3. Merge(w, e, row).ok /\ Clear(Merge(w, e, row), e, k + 1)
    BY <2>1, <2>2, ClearMerge
  <2>4. Tidy(Merge(w, e, row), e, k + 1)
    BY <2>1, <2>2, <2>3, TidyMerge
  <2> QED BY <2>1, <2>3, <2>4
<1>4. n \in S
  <2>1. 0 \in S /\ \A k \in 0 .. n - 1 : k \in S => k + 1 \in S
    BY <1>2, <1>3
  <2> HIDE DEF S
  <2> QED BY <2>1, UpTo
<1> DEFINE w == acc[n]
<1>5. Session(e) = Flush(w) /\ IsSession(w, e) /\ w.ok /\ Tidy(w, e, n) /\ Clear(w, e, n)
  BY <1>1, <1>4
<1> HIDE DEF w
<1>6. /\ w.pending \in Seq(Pendable(e)) /\ IsABag(w.rows)
      /\ \A r \in ToSet(w.pending) : r[1] \in Late \cup {"link"}
  BY <1>5, PendableKinds DEF IsSession, ToSet
<1>7. Uniquely(w.pending, Added(w.rows, w.pending))
  <2>1. \A r \in ToSet(w.pending) : Once(w.pending, r) /\ r \notin DOMAIN w.rows
    BY <1>5, <1>6 DEF Tidy, Clear
  <2> QED BY <1>6, <2>1, FlushesUniquely
<1> QED BY <1>5, <1>7, Commits

(* persist() fails, and the results of its job are lost, only for the      *)
(* reasons LosesOutputOnlyIf lists: in a job that is left alone, with its  *)
(* target, an IntegrityError or a MultipleResultsFound has no other cause. *)
THEOREM OutputsLost == InventorySpec => LosesOutputOnlyIf
<1> DEFINE Excused(e) ==
              \/ NamesTwice(RowsOf(output[e]))
              \/ seen[e] # inventory
              \/ \E row \in BagToSet(inventory) : row[1] = "link" /\ row[2][1] = e
              \/ \E row \in BagToSet(inventory) : row[1] = "os" /\ Copies(row, inventory) > 1
              \/ e \in interrupted
              \/ deleted
           Loses(e) == phase[e] = "reading" /\ phase'[e] = "failed" => Excused(e)
<1>1. ASSUME InventoryInv, [InventoryNext]_inventoryVars, NEW e \in Executions,
             phase[e] = "reading", phase'[e] = "failed"
      PROVE  Excused(e)
  <2>1. RollBack(e)
    <3>1. ASSUME NEW d \in Executions, ReadInventory(d) \/ Interrupt(d) \/ Persist(d) PROVE FALSE
      BY <1>1, <3>1 DEF ReadInventory, Interrupt, Persist, InventoryInv
    <3>2. ASSUME NEW d \in Executions, RollBack(d) PROVE d = e
      BY <1>1, <3>2 DEF RollBack, InventoryInv
    <3>3. ~(UNCHANGED inventoryVars \/ DeleteTarget)
      BY <1>1 DEF inventoryVars, DeleteTarget
    <3> QED BY <1>1, <3>1, <3>2, <3>3 DEF InventoryNext
  <2>2. Clean(e) /\ Single(inventory) /\ Linkless(e) => deleted \/ e \in interrupted
    BY <1>1, <2>1, ReadableInv, SessionStands DEF RollBack
  <2>3. ~Single(inventory) =>
           \E row \in BagToSet(inventory) : row[1] = "os" /\ Copies(row, inventory) > 1
    <3>1. \A row \in DOMAIN inventory : inventory[row] \in Nat /\ inventory[row] > 0
      BY <1>1 DEF InventoryInv, IsABag
    <3> QED BY <3>1 DEF Single, Copies, BagIn, BagToSet
  <2> QED BY <2>2, <2>3 DEF Clean, Linkless, BagToSet
<1>2. InventoryInv /\ [InventoryNext]_inventoryVars => [\A e \in Executions : Loses(e)]_inventoryVars
  BY <1>1
<1> QED BY <1>2, InventoryInvHolds, PTL DEF InventorySpec, LosesOutputOnlyIf

=============================================================================
