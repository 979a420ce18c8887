------------------------- MODULE HybridModExp_proofs -------------------------
(***************************************************************************)
(* What modExp promises for every size of a vector, of a slice of the      *)
(* accelerator and of a chunk of the cores, every ratio, any number of     *)
(* clients and of cores: results in their places, nothing left running,    *)
(* and the client's own choice of the ratio.                               *)
(*                                                                         *)
(* The invariant follows one call.  The two halves of its vector are cut   *)
(* into parts of equal length with a shorter last one; what the parts      *)
(* cover when all are done is a fact about division, proved first.  The    *)
(* types come last, with an invariant of their own.                        *)
(***************************************************************************)
EXTENDS HybridModExp, TLAPS

-----------------------------------------------------------------------------
(* The parts of a vector.                                                  *)

LEMMA Division ==
    ASSUME NEW a \in Nat, NEW b \in Nat \ {0}
    PROVE  /\ a \div b \in Nat /\ a % b \in 0 .. b - 1
           /\ a = (b * (a \div b)) + (a % b)
OBVIOUS

LEMMA Quotient ==
    ASSUME NEW b \in Nat \ {0}, NEW x \in Int, NEW r \in 0 .. b - 1,
           NEW a \in Nat, a = (b * x) + r
    PROVE  a \div b = x /\ a % b = r
<1> DEFINE y == a \div b
           s == a % b
<1>1. b * (x - y) = s - r /\ s \in 0 .. b - 1 /\ y \in Int
  BY Division
<1>2. CASE x > y
  <2>1. b * (x - y) >= b
    BY <1>1, <1>2
  <2>. QED BY <1>1, <2>1
<1>3. CASE x < y
  <2>1. b * (x - y) <= -b
    BY <1>1, <1>3
  <2>. QED BY <1>1, <2>1
<1>. QED BY <1>1, <1>2, <1>3

LEMMA Products ==
    ASSUME NEW x \in Int, NEW y \in Int, NEW b \in Nat
    PROVE  /\ x * b \in Int /\ x * b = b * x /\ (x + 1) * b = x * b + b
           /\ x <= y => x * b <= y * b
<1>1. x * b \in Int /\ x * b = b * x /\ (x + 1) * b = x * b + b
  OBVIOUS
<1>2. ASSUME x <= y PROVE x * b <= y * b
  <2>1. (y - x) * b >= 0
    BY <1>2
  <2>2. (y - x) * b = y * b - x * b
    OBVIOUS
  <2>. QED BY <2>1, <2>2
<1>. QED BY <1>1, <1>2

\* The number of parts, in terms of the whole ones and the rest.
LEMMA Parts ==
    ASSUME NEW a \in Nat, NEW b \in Nat \ {0}
    PROVE  /\ a % b = 0 => Ceiling(a, b) = a \div b
           /\ a % b > 0 => Ceiling(a, b) = (a \div b) + 1
           /\ Ceiling(a, b) \in Nat
<1>. DEFINE q == a \div b
            r == a % b
            m == a + b - 1
<1>1. q \in Nat /\ r \in 0 .. b - 1 /\ a = (b * q) + r
  BY Division
<1>2. m \in Nat /\ m = a + b - 1 /\ Ceiling(a, b) = m \div b
  BY DEF Ceiling
<1>. HIDE DEF q, r, m
<1>3. CASE r = 0
  <2>1. m = (b * q) + (b - 1) /\ b - 1 \in 0 .. b - 1 /\ q \in Int
    BY <1>1, <1>2, <1>3
  <2>2. m \div b = q
    BY <1>2, <2>1, Quotient
  <2>. QED BY <1>1, <1>2, <1>3, <2>2 DEF q, r
<1>4. CASE r > 0
  <2>. DEFINE x == q + 1
              s == r - 1
  <2>1. x \in Int /\ s \in 0 .. b - 1
    BY <1>1, <1>4
  <2>2. m = (b * x) + s
    <3>. DEFINE y == b * q
                z == b * x
    <3>1. z = y + b /\ y \in Int /\ a = y + r
      BY <1>1, Products
    <3>. HIDE DEF x, y, z
    <3>2. m = z + s
      BY <1>1, <1>2, <3>1
    <3>. QED BY <3>2 DEF z
  <2>3. x = (a \div b) + 1
    BY DEF q
  <2>. HIDE DEF x, s
  <2>4. m \div b = x
    BY <1>2, <2>1, <2>2, Quotient
  <2>. QED BY <1>1, <1>2, <1>4, <2>3, <2>4 DEF q, r
<1>. QED BY <1>1, <1>3, <1>4

\* Part k of a vector of a elements ends where part k + 1 begins, or at the end.
LEMMA PartEnds ==
    ASSUME NEW a \in Nat, NEW b \in Nat \ {0}, NEW k \in 0 .. Ceiling(a, b) - 1,
           NEW i \in 0 .. a - 1, k * b <= i, i < (k + 1) * b
    PROVE  i <= k * b + (IF k = Ceiling(a, b) - 1 /\ a % b > 0 THEN a % b ELSE b) - 1
<1>. DEFINE q == a \div b
            r == a % b
<1>1. q \in Nat /\ r \in 0 .. b - 1 /\ a = (b * q) + r
  BY Division
<1>a. /\ r = 0 => Ceiling(a, b) = q
      /\ r > 0 => Ceiling(a, b) = q + 1
      /\ Ceiling(a, b) \in Nat
  BY Parts
<1>b. k \in Int
  BY <1>a
<1>. HIDE DEF q, r
<1>2. CASE k = Ceiling(a, b) - 1 /\ r > 0
  <2>1. k = q
    BY <1>1, <1>2, <1>a
  <2>2. k * b = b * q
    BY <1>1, <2>1, Products
  <2>3. i <= k * b + r - 1
    BY <1>1, <2>2
  <2>. QED BY <1>2, <2>3 DEF r
<1>3. CASE ~(k = Ceiling(a, b) - 1 /\ r > 0)
  <2>1. (k + 1) * b = k * b + b /\ k * b \in Int
    BY <1>1, Products
  <2>2. i <= k * b + b - 1
    BY <2>1
  <2>. QED BY <1>3, <2>2 DEF r
<1>. QED BY <1>2, <1>3

\* The parts hold all elements.
LEMMA AllParts ==
    ASSUME NEW a \in Nat, NEW b \in Nat \ {0}
    PROVE  a <= Ceiling(a, b) * b
<1>. DEFINE q == a \div b
            r == a % b
<1>1. q \in Nat /\ r \in 0 .. b - 1 /\ a = (b * q) + r
  BY Division
<1>2. /\ r = 0 => Ceiling(a, b) = q
      /\ r > 0 => Ceiling(a, b) = q + 1
  BY Parts
<1>. HIDE DEF q, r
<1>3. q * b = b * q /\ (q + 1) * b = q * b + b /\ q * b \in Int
  BY <1>1, Products
<1>4. CASE r = 0
  BY <1>1, <1>2, <1>3, <1>4
<1>5. CASE r > 0
  BY <1>1, <1>2, <1>3, <1>5
<1>. QED BY <1>1, <1>4, <1>5

\* Every element is in one of them.
LEMMA PartOf ==
    ASSUME NEW a \in Nat, NEW b \in Nat \ {0}, NEW i \in 0 .. a - 1
    PROVE  \E k \in 0 .. Ceiling(a, b) - 1 : k * b <= i /\ i < (k + 1) * b
<1>. DEFINE k == i \div b
            r == i % b
            n == Ceiling(a, b)
<1>. i \in Nat
  OBVIOUS
<1>1. k \in Nat /\ r \in 0 .. b - 1 /\ i = (b * k) + r
  BY Division
<1>. HIDE DEF k, r
<1>2. k * b = b * k /\ (k + 1) * b = k * b + b /\ k * b \in Int
  BY <1>1, Products
<1>3. k * b <= i /\ i < (k + 1) * b
  BY <1>1, <1>2
<1>4. n \in Nat /\ a <= n * b /\ n * b \in Int
  BY Parts, AllParts, Products
<1>5. n <= k => n * b <= k * b
  BY <1>1, <1>4, Products
<1>6. k \in 0 .. n - 1
  BY <1>1, <1>2, <1>3, <1>4, <1>5
<1>. QED BY <1>3, <1>6

-----------------------------------------------------------------------------
(* The invariant.                                                          *)

\* Every client has its variables.
Shape ==
    /\ process \in {"up", "terminated"}
    /\ chunk_size \in Nat \ {0}
    /\ hybrid \in [Client -> [ratio : Int, mode : Int]]
    /\ chosen \in [Client -> Int]
    /\ stage \in [Client -> {"idle", "running", "returned", "thrown"}]
    /\ job \in [Client -> [size : Nat, ratio : Int, hybrid_qat_size : Nat]]
    /\ qat_thread \in [Client -> {"none", "running", "done"}]
    /\ slice \in [Client -> Nat]
    /\ DOMAIN chunk = Client /\ DOMAIN res = Client
    /\ DOMAIN qat_res = Client /\ DOMAIN ipp_res = Client

\* Outside mode OPTIMAL nobody else has changed the ratio.
ChoiceOK(c) ==
    hybrid[c].mode # OPTIMAL =>
        hybrid[c].ratio = chosen[c] /\ (stage[c] = "running" => job[c].ratio = chosen[c])

\* The vectors of a call that runs.
PartsShape(c) ==
    /\ QatSize(c) = 0 => qat_thread[c] # "running"
    /\ DOMAIN chunk[c] = 0 .. Ceiling(IppSize(c), chunk_size) - 1
    /\ DOMAIN qat_res[c] = 0 .. QatSize(c) - 1
    /\ DOMAIN ipp_res[c] = 0 .. IppSize(c) - 1
    /\ DOMAIN res[c] = 0 .. job[c].size - 1
    /\ slice[c] \in 0 .. SliceCount(QatSize(c))

\* What the parts that are finished have written to them.
PartsDone(c) ==
    /\ \A i \in 0 .. QatSize(c) - 1 : i < slice[c] * BatchSize => qat_res[c][i] = i
    /\ \A k \in DOMAIN chunk[c] : chunk[c][k] = "done" =>
          \A i \in 0 .. IppSize(c) - 1 :
              k * chunk_size <= i /\ i < (k + 1) * chunk_size => ipp_res[c][i] = QatSize(c) + i
    /\ process = "up" /\ qat_thread[c] # "running" =>
          \A i \in 0 .. QatSize(c) - 1 : res[c][i] = i

PartsOK(c) == PartsShape(c) /\ PartsDone(c)

\* A call, running or over.
CallOK(c) ==
    /\ QatSize(c) <= job[c].size
    /\ stage[c] = "running" => PartsOK(c)
    /\ process = "up" /\ stage[c] # "running" => qat_thread[c] # "running" /\ DOMAIN chunk[c] = {}
    /\ stage[c] = "returned" => \A i \in 0 .. job[c].size - 1 : res[c][i] = i

HInv == Shape /\ \A c \in Client : ChoiceOK(c) /\ CallOK(c)

LEMMA InitHInv == Init => HInv
<1>. SUFFICES ASSUME Init PROVE HInv
  OBVIOUS
<1>1. Shape
  BY HybridAssumption DEF Init, Shape, NoJob, OPTIMAL
<1>2. ASSUME NEW c \in Client PROVE ChoiceOK(c)
  BY DEF Init, ChoiceOK
<1>3. ASSUME NEW c \in Client PROVE CallOK(c)
  <2>1. QatSize(c) = 0 /\ job[c].size = 0
    BY DEF Init, NoJob, QatSize
  <2>2. stage[c] = "idle" /\ qat_thread[c] = "none" /\ DOMAIN chunk[c] = {}
    BY DEF Init
  <2>. QED BY <2>1, <2>2 DEF CallOK
<1>. QED BY <1>1, <1>2, <1>3 DEF HInv

\* What a step leaves alone.
LEMMA ChoiceFrame ==
    ASSUME NEW c \in Client, ChoiceOK(c), hybrid'[c] = hybrid[c], chosen'[c] = chosen[c],
           stage'[c] = "running" => stage[c] = "running" /\ job'[c] = job[c]
    PROVE  ChoiceOK(c)'
BY DEF ChoiceOK

LEMMA CallFrame ==
    ASSUME NEW c \in Client, CallOK(c), process' = "up" => process = "up",
           chunk_size' = chunk_size, stage'[c] = stage[c], job'[c] = job[c],
           qat_thread'[c] = qat_thread[c], slice'[c] = slice[c], chunk'[c] = chunk[c],
           qat_res'[c] = qat_res[c], ipp_res'[c] = ipp_res[c], res'[c] = res[c]
    PROVE  CallOK(c)'
BY DEF CallOK, PartsOK, PartsShape, PartsDone, QatSize, IppSize

LEMMA SetStep ==
    ASSUME HInv, NEW d \in Client, SetHybridRatio(d) \/ SetHybridMode(d) \/ SetHybridOff(d)
    PROVE  HInv'
<1>1. PICK ratio \in Int, mode \in Int :
          /\ Set(d, ratio, mode)
          /\ mode = hybrid[d].mode \/ mode = ratio \/ mode = UNDEFINED
  <2>1. hybrid[d].mode \in Int /\ UNDEFINED \in Int /\ Ratios \subseteq Int /\ Modes \subseteq Int
    <3>1. hybrid[d].mode \in Int
      BY DEF HInv, Shape
    <3>2. Ratios \subseteq Int /\ Modes \subseteq Int
      BY HybridAssumption
    <3>. QED BY <3>1, <3>2 DEF UNDEFINED
  <2>2. CASE SetHybridRatio(d)
    BY <2>1, <2>2 DEF SetHybridRatio
  <2>3. CASE SetHybridMode(d)
    BY <2>1, <2>3 DEF SetHybridMode
  <2>4. CASE SetHybridOff(d)
    BY <2>1, <2>4 DEF SetHybridOff
  <2>. QED BY <2>2, <2>3, <2>4
<1>2. hybrid' = [c \in Client |-> IF c = d THEN [ratio |-> ratio, mode |-> mode] ELSE hybrid[c]]
  BY <1>1 DEF Set, Holders
<1>3. chosen' = [chosen EXCEPT ![d] = ratio] /\ stage[d] # "running"
  BY <1>1 DEF Set
<1>4. UNCHANGED <<process, chunk_size>> /\ UNCHANGED callVars
  BY <1>1 DEF Set, envVars
<1>5. Shape'
  BY <1>2, <1>3, <1>4 DEF HInv, Shape, callVars
<1>6. ASSUME NEW c \in Client PROVE ChoiceOK(c)'
  <2>1. CASE c = d
    <3>1. hybrid'[d].ratio = ratio /\ chosen'[d] = ratio /\ stage'[d] # "running"
      BY <1>2, <1>3, <1>4 DEF HInv, Shape, callVars
    <3>. QED BY <2>1, <3>1 DEF ChoiceOK
  <2>2. CASE c # d
    <3>1. hybrid'[c] = hybrid[c] /\ chosen'[c] = chosen[c]
      BY <1>2, <1>3, <2>2 DEF HInv, Shape
    <3>. QED BY <1>4, <3>1, ChoiceFrame DEF HInv, callVars
  <2>. QED BY <2>1, <2>2
<1>7. ASSUME NEW c \in Client PROVE CallOK(c)'
  BY <1>4, CallFrame DEF HInv, callVars
<1>. QED BY <1>5, <1>6, <1>7 DEF HInv

\* The context, the settings and the calls are apart.
LEMMA QuietStep ==
    ASSUME HInv, UNCHANGED <<process, chunk_size, hybrid, chosen>>, UNCHANGED callVars
    PROVE  HInv'
<1>1. Shape'
  BY DEF HInv, Shape, callVars
<1>2. ASSUME NEW c \in Client PROVE ChoiceOK(c)' /\ CallOK(c)'
  BY ChoiceFrame, CallFrame DEF HInv, callVars
<1>. QED BY <1>1, <1>2 DEF HInv

LEMMA QatSizeBounds ==
    ASSUME NEW size \in Nat \ {0}, NEW ratio \in 0 .. 100, NEW n \in QatSizes(ratio, size)
    PROVE  n \in 0 .. size
<1>. DEFINE a == ratio * size
            q == a \div 100
            r == a % 100
<1>1. a \in Nat /\ a <= 100 * size
  <2>1. ratio * size \in Int /\ 0 * size <= ratio * size /\ ratio * size <= 100 * size
    BY Products
  <2>. QED BY <2>1
<1>2. ratio > 0 => a > 0
  <2>1. ratio > 0 => 1 * size <= ratio * size
    BY Products
  <2>. QED BY <1>1, <2>1
<1>3. n = q \/ (n = q - 1 /\ r = 0 /\ ratio > 0)
  BY DEF QatSizes
<1>. HIDE DEF a
<1>4. q \in Nat /\ r \in 0 .. 99 /\ a = (100 * q) + r
  BY <1>1
<1>. HIDE DEF q, r
<1>. QED BY <1>1, <1>2, <1>3, <1>4

\* A new call: its vectors are empty and its parts are not begun.
LEMMA BeginStep ==
    ASSUME HInv, NEW d \in Client, NEW size \in Nat \ {0}, NEW ratio \in 0 .. 100,
           Begin(d, size, ratio), UNCHANGED <<process, chunk_size>>
    PROVE  /\ stage' = [stage EXCEPT ![d] = "running"]
           /\ \E n \in 0 .. size :
                 job' = [job EXCEPT ![d] = [size |-> size, ratio |-> ratio, hybrid_qat_size |-> n]]
           /\ qat_thread' \in [Client -> {"none", "running", "done"}]
           /\ slice' \in [Client -> Nat]
           /\ DOMAIN chunk' = Client /\ DOMAIN res' = Client
           /\ DOMAIN qat_res' = Client /\ DOMAIN ipp_res' = Client
           /\ \A c \in Client : CallOK(c)'
<1>1. PICK n \in QatSizes(ratio, size) :
          /\ job' = [job EXCEPT ![d] = [size |-> size, ratio |-> ratio, hybrid_qat_size |-> n]]
          /\ qat_thread' = [qat_thread EXCEPT ![d] = IF n = 0 THEN "none" ELSE "running"]
          /\ slice' = [slice EXCEPT ![d] = 0]
          /\ chunk' = [chunk EXCEPT ![d] =
                [k \in 0 .. Ceiling(size - n, chunk_size) - 1 |-> "todo"]]
          /\ qat_res' = [qat_res EXCEPT ![d] = Empty(n)]
          /\ ipp_res' = [ipp_res EXCEPT ![d] = Empty(size - n)]
          /\ res' = [res EXCEPT ![d] = Empty(size)]
          /\ stage' = [stage EXCEPT ![d] = "running"]
  BY DEF Begin
<1>2. n \in 0 .. size /\ n \in Nat
  <2>1. n \in 0 .. size
    BY QatSizeBounds
  <2>. QED BY <2>1
<1>3. /\ qat_thread' \in [Client -> {"none", "running", "done"}]
      /\ slice' \in [Client -> Nat]
      /\ DOMAIN chunk' = Client /\ DOMAIN res' = Client
      /\ DOMAIN qat_res' = Client /\ DOMAIN ipp_res' = Client
  BY <1>1 DEF HInv, Shape
<1>4. ASSUME NEW c \in Client PROVE CallOK(c)'
  <2>1. CASE c = d
    <3>1. job'[d] = [size |-> size, ratio |-> ratio, hybrid_qat_size |-> n]
      BY <1>1 DEF HInv, Shape
    <3>2. QatSize(d)' = n /\ IppSize(d)' = size - n /\ job'[d].size = size
      BY <3>1 DEF QatSize, IppSize
    <3>3. /\ qat_thread'[d] = (IF n = 0 THEN "none" ELSE "running") /\ slice'[d] = 0
          /\ chunk'[d] = [k \in 0 .. Ceiling(size - n, chunk_size) - 1 |-> "todo"]
          /\ qat_res'[d] = Empty(n) /\ ipp_res'[d] = Empty(size - n) /\ res'[d] = Empty(size)
          /\ stage'[d] = "running"
      BY <1>1 DEF HInv, Shape
    <3>4. SliceCount(n) \in Nat /\ 0 * BatchSize = 0
      <4>1. BatchSize \in Nat \ {0}
        BY HybridAssumption
      <4>. QED BY <1>2, <4>1, Parts DEF SliceCount
    <3>5. PartsOK(d)'
      <4>1. /\ QatSize(d)' = 0 => qat_thread'[d] # "running"
            /\ DOMAIN chunk'[d] = 0 .. Ceiling(IppSize(d)', chunk_size') - 1
        BY <3>2, <3>3 DEF Ceiling
      <4>2. /\ DOMAIN qat_res'[d] = 0 .. n - 1
            /\ DOMAIN ipp_res'[d] = 0 .. (size - n) - 1
            /\ DOMAIN res'[d] = 0 .. size - 1
        BY <3>3 DEF Empty
      <4>3. /\ slice'[d] \in 0 .. SliceCount(n)
            /\ \A i \in 0 .. n - 1 : ~(i < slice'[d] * BatchSize)
        BY <1>2, <3>3, <3>4
      <4>4. \A k \in DOMAIN chunk'[d] : chunk'[d][k] # "done"
        BY <3>3
      <4>5. qat_thread'[d] # "running" => n = 0
        BY <3>3
      <4>6. SliceCount(QatSize(d))' = SliceCount(n)
        BY <3>2 DEF SliceCount, Ceiling
      <4>7. PartsShape(d)'
        BY <3>2, <4>1, <4>2, <4>3, <4>6 DEF PartsShape, Ceiling
      <4>8. PartsDone(d)'
        BY <1>2, <3>2, <4>3, <4>4, <4>5 DEF PartsDone
      <4>. QED BY <4>7, <4>8 DEF PartsOK
    <3>. QED BY <1>2, <2>1, <3>2, <3>3, <3>5 DEF CallOK
  <2>2. CASE c # d
    <3>1. /\ job'[c] = job[c] /\ qat_thread'[c] = qat_thread[c] /\ slice'[c] = slice[c]
          /\ chunk'[c] = chunk[c] /\ qat_res'[c] = qat_res[c] /\ ipp_res'[c] = ipp_res[c]
          /\ res'[c] = res[c] /\ stage'[c] = stage[c]
      BY <1>1, <2>2 DEF HInv, Shape
    <3>. QED BY <3>1, CallFrame DEF HInv
  <2>. QED BY <2>1, <2>2
<1>. QED BY <1>1, <1>2, <1>3, <1>4

\* The ratio of a call outside mode OPTIMAL is the one its thread has set.
LEMMA CallStep ==
    ASSUME HInv, NEW d \in Client, NEW size \in Sizes, NEW ratio \in Int, Call(d, size, ratio),
           hybrid' = [hybrid EXCEPT ![d].ratio = ratio],
           hybrid[d].mode # OPTIMAL => ratio = hybrid[d].ratio
    PROVE  HInv'
<1>1. /\ UNCHANGED <<process, chunk_size, chosen>> /\ process = "up" /\ stage[d] # "running"
      /\ size \in Nat \ {0}
  BY HybridAssumption DEF Call, envVars
<1>2. /\ hybrid' \in [Client -> [ratio : Int, mode : Int]]
      /\ hybrid'[d].ratio = ratio /\ hybrid'[d].mode = hybrid[d].mode
      /\ \A c \in Client \ {d} : hybrid'[c] = hybrid[c]
  BY DEF HInv, Shape
<1>3. CASE CorrectRatio(ratio) /\ Begin(d, size, ratio)
  <2>1. ratio \in 0 .. 100
    BY <1>3 DEF CorrectRatio
  <2>2. /\ stage' = [stage EXCEPT ![d] = "running"]
        /\ \E n \in 0 .. size :
              job' = [job EXCEPT ![d] = [size |-> size, ratio |-> ratio, hybrid_qat_size |-> n]]
        /\ qat_thread' \in [Client -> {"none", "running", "done"}]
        /\ slice' \in [Client -> Nat]
        /\ DOMAIN chunk' = Client /\ DOMAIN res' = Client
        /\ DOMAIN qat_res' = Client /\ DOMAIN ipp_res' = Client
        /\ \A c \in Client : CallOK(c)'
    BY <1>1, <1>3, <2>1, BeginStep
  <2>3. PICK n \in 0 .. size :
            job' = [job EXCEPT ![d] = [size |-> size, ratio |-> ratio, hybrid_qat_size |-> n]]
    BY <2>2
  <2>4. Shape'
    BY <1>1, <1>2, <2>2, <2>3 DEF HInv, Shape
  <2>5. ASSUME NEW c \in Client PROVE ChoiceOK(c)'
    <3>1. CASE c = d
      <4>1. job'[d].ratio = ratio
        BY <2>3 DEF HInv, Shape
      <4>. QED BY <1>1, <1>2, <3>1, <4>1 DEF HInv, ChoiceOK
    <3>2. CASE c # d
      <4>1. stage'[c] = stage[c] /\ job'[c] = job[c]
        BY <2>2, <2>3, <3>2 DEF HInv, Shape
      <4>. QED BY <1>1, <1>2, <3>2, <4>1, ChoiceFrame DEF HInv
    <3>. QED BY <3>1, <3>2
  <2>. QED BY <2>2, <2>4, <2>5 DEF HInv
<1>4. CASE /\ stage' = [stage EXCEPT ![d] = "thrown"]
           /\ UNCHANGED <<job, qat_thread, slice, chunk, qat_res, ipp_res, res>>
  <2>1. Shape'
    BY <1>1, <1>2, <1>4 DEF HInv, Shape
  <2>2. /\ stage'[d] = "thrown"
        /\ \A c \in Client \ {d} : stage'[c] = stage[c]
    BY <1>4 DEF HInv, Shape
  <2>3. ASSUME NEW c \in Client PROVE ChoiceOK(c)'
    <3>1. CASE c = d
      BY <1>1, <1>2, <2>2, <3>1 DEF HInv, ChoiceOK
    <3>2. CASE c # d
      BY <1>1, <1>2, <1>4, <2>2, <3>2, ChoiceFrame DEF HInv
    <3>. QED BY <3>1, <3>2
  <2>4. ASSUME NEW c \in Client PROVE CallOK(c)'
    <3>1. CASE c = d
      BY <1>1, <1>4, <2>2, <3>1 DEF HInv, CallOK, QatSize
    <3>2. CASE c # d
      BY <1>1, <1>4, <2>2, <3>2, CallFrame DEF HInv
    <3>. QED BY <3>1, <3>2
  <2>. QED BY <2>1, <2>3, <2>4 DEF HInv
<1>. QED BY <1>3, <1>4 DEF Call

LEMMA ClientHInvStep ==
    ASSUME HInv, NEW d \in Client, ClientStep(d)
    PROVE  HInv'
<1>1. hybrid \in [Client -> [ratio : Int, mode : Int]]
  BY DEF HInv, Shape
<1>2. CASE SetHybridRatio(d) \/ SetHybridMode(d) \/ SetHybridOff(d)
  BY <1>2, SetStep
<1>3. CASE ModExp(d)
  <2>1. hybrid[d].ratio \in Int /\ hybrid' = [hybrid EXCEPT ![d].ratio = hybrid[d].ratio]
    BY <1>1, <1>3 DEF ModExp
  <2>. QED BY <1>3, <2>1, CallStep DEF ModExp
<1>4. CASE Operate(d)
  <2>1. PICK size \in Sizes,
             ratio \in {hybrid[d].ratio, 100, EncryptRatio, DecryptRatio, MultiplyRatio} :
            /\ hybrid' = [hybrid EXCEPT ![d].ratio = ratio] /\ Call(d, size, ratio)
            /\ hybrid[d].mode # OPTIMAL => ratio = hybrid[d].ratio
    BY <1>4 DEF Operate
  <2>2. ratio \in Int
    BY <1>1, HybridAssumption
  <2>. QED BY <2>1, <2>2, CallStep
<1>. QED BY <1>2, <1>3, <1>4 DEF ClientStep

\* What a step of one client's call leaves alone: everybody else.
LEMMA OthersFrame ==
    ASSUME HInv, NEW d \in Client, UNCHANGED <<chunk_size, hybrid, chosen, job>>,
           process' = "up" => process = "up",
           \A c \in Client \ {d} :
              /\ stage'[c] = stage[c] /\ qat_thread'[c] = qat_thread[c] /\ slice'[c] = slice[c]
              /\ chunk'[c] = chunk[c] /\ qat_res'[c] = qat_res[c] /\ ipp_res'[c] = ipp_res[c]
              /\ res'[c] = res[c],
           stage'[d] = "running" => stage[d] = "running",
           Shape', CallOK(d)'
    PROVE  HInv'
<1>1. ASSUME NEW c \in Client PROVE ChoiceOK(c)'
  BY <1>1, ChoiceFrame DEF HInv
<1>2. ASSUME NEW c \in Client PROVE CallOK(c)'
  BY <1>2, CallFrame DEF HInv
<1>. QED BY <1>1, <1>2 DEF HInv

LEMMA CallSizes ==
    ASSUME HInv, NEW d \in Client
    PROVE  /\ QatSize(d) \in Nat /\ IppSize(d) \in Nat /\ job[d].size \in Nat
           /\ job[d].size = QatSize(d) + IppSize(d)
           /\ BatchSize \in Nat \ {0} /\ chunk_size \in Nat \ {0}
<1>1. job[d] \in [size : Nat, ratio : Int, hybrid_qat_size : Nat] /\ CallOK(d)
  BY DEF HInv, Shape
<1>2. BatchSize \in Nat \ {0} /\ chunk_size \in Nat \ {0}
  BY HybridAssumption DEF HInv, Shape
<1>. QED BY <1>1, <1>2 DEF CallOK, QatSize, IppSize

LEMMA QatSliceStep ==
    ASSUME HInv, NEW d \in Client, QatSlice(d)
    PROVE  HInv'
<1>. DEFINE q == QatSize(d)
            j == slice[d]
            first == j * BatchSize
            Covered(i) == i \in first .. first + SliceLength(j, q) - 1
<1>1. /\ stage[d] = "running" /\ qat_thread[d] = "running" /\ j \in Nat /\ PartsOK(d)
      /\ q \in Nat /\ BatchSize \in Nat \ {0} /\ j < SliceCount(q)
  BY CallSizes DEF HInv, Shape, CallOK, QatSlice, Running
<1>2. /\ slice' = [slice EXCEPT ![d] = @ + 1]
      /\ qat_res' = [qat_res EXCEPT ![d] = [i \in DOMAIN @ |-> IF Covered(i) THEN i ELSE @[i]]]
      /\ UNCHANGED <<process, chunk_size, hybrid, chosen, stage, job, qat_thread, chunk, ipp_res, res>>
  BY DEF QatSlice, envVars, paramVars
<1>3. Shape'
  BY <1>1, <1>2 DEF HInv, Shape
<1>4. /\ slice'[d] = j + 1 /\ DOMAIN qat_res'[d] = 0 .. q - 1
      /\ \A i \in 0 .. q - 1 : qat_res'[d][i] = IF Covered(i) THEN i ELSE qat_res[d][i]
  BY <1>1, <1>2 DEF HInv, Shape, PartsOK, PartsShape
<1>5. SliceCount(q) \in Nat /\ j \in 0 .. Ceiling(q, BatchSize) - 1
  BY <1>1, Parts DEF SliceCount
<1>6. ASSUME NEW i \in 0 .. q - 1, i < slice'[d] * BatchSize PROVE qat_res'[d][i] = i
  <2>1. CASE i < first
    BY <1>1, <1>4, <2>1 DEF PartsOK, PartsDone
  <2>2. CASE ~(i < first)
    <3>1. first \in Int /\ first <= i /\ i < (j + 1) * BatchSize
      BY <1>1, <1>4, <1>6, <2>2, Products
    <3>2. i <= first + SliceLength(j, q) - 1
      BY <1>1, <1>5, <3>1, PartEnds DEF SliceLength, SliceCount
    <3>3. SliceLength(j, q) \in Int
      BY <1>1 DEF SliceLength
    <3>. QED BY <1>4, <3>1, <3>2, <3>3
  <2>. QED BY <2>1, <2>2
<1>. HIDE DEF Covered
<1>7. CallOK(d)'
  <2>1. QatSize(d)' = q /\ IppSize(d)' = IppSize(d)
    BY <1>2 DEF QatSize, IppSize
  <2>2. SliceCount(QatSize(d))' = SliceCount(q)
    BY <2>1 DEF SliceCount, Ceiling
  <2>3. slice'[d] \in 0 .. SliceCount(q)
    BY <1>1, <1>4, <1>5
  <2>4. PartsShape(d)'
    BY <1>1, <1>2, <1>4, <2>1, <2>2, <2>3 DEF PartsOK, PartsShape, Ceiling
  <2>5. PartsDone(d)'
    BY <1>1, <1>2, <1>4, <1>6, <2>1 DEF PartsOK, PartsDone
  <2>6. PartsOK(d)'
    BY <2>4, <2>5 DEF PartsOK
  <2>. QED BY <1>1, <1>2, <2>1, <2>6 DEF HInv, CallOK
<1>8. \A c \in Client \ {d} : slice'[c] = slice[c] /\ qat_res'[c] = qat_res[c]
  BY <1>2 DEF HInv, Shape
<1>. QED BY <1>2, <1>1, <1>3, <1>7, <1>8, OthersFrame

LEMMA QatEndsStep ==
    ASSUME HInv, NEW d \in Client, QatEnds(d)
    PROVE  HInv'
<1>. DEFINE q == QatSize(d)
<1>1. /\ stage[d] = "running" /\ PartsOK(d) /\ q \in Nat /\ BatchSize \in Nat \ {0}
      /\ slice[d] = SliceCount(q) /\ job[d].size \in Nat /\ q <= job[d].size
  BY CallSizes DEF HInv, Shape, CallOK, QatEnds, Running
<1>2. /\ qat_thread' = [qat_thread EXCEPT ![d] = "done"]
      /\ res' = [res EXCEPT ![d] = [i \in DOMAIN @ |-> IF i < q THEN qat_res[d][i] ELSE @[i]]]
      /\ UNCHANGED <<process, chunk_size, hybrid, chosen, stage, job, slice, chunk, qat_res, ipp_res>>
  BY DEF QatEnds, envVars, paramVars
<1>3. Shape'
  BY <1>1, <1>2 DEF HInv, Shape
<1>4. /\ qat_thread'[d] = "done" /\ DOMAIN res'[d] = 0 .. job[d].size - 1
      /\ \A i \in 0 .. q - 1 : res'[d][i] = qat_res[d][i]
  BY <1>1, <1>2 DEF HInv, Shape, PartsOK, PartsShape
<1>5. ASSUME NEW i \in 0 .. q - 1 PROVE res'[d][i] = i
  <2>1. q <= slice[d] * BatchSize /\ slice[d] * BatchSize \in Int
    <3>1. slice[d] = Ceiling(q, BatchSize) /\ slice[d] \in Nat
      BY <1>1, Parts DEF SliceCount
    <3>2. q <= Ceiling(q, BatchSize) * BatchSize
      BY <1>1, AllParts
    <3>. QED BY <1>1, <3>1, <3>2, Products
  <2>2. i < slice[d] * BatchSize
    BY <1>1, <2>1
  <2>. QED BY <1>1, <1>4, <2>2 DEF PartsOK, PartsDone
<1>6. CallOK(d)'
  <2>1. QatSize(d)' = q /\ IppSize(d)' = IppSize(d)
    BY <1>2 DEF QatSize, IppSize
  <2>2. SliceCount(QatSize(d))' = SliceCount(q)
    BY <2>1 DEF SliceCount, Ceiling
  <2>3. PartsShape(d)'
    BY <1>1, <1>2, <1>4, <2>1, <2>2 DEF PartsOK, PartsShape, Ceiling
  <2>4. PartsDone(d)'
    BY <1>1, <1>2, <1>5, <2>1 DEF PartsOK, PartsDone
  <2>5. PartsOK(d)'
    BY <2>3, <2>4 DEF PartsOK
  <2>. QED BY <1>1, <1>2, <2>1, <2>5 DEF HInv, CallOK
<1>7. \A c \in Client \ {d} : qat_thread'[c] = qat_thread[c] /\ res'[c] = res[c]
  BY <1>2 DEF HInv, Shape
<1>. QED BY <1>2, <1>1, <1>3, <1>6, <1>7, OthersFrame

LEMMA ChunkBeginsStep ==
    ASSUME HInv, NEW d \in Client, NEW k \in DOMAIN chunk[d], ChunkBegins(d, k)
    PROVE  HInv'
<1>1. /\ process = "up" /\ stage[d] = "running" /\ PartsOK(d)
      /\ chunk' = [chunk EXCEPT ![d][k] = "running"]
      /\ UNCHANGED <<process, chunk_size, hybrid, chosen, stage, job, qat_thread, slice, qat_res,
                     ipp_res, res>>
  BY DEF HInv, CallOK, ChunkBegins, Running, envVars, paramVars
<1>2. Shape'
  BY <1>1 DEF HInv, Shape
<1>3. /\ DOMAIN chunk'[d] = DOMAIN chunk[d]
      /\ \A m \in DOMAIN chunk[d] : chunk'[d][m] = "done" => chunk[d][m] = "done"
      /\ \A c \in Client \ {d} : chunk'[c] = chunk[c]
  BY <1>1 DEF HInv, Shape
<1>4. CallOK(d)'
  <2>1. PartsShape(d)'
    BY <1>1, <1>3 DEF PartsOK, PartsShape, QatSize, IppSize
  <2>2. PartsDone(d)'
    BY <1>1, <1>3 DEF PartsOK, PartsDone, QatSize, IppSize
  <2>3. PartsOK(d)'
    BY <2>1, <2>2 DEF PartsOK
  <2>. QED BY <1>1, <2>3 DEF HInv, CallOK, QatSize
<1>. QED BY <1>1, <1>2, <1>3, <1>4, OthersFrame

LEMMA ChunkEndsStep ==
    ASSUME HInv, NEW d \in Client, NEW k \in DOMAIN chunk[d], ChunkEnds(d, k)
    PROVE  HInv'
<1>. DEFINE q == QatSize(d)
            n == IppSize(d)
            first == k * chunk_size
            Covered(i) == i \in first .. first + ChunkLength(k, n) - 1
<1>1. /\ process = "up" /\ stage[d] = "running" /\ PartsOK(d)
      /\ q \in Nat /\ n \in Nat /\ chunk_size \in Nat \ {0}
      /\ k \in 0 .. Ceiling(n, chunk_size) - 1
  BY CallSizes DEF HInv, CallOK, ChunkEnds, Running, PartsOK, PartsShape
<1>2. /\ chunk' = [chunk EXCEPT ![d][k] = "done"]
      /\ ipp_res' = [ipp_res EXCEPT ![d] = [i \in DOMAIN @ |-> IF Covered(i) THEN q + i ELSE @[i]]]
      /\ UNCHANGED <<process, chunk_size, hybrid, chosen, stage, job, qat_thread, slice, qat_res, res>>
  BY DEF ChunkEnds, envVars, paramVars
<1>3. Shape'
  BY <1>1, <1>2 DEF HInv, Shape
<1>4. /\ DOMAIN chunk'[d] = DOMAIN chunk[d]
      /\ \A m \in DOMAIN chunk[d] : m # k => chunk'[d][m] = chunk[d][m]
      /\ DOMAIN ipp_res'[d] = 0 .. n - 1
      /\ \A i \in 0 .. n - 1 : ipp_res'[d][i] = IF Covered(i) THEN q + i ELSE ipp_res[d][i]
  BY <1>1, <1>2 DEF HInv, Shape, PartsOK, PartsShape
<1>5. ASSUME NEW m \in DOMAIN chunk[d], chunk'[d][m] = "done",
             NEW i \in 0 .. n - 1, m * chunk_size <= i, i < (m + 1) * chunk_size
      PROVE  ipp_res'[d][i] = q + i
  <2>1. CASE m = k
    <3>1. i <= first + ChunkLength(k, n) - 1
      BY <1>1, <1>5, <2>1, PartEnds DEF ChunkLength
    <3>2. ChunkLength(k, n) \in Int /\ first \in Int
      <4>1. k \in Int
        BY <1>1, Parts
      <4>2. ChunkLength(k, n) \in Int
        BY <1>1 DEF ChunkLength
      <4>. QED BY <1>1, <4>1, <4>2, Products
    <3>. QED BY <1>4, <1>5, <2>1, <3>1, <3>2
  <2>2. CASE m # k
    <3>1. ipp_res[d][i] = q + i
      BY <1>1, <1>4, <1>5, <2>2 DEF PartsOK, PartsDone
    <3>. QED BY <1>4, <3>1
  <2>. QED BY <2>1, <2>2
<1>. HIDE DEF Covered
<1>6. CallOK(d)'
  <2>1. QatSize(d)' = q /\ IppSize(d)' = n
    BY <1>2 DEF QatSize, IppSize
  <2>2. PartsShape(d)'
    BY <1>1, <1>2, <1>4, <2>1 DEF PartsOK, PartsShape, SliceCount, Ceiling
  <2>3. PartsDone(d)'
    BY <1>1, <1>2, <1>4, <1>5, <2>1 DEF PartsOK, PartsDone
  <2>4. PartsOK(d)'
    BY <2>2, <2>3 DEF PartsOK
  <2>. QED BY <1>1, <1>2, <2>1, <2>4 DEF HInv, CallOK
<1>7. \A c \in Client \ {d} : chunk'[c] = chunk[c] /\ ipp_res'[c] = ipp_res[c]
  BY <1>2 DEF HInv, Shape
<1>. QED BY <1>1, <1>2, <1>3, <1>6, <1>7, OthersFrame

\* A call that is left has no vectors, and what it needs is that its thread has
\* ended and, if it returned, that its results are there.
LEMMA LeaveStep ==
    ASSUME HInv, NEW d \in Client, NEW outcome \in {"returned", "thrown"}, Leave(d, outcome),
           UNCHANGED <<chunk_size, hybrid, chosen, job>>,
           qat_thread' \in [Client -> {"none", "running", "done"}], qat_thread'[d] # "running",
           DOMAIN res' = Client,
           \A c \in Client \ {d} : qat_thread'[c] = qat_thread[c] /\ res'[c] = res[c],
           outcome = "returned" => \A i \in 0 .. job[d].size - 1 : res'[d][i] = i
    PROVE  HInv'
<1>1. /\ process' = process
      /\ stage' = [stage EXCEPT ![d] = outcome] /\ slice' = [slice EXCEPT ![d] = 0]
      /\ chunk' = [chunk EXCEPT ![d] = <<>>]
      /\ qat_res' = [qat_res EXCEPT ![d] = Empty(0)] /\ ipp_res' = [ipp_res EXCEPT ![d] = Empty(0)]
  BY DEF Leave
<1>2. Shape'
  BY <1>1 DEF HInv, Shape
<1>3. /\ stage'[d] = outcome /\ DOMAIN chunk'[d] = {}
      /\ \A c \in Client \ {d} :
            /\ stage'[c] = stage[c] /\ slice'[c] = slice[c] /\ chunk'[c] = chunk[c]
            /\ qat_res'[c] = qat_res[c] /\ ipp_res'[c] = ipp_res[c]
  BY <1>1 DEF HInv, Shape
<1>4. CallOK(d)'
  BY <1>3 DEF HInv, CallOK, QatSize
<1>. QED BY <1>1, <1>2, <1>3, <1>4, OthersFrame

LEMMA TerminateStep ==
    ASSUME HInv, NEW d \in Client, Terminate, stage[d] = "running",
           UNCHANGED <<chunk_size, hybrid, chosen, job, res>>,
           qat_thread' = qat_thread \/ qat_thread' = [qat_thread EXCEPT ![d] = "done"]
    PROVE  HInv'
<1>1. process' = "terminated" /\ UNCHANGED <<stage, slice, chunk, qat_res, ipp_res>>
  BY DEF Terminate
<1>2. Shape'
  BY <1>1 DEF HInv, Shape
<1>3. \A c \in Client \ {d} : qat_thread'[c] = qat_thread[c]
  BY DEF HInv, Shape
<1>4. qat_thread'[d] = qat_thread[d] \/ qat_thread'[d] = "done"
  BY DEF HInv, Shape
<1>5. CallOK(d)'
  <2>1. PartsShape(d)' /\ PartsDone(d)'
    BY <1>1, <1>4 DEF HInv, CallOK, PartsOK, PartsShape, PartsDone, QatSize, IppSize
  <2>. QED BY <1>1, <2>1 DEF HInv, CallOK, PartsOK, QatSize
<1>. QED BY <1>1, <1>2, <1>3, <1>5, OthersFrame

LEMMA FailureStep ==
    ASSUME HInv, NEW d \in Client, Failure(d)
    PROVE  HInv'
<1>1. CASE QatFails(d)
  <2>1. /\ stage[d] = "running" /\ qat_thread' = [qat_thread EXCEPT ![d] = "done"]
        /\ UNCHANGED <<chunk_size, hybrid, chosen, job, res>>
        /\ IF IppSize(d) > 0 THEN Terminate ELSE Leave(d, "thrown")
    BY <1>1 DEF QatFails, Running, envVars, paramVars
  <2>2. CASE Terminate
    BY <2>1, <2>2, TerminateStep
  <2>3. CASE Leave(d, "thrown")
    <3>1. /\ qat_thread' \in [Client -> {"none", "running", "done"}] /\ qat_thread'[d] # "running"
          /\ DOMAIN res' = Client
          /\ \A c \in Client \ {d} : qat_thread'[c] = qat_thread[c] /\ res'[c] = res[c]
      BY <2>1 DEF HInv, Shape
    <3>. QED BY <2>1, <2>3, <3>1, LeaveStep
  <2>. QED BY <2>1, <2>2, <2>3
<1>2. ASSUME NEW k \in DOMAIN chunk[d], ChunkFails(d, k) PROVE HInv'
  <2>1. /\ process = "up" /\ stage[d] = "running"
        /\ UNCHANGED <<chunk_size, hybrid, chosen, job, qat_thread, res>>
        /\ IF IppSize(d) > 1 \/ QatSize(d) > 0 THEN Terminate ELSE Leave(d, "thrown")
    BY <1>2 DEF ChunkFails, Running, envVars, paramVars
  <2>2. CASE Terminate
    BY <2>1, <2>2, TerminateStep
  <2>3. CASE ~(QatSize(d) > 0) /\ Leave(d, "thrown")
    <3>1. qat_thread[d] # "running"
      BY <2>1, <2>3, CallSizes DEF HInv, CallOK, PartsOK, PartsShape
    <3>2. /\ qat_thread' \in [Client -> {"none", "running", "done"}]
          /\ qat_thread'[d] # "running" /\ DOMAIN res' = Client
          /\ \A c \in Client \ {d} : qat_thread'[c] = qat_thread[c] /\ res'[c] = res[c]
      BY <2>1, <3>1 DEF HInv, Shape
    <3>. QED BY <2>1, <2>3, <3>2, LeaveStep
  <2>. QED BY <2>1, <2>2, <2>3
<1>. QED BY <1>1, <1>2 DEF Failure

LEMMA ReturnStep ==
    ASSUME HInv, NEW d \in Client, Return(d)
    PROVE  HInv'
<1>. DEFINE q == QatSize(d)
            n == IppSize(d)
<1>1. /\ process = "up" /\ stage[d] = "running" /\ qat_thread[d] # "running" /\ PartsOK(d)
      /\ q \in Nat /\ n \in Nat /\ chunk_size \in Nat \ {0} /\ job[d].size = q + n
  BY CallSizes DEF HInv, CallOK, Return, Running, Joined
<1>2. /\ Leave(d, "returned")
      /\ res' = [res EXCEPT ![d] = [i \in DOMAIN @ |-> IF i < q THEN @[i] ELSE ipp_res[d][i - q]]]
      /\ UNCHANGED <<chunk_size, hybrid, chosen, job, qat_thread>>
  BY DEF Return, envVars, paramVars
<1>3. /\ DOMAIN res' = Client
      /\ qat_thread' \in [Client -> {"none", "running", "done"}] /\ qat_thread'[d] # "running"
      /\ \A c \in Client \ {d} : qat_thread'[c] = qat_thread[c] /\ res'[c] = res[c]
  BY <1>1, <1>2 DEF HInv, Shape
<1>4. \A i \in 0 .. job[d].size - 1 : res'[d][i] = IF i < q THEN res[d][i] ELSE ipp_res[d][i - q]
  BY <1>1, <1>2 DEF HInv, Shape, PartsOK, PartsShape
<1>5. \A k \in DOMAIN chunk[d] : chunk[d][k] = "done"
  BY DEF Return, ChunksAt
<1>6. ASSUME NEW i \in 0 .. job[d].size - 1 PROVE res'[d][i] = i
  <2>1. CASE i < q
    <3>1. i \in 0 .. QatSize(d) - 1
      BY <1>1, <2>1
    <3>2. res[d][i] = i
      BY <1>1, <3>1 DEF PartsOK, PartsDone
    <3>. QED BY <1>4, <2>1, <3>2
  <2>2. CASE ~(i < q)
    <3>1. i - q \in 0 .. n - 1
      BY <1>1, <2>2
    <3>2. PICK k \in 0 .. Ceiling(n, chunk_size) - 1 :
              k * chunk_size <= i - q /\ i - q < (k + 1) * chunk_size
      BY <1>1, <3>1, PartOf
    <3>3. k \in DOMAIN chunk[d] /\ chunk[d][k] = "done"
      BY <1>1, <1>5, <3>2 DEF PartsOK, PartsShape
    <3>4. ipp_res[d][i - q] = QatSize(d) + (i - q)
      BY <1>1, <3>1, <3>2, <3>3 DEF PartsOK, PartsDone
    <3>. QED BY <1>1, <1>4, <2>2, <3>4
  <2>. QED BY <2>1, <2>2
<1>. QED BY <1>2, <1>3, <1>6, LeaveStep

LEMMA NextHInv == HInv /\ [Next]_vars => HInv'
<1>. SUFFICES ASSUME HInv, [Next]_vars PROVE HInv'
  OBVIOUS
<1>1. CASE InitializeQAT \/ TerminateContext \/ BecomesRunning \/ UNCHANGED vars
  <2>1. UNCHANGED <<process, chunk_size, hybrid, chosen>> /\ UNCHANGED callVars
    BY <1>1 DEF InitializeQAT, TerminateContext, ContextCall, BecomesRunning, vars, envVars, paramVars
  <2>. QED BY <2>1, QuietStep
<1>2. ASSUME NEW d \in Client,
             ClientStep(d) \/ QatStep(d) \/ TeamStep(d) \/ Failure(d) \/ Return(d)
      PROVE  HInv'
  BY <1>2, ClientHInvStep, QatSliceStep, QatEndsStep, ChunkBeginsStep, ChunkEndsStep, FailureStep,
     ReturnStep DEF QatStep, TeamStep
<1>. QED BY <1>1, <1>2 DEF Next

LEMMA HybridInvariant == Spec => []HInv
BY InitHInv, NextHInv, PTL DEF Spec

-----------------------------------------------------------------------------
(* The theorems.                                                           *)

\* Whatever the sizes of the vector, the slices and the chunks, and in whatever
\* order they end, modExp returns every result at the index of its base, exponent
\* and modulus (mod_exp.cpp, modExp and the functions it calls).
THEOREM EveryResultInPlace == Spec => []ResultsInPlace
<1>1. HInv => ResultsInPlace
  BY DEF HInv, CallOK, ResultsInPlace
<1>. QED BY <1>1, HybridInvariant, PTL

\* A call of modExp that returns, or throws, has joined its QAT thread and its
\* team, which write to vectors on its stack.
THEOREM NoThreadOutlivesItsCall == Spec => []NothingLeftRunning
<1>1. HInv => NothingLeftRunning
  BY DEF HInv, CallOK, NothingLeftRunning, ChunksAt
<1>. QED BY <1>1, HybridInvariant, PTL

\* Any number of threads may set ratios and modes: outside mode OPTIMAL each one's
\* calls are split by its own last choice (g_hybrid_params is thread_local, and
\* encrypt, decrypt and multiply change the ratio in mode OPTIMAL only).
THEOREM OwnChoiceIsKept == Spec => []OwnChoiceHolds
<1>1. HInv => OwnChoiceHolds
  BY DEF HInv, ChoiceOK, OwnChoiceHolds
<1>. QED BY <1>1, HybridInvariant, PTL

\* The runtime context acquires the devices only where they are not acquired: the
\* second call of initializeContext returns before acquire_qat_devices, and
\* terminateContext forgets the devices and releases them together (context.cpp).
THEOREM AcquiresOnlyInactive == Spec => RuntimeAcquiresInactive
<1>. DEFINE RInv == ~isUsingQAT => context_state = "INACTIVE"
            Acquires == context_state' = "ACTIVE" /\ context_state # "ACTIVE"
                            => context_state = "INACTIVE"
<1>1. Init => RInv
  BY DEF Init
<1>2. ASSUME RInv, [Next]_vars PROVE RInv' /\ [Acquires]_vars
  <2>1. CASE InitializeQAT
    BY <1>2, <2>1 DEF InitializeQAT, NotYetUsing
  <2>2. CASE TerminateContext
    BY <1>2, <2>2 DEF TerminateContext
  <2>3. CASE BecomesRunning
    BY <1>2, <2>3 DEF BecomesRunning
  <2>4. CASE UNCHANGED vars
    BY <1>2, <2>4 DEF vars, contextVars
  <2>5. ASSUME NEW c \in Client,
               ClientStep(c) \/ QatStep(c) \/ TeamStep(c) \/ Failure(c) \/ Return(c)
        PROVE  UNCHANGED contextVars
    BY <2>5 DEF ClientStep, SetHybridRatio, SetHybridMode, SetHybridOff, Set, ModExp, Operate, Call,
       QatStep, QatSlice, QatEnds, TeamStep, ChunkBegins, ChunkEnds, Failure, QatFails, ChunkFails,
       Return
  <2>6. CASE UNCHANGED contextVars
    BY <1>2, <2>6 DEF contextVars
  <2>. QED BY <1>2, <2>1, <2>2, <2>3, <2>4, <2>5, <2>6 DEF Next
<1>3. Acquires <=> (context_state' = "ACTIVE" /\ context_state # "ACTIVE"
                       => context_state = "INACTIVE")
  OBVIOUS
<1>. QED BY <1>1, <1>2, PTL DEF Spec, RuntimeAcquiresInactive


-----------------------------------------------------------------------------
(* Types.  What the vectors hold is bounded by the call they belong to,    *)
(* and a call that is over has none but its result: with the invariant     *)
(* above, whose steps keep the lengths, this is inductive.                 *)

\* Of the variables that are not a vector.
GlobalTypes ==
    /\ process \in {"up", "terminated"}
    /\ chunk_size \in ChunkSizes /\ max_threads \in ThreadCounts
    /\ hybrid \in [Client -> [ratio : -1 .. 100, mode : -1 .. 100]]
    /\ chosen \in [Client -> -1 .. 100]
    /\ isUsingQAT \in BOOLEAN /\ context_state \in {"INACTIVE", "ACTIVE", "RUNNING"}
    /\ settings \in 0 .. MaxSettings /\ calls \in 0 .. MaxCalls /\ contexts \in 0 .. MaxContexts

\* Of the vectors of a call whose halves have q and n elements.

VectorTypes(c, q, n, size) ==
    /\ qat_res[c] \in [0 .. q - 1 -> -1 .. q - 1]
    /\ ipp_res[c] \in [0 .. n - 1 -> -1 .. size - 1]
    /\ res[c] \in [0 .. size - 1 -> -1 .. size - 1]

CallTypes(c) ==
    /\ job[c].ratio \in 0 .. 100
    /\ chunk[c] \in [DOMAIN chunk[c] -> {"todo", "running", "done"}]
    /\ stage[c] = "running" => VectorTypes(c, QatSize(c), IppSize(c), job[c].size)
    /\ stage[c] # "running" => VectorTypes(c, 0, 0, job[c].size) /\ slice[c] = 0

TInv == GlobalTypes /\ \A c \in Client : CallTypes(c)

\* With the invariant above that is the type invariant.
LEMMA TypesOfAll == HInv /\ TInv => HybridTypeOK
<1>. SUFFICES ASSUME HInv, TInv PROVE HybridTypeOK
  OBVIOUS
<1>1. ASSUME NEW c \in Client
      PROVE  /\ job[c] \in [size : Nat, ratio : 0 .. 100, hybrid_qat_size : 0 .. job[c].size]
             /\ slice[c] \in 0 .. SliceCount(QatSize(c))
             /\ chunk[c] \in [DOMAIN chunk[c] -> {"todo", "running", "done"}]
             /\ qat_res[c] \in Vector(IF stage[c] = "running" THEN QatSize(c) ELSE 0)
             /\ ipp_res[c] \in [0 .. (IF stage[c] = "running" THEN IppSize(c) ELSE 0) - 1 -> -1 .. job[c].size - 1]
             /\ res[c] \in Vector(job[c].size)
  <2>. CallTypes(c) /\ CallOK(c)
    BY DEF TInv, HInv
  <2>1. /\ QatSize(c) \in Nat /\ IppSize(c) \in Nat /\ job[c].size \in Nat
        /\ job[c].size = QatSize(c) + IppSize(c)
        /\ SliceCount(QatSize(c)) \in Nat
    BY CallSizes, Parts DEF SliceCount
  <2>2. job[c] \in [size : Nat, ratio : 0 .. 100, hybrid_qat_size : 0 .. job[c].size]
    <3>1. job[c] \in [size : Nat, ratio : Int, hybrid_qat_size : Nat]
      BY DEF HInv, Shape
    <3>2. job[c].hybrid_qat_size \in 0 .. job[c].size /\ job[c].ratio \in 0 .. 100
      BY <2>1, <3>1 DEF CallOK, QatSize, CallTypes
    <3>. QED BY <3>1, <3>2
  <2>3. slice[c] \in 0 .. SliceCount(QatSize(c))
    <3>1. stage[c] = "running" => slice[c] \in 0 .. SliceCount(QatSize(c))
      BY DEF CallOK, PartsOK, PartsShape
    <3>2. stage[c] # "running" => slice[c] \in 0 .. SliceCount(QatSize(c))
      BY <2>1 DEF CallTypes
    <3>. QED BY <3>1, <3>2
  <2>4. chunk[c] \in [DOMAIN chunk[c] -> {"todo", "running", "done"}]
    BY DEF CallTypes
  <2>5. CASE stage[c] = "running"
    BY <2>2, <2>3, <2>4, <2>5 DEF CallTypes, VectorTypes, Vector
  <2>6. CASE stage[c] # "running"
    BY <2>2, <2>3, <2>4, <2>6 DEF CallTypes, VectorTypes, Vector
  <2>. QED BY <2>5, <2>6
<1>2. /\ stage \in [Client -> {"idle", "running", "returned", "thrown"}]
      /\ qat_thread \in [Client -> {"none", "running", "done"}]
  BY DEF HInv, Shape
<1>. QED BY <1>1, <1>2 DEF HybridTypeOK, TInv, GlobalTypes

LEMMA EmptyTypes ==
    ASSUME NEW n \in Nat, NEW m \in Nat
    PROVE  Empty(n) \in [0 .. n - 1 -> -1 .. m - 1]
BY DEF Empty

LEMMA InitTInv == Init => TInv
<1>. SUFFICES ASSUME Init PROVE TInv
  OBVIOUS
<1>1. GlobalTypes
  <2>1. MaxSettings \in Nat /\ MaxCalls \in Nat /\ MaxContexts \in Nat
    BY HybridAssumption
  <2>2. /\ process \in {"up", "terminated"} /\ chunk_size \in ChunkSizes /\ max_threads \in ThreadCounts
        /\ isUsingQAT \in BOOLEAN /\ context_state \in {"INACTIVE", "ACTIVE", "RUNNING"}
        /\ settings = 0 /\ calls = 0 /\ contexts = 0
    BY DEF Init
  <2>3. hybrid \in [Client -> [ratio : -1 .. 100, mode : -1 .. 100]]
    <3>1. 0 \in -1 .. 100 /\ OPTIMAL \in -1 .. 100
      BY DEF OPTIMAL
    <3>. QED BY <3>1 DEF Init
  <2>4. chosen \in [Client -> -1 .. 100]
    BY DEF Init
  <2>. QED BY <2>1, <2>2, <2>3, <2>4 DEF GlobalTypes
<1>2. ASSUME NEW c \in Client PROVE CallTypes(c)
  <2>1. stage[c] = "idle" /\ slice[c] = 0 /\ job[c].ratio = 0 /\ job[c].size = 0
    BY DEF Init, NoJob
  <2>2. qat_res[c] = Empty(0) /\ ipp_res[c] = Empty(0) /\ res[c] = Empty(0) /\ chunk[c] = <<>>
    BY DEF Init
  <2>3. VectorTypes(c, 0, 0, 0)
    BY <2>2, EmptyTypes DEF VectorTypes
  <2>4. chunk[c] \in [DOMAIN chunk[c] -> {"todo", "running", "done"}]
    BY <2>2
  <2>. QED BY <2>1, <2>3, <2>4 DEF CallTypes
<1>. QED BY <1>1, <1>2 DEF TInv

LEMMA CallTypesFrame ==
    ASSUME NEW c \in Client, CallTypes(c), stage'[c] = stage[c], job'[c] = job[c],
           slice'[c] = slice[c], chunk'[c] = chunk[c],
           qat_res'[c] = qat_res[c], ipp_res'[c] = ipp_res[c], res'[c] = res[c]
    PROVE  CallTypes(c)'
BY DEF CallTypes, VectorTypes, QatSize, IppSize

\* A step of one call.
LEMMA OthersTypesFrame ==
    ASSUME HInv, TInv, NEW d \in Client,
           UNCHANGED <<envVars, paramVars, contextVars, calls, job>>,
           process' \in {"up", "terminated"},
           \A c \in Client \ {d} :
              /\ stage'[c] = stage[c] /\ slice'[c] = slice[c]
              /\ chunk'[c] = chunk[c] /\ qat_res'[c] = qat_res[c] /\ ipp_res'[c] = ipp_res[c]
              /\ res'[c] = res[c],
           CallTypes(d)'
    PROVE  TInv'
<1>1. GlobalTypes'
  BY DEF TInv, GlobalTypes, envVars, paramVars, contextVars
<1>2. ASSUME NEW c \in Client, c # d PROVE CallTypes(c)'
  BY <1>2, CallTypesFrame DEF TInv
<1>. QED BY <1>1, <1>2 DEF TInv

LEMMA SetTypes ==
    ASSUME HInv, TInv, NEW d \in Client, SetHybridRatio(d) \/ SetHybridMode(d) \/ SetHybridOff(d)
    PROVE  TInv'
<1>. DEFINE Percent == -1 .. 100
<1>1. PICK ratio \in Percent, mode \in Percent : Set(d, ratio, mode)
  <2>1. hybrid[d].mode \in Percent /\ UNDEFINED \in Percent /\ 0 \in Percent
    <3>1. hybrid[d].mode \in Percent
      BY DEF TInv, GlobalTypes
    <3>. QED BY <3>1 DEF UNDEFINED
  <2>2. Ratios \subseteq Percent /\ Modes \subseteq Percent
    BY HybridAssumption
  <2>. HIDE DEF Percent
  <2>3. CASE SetHybridRatio(d)
    BY <2>1, <2>2, <2>3 DEF SetHybridRatio
  <2>4. CASE SetHybridMode(d)
    BY <2>1, <2>2, <2>4 DEF SetHybridMode
  <2>5. CASE SetHybridOff(d)
    BY <2>1, <2>5 DEF SetHybridOff
  <2>. QED BY <2>3, <2>4, <2>5
<1>2. /\ UNCHANGED <<process, envVars, contextVars, callVars>>
      /\ settings < MaxSettings /\ settings' = settings + 1
      /\ hybrid' = [c \in Client |-> IF c = d THEN [ratio |-> ratio, mode |-> mode] ELSE hybrid[c]]
      /\ chosen' = [chosen EXCEPT ![d] = ratio]
  BY <1>1 DEF Set, Holders
<1>3. /\ hybrid \in [Client -> [ratio : Percent, mode : Percent]]
      /\ chosen \in [Client -> Percent]
      /\ settings \in 0 .. MaxSettings /\ MaxSettings \in Nat
  BY HybridAssumption DEF TInv, GlobalTypes
<1>. HIDE DEF Percent
<1>4. /\ hybrid' \in [Client -> [ratio : Percent, mode : Percent]]
      /\ chosen' \in [Client -> Percent]
  BY <1>2, <1>3
<1>5. settings' \in 0 .. MaxSettings
  BY <1>2, <1>3
<1>6. GlobalTypes'
  BY <1>2, <1>4, <1>5 DEF TInv, GlobalTypes, envVars, contextVars, callVars, Percent
<1>7. ASSUME NEW c \in Client PROVE CallTypes(c)'
  BY <1>2, CallTypesFrame DEF TInv, callVars
<1>. QED BY <1>6, <1>7 DEF TInv

LEMMA ContextTypes ==
    ASSUME HInv, TInv, InitializeQAT \/ TerminateContext \/ BecomesRunning \/ UNCHANGED vars
    PROVE  TInv'
<1>1. UNCHANGED <<process, envVars, paramVars, callVars>>
  BY DEF InitializeQAT, TerminateContext, ContextCall, BecomesRunning, vars
<1>2. contexts' \in 0 .. MaxContexts
  <2>1. contexts \in 0 .. MaxContexts /\ MaxContexts \in Nat
    BY HybridAssumption DEF TInv, GlobalTypes
  <2>2. contexts' = contexts \/ (contexts < MaxContexts /\ contexts' = contexts + 1)
    BY DEF InitializeQAT, TerminateContext, ContextCall, BecomesRunning, vars, contextVars
  <2>. QED BY <2>1, <2>2
<1>3. isUsingQAT' \in BOOLEAN /\ context_state' \in {"INACTIVE", "ACTIVE", "RUNNING"}
  <2>1. isUsingQAT \in BOOLEAN /\ context_state \in {"INACTIVE", "ACTIVE", "RUNNING"}
    BY DEF TInv, GlobalTypes
  <2>2. CASE InitializeQAT
    BY <2>1, <2>2 DEF InitializeQAT
  <2>3. CASE TerminateContext
    BY <2>1, <2>3 DEF TerminateContext
  <2>4. CASE BecomesRunning
    BY <2>1, <2>4 DEF BecomesRunning
  <2>5. CASE UNCHANGED vars
    BY <2>1, <2>5 DEF vars, contextVars
  <2>. QED BY <2>2, <2>3, <2>4, <2>5
<1>4. GlobalTypes'
  BY <1>1, <1>2, <1>3 DEF TInv, GlobalTypes, envVars, paramVars, callVars
<1>5. ASSUME NEW c \in Client PROVE CallTypes(c)'
  BY <1>1, CallTypesFrame DEF TInv, callVars
<1>. QED BY <1>4, <1>5 DEF TInv

LEMMA BeginTypes ==
    ASSUME HInv, TInv, NEW d \in Client, NEW size \in Nat \ {0}, NEW ratio \in 0 .. 100,
           Begin(d, size, ratio), UNCHANGED chunk_size
    PROVE  \A c \in Client : CallTypes(c)'
<1>1. PICK n \in QatSizes(ratio, size) :
          /\ job' = [job EXCEPT ![d] = [size |-> size, ratio |-> ratio, hybrid_qat_size |-> n]]
          /\ slice' = [slice EXCEPT ![d] = 0]
          /\ chunk' = [chunk EXCEPT ![d] =
                [k \in 0 .. Ceiling(size - n, chunk_size) - 1 |-> "todo"]]
          /\ qat_res' = [qat_res EXCEPT ![d] = Empty(n)]
          /\ ipp_res' = [ipp_res EXCEPT ![d] = Empty(size - n)]
          /\ res' = [res EXCEPT ![d] = Empty(size)]
          /\ stage' = [stage EXCEPT ![d] = "running"]
  BY DEF Begin
<1>2. n \in Nat /\ size - n \in Nat
  <2>1. n \in 0 .. size
    BY QatSizeBounds
  <2>. QED BY <2>1
<1>3. ASSUME NEW c \in Client PROVE CallTypes(c)'
  <2>1. CASE c = d
    <3>1. /\ job'[d] = [size |-> size, ratio |-> ratio, hybrid_qat_size |-> n]
          /\ chunk'[d] = [k \in 0 .. Ceiling(size - n, chunk_size) - 1 |-> "todo"]
          /\ qat_res'[d] = Empty(n) /\ ipp_res'[d] = Empty(size - n) /\ res'[d] = Empty(size)
          /\ stage'[d] = "running"
      BY <1>1 DEF HInv, Shape
    <3>2. /\ QatSize(d)' = n /\ IppSize(d)' = size - n /\ job'[d].size = size
          /\ job'[d].ratio = ratio
      BY <3>1 DEF QatSize, IppSize
    <3>3. /\ qat_res'[d] \in [0 .. n - 1 -> -1 .. n - 1]
          /\ ipp_res'[d] \in [0 .. (size - n) - 1 -> -1 .. size - 1]
          /\ res'[d] \in [0 .. size - 1 -> -1 .. size - 1]
      BY <1>2, <3>1, EmptyTypes
    <3>4. VectorTypes(d, QatSize(d), IppSize(d), job[d].size)'
      BY <3>2, <3>3 DEF VectorTypes
    <3>5. chunk'[d] \in [DOMAIN chunk'[d] -> {"todo", "running", "done"}]
      BY <3>1
    <3>. QED BY <2>1, <3>1, <3>2, <3>4, <3>5 DEF CallTypes
  <2>2. CASE c # d
    <3>1. /\ job'[c] = job[c] /\ slice'[c] = slice[c]
          /\ chunk'[c] = chunk[c] /\ qat_res'[c] = qat_res[c] /\ ipp_res'[c] = ipp_res[c]
          /\ res'[c] = res[c] /\ stage'[c] = stage[c]
      BY <1>1, <2>2 DEF HInv, Shape
    <3>. QED BY <3>1, CallTypesFrame DEF TInv
  <2>. QED BY <2>1, <2>2
<1>. QED BY <1>3

LEMMA CallTypesStep ==
    ASSUME HInv, TInv, NEW d \in Client, NEW size \in Sizes, NEW ratio \in -1 .. 100,
           Call(d, size, ratio), hybrid' = [hybrid EXCEPT ![d].ratio = ratio]
    PROVE  TInv'
<1>. DEFINE Percent == -1 .. 100
<1>1. /\ UNCHANGED <<process, envVars, chosen, settings, contextVars>>
      /\ stage[d] # "running" /\ calls < MaxCalls /\ calls' = calls + 1
      /\ size \in Nat \ {0}
  BY HybridAssumption DEF Call
<1>2. hybrid' \in [Client -> [ratio : Percent, mode : Percent]]
  <2>1. hybrid \in [Client -> [ratio : Percent, mode : Percent]] /\ ratio \in Percent
    BY DEF TInv, GlobalTypes
  <2>. HIDE DEF Percent
  <2>. QED BY <2>1
<1>3. calls' \in 0 .. MaxCalls
  <2>1. calls \in 0 .. MaxCalls /\ MaxCalls \in Nat
    BY HybridAssumption DEF TInv, GlobalTypes
  <2>. QED BY <1>1, <2>1
<1>4. GlobalTypes'
  BY <1>1, <1>2, <1>3 DEF TInv, GlobalTypes, envVars, contextVars
<1>5. CASE CorrectRatio(ratio) /\ Begin(d, size, ratio)
  <2>1. \A c \in Client : CallTypes(c)'
    BY <1>1, <1>5, BeginTypes DEF CorrectRatio, envVars
  <2>. QED BY <1>4, <2>1 DEF TInv
<1>6. CASE /\ stage' = [stage EXCEPT ![d] = "thrown"]
           /\ UNCHANGED <<job, qat_thread, slice, chunk, qat_res, ipp_res, res>>
  <2>1. /\ stage'[d] = "thrown" /\ stage[d] # "running"
        /\ \A c \in Client \ {d} : stage'[c] = stage[c]
    BY <1>1, <1>6 DEF HInv, Shape
  <2>2. CallTypes(d)'
    BY <1>6, <2>1 DEF TInv, CallTypes, VectorTypes
  <2>3. ASSUME NEW c \in Client, c # d PROVE CallTypes(c)'
    BY <1>6, <2>1, <2>3, CallTypesFrame DEF TInv
  <2>. QED BY <1>4, <2>2, <2>3 DEF TInv
<1>. QED BY <1>5, <1>6 DEF Call

LEMMA ClientTypes ==
    ASSUME HInv, TInv, NEW d \in Client, ClientStep(d)
    PROVE  TInv'
<1>1. hybrid[d].ratio \in -1 .. 100 /\ hybrid \in [Client -> [ratio : Int, mode : Int]]
  BY DEF HInv, Shape, TInv, GlobalTypes
<1>2. CASE SetHybridRatio(d) \/ SetHybridMode(d) \/ SetHybridOff(d)
  BY <1>2, SetTypes
<1>3. CASE ModExp(d)
  <2>1. hybrid' = [hybrid EXCEPT ![d].ratio = hybrid[d].ratio]
    BY <1>1, <1>3 DEF ModExp
  <2>. QED BY <1>1, <1>3, <2>1, CallTypesStep DEF ModExp
<1>4. CASE Operate(d)
  <2>1. PICK size \in Sizes,
             ratio \in {hybrid[d].ratio, 100, EncryptRatio, DecryptRatio, MultiplyRatio} :
            hybrid' = [hybrid EXCEPT ![d].ratio = ratio] /\ Call(d, size, ratio)
    BY <1>4 DEF Operate
  <2>2. ratio \in -1 .. 100
    BY <1>1, HybridAssumption
  <2>. QED BY <2>1, <2>2, CallTypesStep
<1>. QED BY <1>2, <1>3, <1>4 DEF ClientStep

LEMMA QatSliceTypes ==
    ASSUME HInv, TInv, NEW d \in Client, QatSlice(d)
    PROVE  TInv'
<1>. DEFINE q == QatSize(d)
            Covered(i) == i \in slice[d] * BatchSize .. slice[d] * BatchSize + SliceLength(slice[d], q) - 1
<1>1. /\ UNCHANGED <<process, envVars, paramVars, contextVars, calls, stage, job, chunk, ipp_res, res>>
      /\ stage[d] = "running" /\ process = "up"
      /\ slice' = [slice EXCEPT ![d] = @ + 1]
      /\ qat_res' = [qat_res EXCEPT ![d] = [i \in DOMAIN @ |-> IF Covered(i) THEN i ELSE @[i]]]
  BY DEF QatSlice, Running
<1>. HIDE DEF Covered
<1>2. /\ qat_res'[d] = [i \in DOMAIN qat_res[d] |-> IF Covered(i) THEN i ELSE qat_res[d][i]]
      /\ \A c \in Client \ {d} : slice'[c] = slice[c] /\ qat_res'[c] = qat_res[c]
  BY <1>1 DEF HInv, Shape
<1>3. q \in Nat
  BY CallSizes
<1>4. QatSize(d)' = q /\ IppSize(d)' = IppSize(d)
  BY <1>1 DEF QatSize, IppSize
<1>. HIDE DEF q
<1>5. VectorTypes(d, q, IppSize(d), job[d].size)
  BY <1>1 DEF TInv, CallTypes, q
<1>6. qat_res'[d] \in [0 .. q - 1 -> -1 .. q - 1]
  BY <1>2, <1>3, <1>5 DEF VectorTypes
<1>7. VectorTypes(d, QatSize(d), IppSize(d), job[d].size)'
  BY <1>1, <1>4, <1>5, <1>6 DEF VectorTypes
<1>8. CallTypes(d)'
  BY <1>1, <1>7 DEF TInv, CallTypes
<1>. QED BY <1>1, <1>2, <1>8, OthersTypesFrame

LEMMA QatEndsTypes ==
    ASSUME HInv, TInv, NEW d \in Client, QatEnds(d)
    PROVE  TInv'
<1>. DEFINE q == QatSize(d)
            size == job[d].size
<1>1. /\ UNCHANGED <<process, envVars, paramVars, contextVars, calls, stage, job, slice, chunk,
                     qat_res, ipp_res>>
      /\ stage[d] = "running" /\ process = "up"
      /\ res' = [res EXCEPT ![d] = [i \in DOMAIN @ |-> IF i < q THEN qat_res[d][i] ELSE @[i]]]
  BY DEF QatEnds, Running
<1>2. /\ res'[d] = [i \in DOMAIN res[d] |-> IF i < q THEN qat_res[d][i] ELSE res[d][i]]
      /\ \A c \in Client \ {d} : res'[c] = res[c]
  BY <1>1 DEF HInv, Shape
<1>3. q \in Nat /\ size \in Nat /\ q <= size
  BY CallSizes
<1>4. QatSize(d)' = q /\ IppSize(d)' = IppSize(d)
  BY <1>1 DEF QatSize, IppSize
<1>5. VectorTypes(d, q, IppSize(d), size)
  BY <1>1 DEF TInv, CallTypes
<1>. HIDE DEF q, size
<1>6. res'[d] \in [0 .. size - 1 -> -1 .. size - 1]
  <2>1. \A i \in 0 .. q - 1 : qat_res[d][i] \in -1 .. q - 1
    BY <1>5 DEF VectorTypes
  <2>2. \A i \in 0 .. size - 1 : i < q => qat_res[d][i] \in -1 .. size - 1
    BY <1>3, <2>1
  <2>. QED BY <1>2, <1>3, <1>5, <2>2 DEF VectorTypes
<1>7. VectorTypes(d, QatSize(d), IppSize(d), job[d].size)'
  BY <1>1, <1>4, <1>5, <1>6 DEF VectorTypes, size
<1>8. CallTypes(d)'
  BY <1>1, <1>7 DEF TInv, CallTypes
<1>. QED BY <1>1, <1>2, <1>8, OthersTypesFrame

LEMMA ChunkTypes ==
    ASSUME HInv, TInv, NEW d \in Client, NEW k \in DOMAIN chunk[d],
           ChunkBegins(d, k) \/ ChunkEnds(d, k)
    PROVE  TInv'
<1>. DEFINE q == QatSize(d)
            n == IppSize(d)
            size == job[d].size
<1>1. /\ UNCHANGED <<process, envVars, paramVars, contextVars, calls, stage, job, slice,
                     qat_res, res>>
      /\ stage[d] = "running" /\ process = "up"
      /\ \E s \in {"running", "done"} : chunk' = [chunk EXCEPT ![d][k] = s]
  BY DEF ChunkBegins, ChunkEnds, Running
<1>2. /\ DOMAIN chunk'[d] = DOMAIN chunk[d]
      /\ chunk'[d] \in [DOMAIN chunk[d] -> {"todo", "running", "done"}]
      /\ \A c \in Client \ {d} : chunk'[c] = chunk[c]
  <2>1. chunk[d] \in [DOMAIN chunk[d] -> {"todo", "running", "done"}]
    BY DEF TInv, CallTypes
  <2>2. PICK s \in {"running", "done"} : chunk' = [chunk EXCEPT ![d][k] = s]
    BY <1>1
  <2>. QED BY <2>1, <2>2 DEF HInv, Shape
<1>3. q \in Nat /\ n \in Nat /\ size = q + n
  BY CallSizes
<1>4. QatSize(d)' = q /\ IppSize(d)' = n
  BY <1>1 DEF QatSize, IppSize
<1>5. VectorTypes(d, q, n, size)
  BY <1>1 DEF TInv, CallTypes
<1>6. /\ ipp_res'[d] \in [0 .. n - 1 -> -1 .. size - 1]
      /\ \A c \in Client \ {d} : ipp_res'[c] = ipp_res[c]
  <2>1. CASE ChunkBegins(d, k)
    BY <1>5, <2>1 DEF ChunkBegins, VectorTypes
  <2>2. CASE ChunkEnds(d, k)
    <3>. DEFINE Covered(i) == i \in k * chunk_size .. k * chunk_size + ChunkLength(k, n) - 1
    <3>1. ipp_res' = [ipp_res EXCEPT ![d] = [i \in DOMAIN @ |-> IF Covered(i) THEN q + i ELSE @[i]]]
      BY <2>2 DEF ChunkEnds
    <3>. HIDE DEF Covered, q, n, size
    <3>2. /\ ipp_res'[d] = [i \in DOMAIN ipp_res[d] |-> IF Covered(i) THEN q + i ELSE ipp_res[d][i]]
          /\ \A c \in Client \ {d} : ipp_res'[c] = ipp_res[c]
      BY <3>1 DEF HInv, Shape
    <3>3. \A i \in 0 .. n - 1 : q + i \in -1 .. size - 1
      BY <1>3
    <3>. QED BY <1>5, <3>2, <3>3 DEF VectorTypes
  <2>. QED BY <2>1, <2>2
<1>7. VectorTypes(d, QatSize(d), IppSize(d), job[d].size)'
  BY <1>1, <1>4, <1>5, <1>6 DEF VectorTypes
<1>8. CallTypes(d)'
  BY <1>1, <1>2, <1>7 DEF TInv, CallTypes
<1>. QED BY <1>1, <1>2, <1>6, <1>8, OthersTypesFrame

\* The vectors of a call that is left are gone, but for its result.
LEMMA LeaveTypes ==
    ASSUME HInv, TInv, NEW d \in Client, NEW outcome \in {"returned", "thrown"},
           Leave(d, outcome), UNCHANGED <<envVars, paramVars, contextVars, calls, job>>,
           res'[d] \in [0 .. job[d].size - 1 -> -1 .. job[d].size - 1],
           \A c \in Client \ {d} : res'[c] = res[c]
    PROVE  TInv'
<1>1. /\ process' = process
      /\ stage' = [stage EXCEPT ![d] = outcome] /\ slice' = [slice EXCEPT ![d] = 0]
      /\ chunk' = [chunk EXCEPT ![d] = <<>>]
      /\ qat_res' = [qat_res EXCEPT ![d] = Empty(0)] /\ ipp_res' = [ipp_res EXCEPT ![d] = Empty(0)]
  BY DEF Leave
<1>2. /\ stage'[d] = outcome /\ slice'[d] = 0 /\ chunk'[d] = <<>>
      /\ qat_res'[d] = Empty(0) /\ ipp_res'[d] = Empty(0)
      /\ \A c \in Client \ {d} :
            /\ stage'[c] = stage[c] /\ slice'[c] = slice[c] /\ chunk'[c] = chunk[c]
            /\ qat_res'[c] = qat_res[c] /\ ipp_res'[c] = ipp_res[c]
  BY <1>1 DEF HInv, Shape
<1>3. CallTypes(d)'
  <2>1. job[d].size \in Nat
    BY CallSizes
  <2>2. VectorTypes(d, 0, 0, job[d].size)'
    BY <1>2, <2>1, EmptyTypes DEF VectorTypes
  <2>3. chunk'[d] \in [DOMAIN chunk'[d] -> {"todo", "running", "done"}]
    BY <1>2
  <2>. QED BY <1>2, <2>2, <2>3 DEF TInv, CallTypes
<1>4. process' \in {"up", "terminated"}
  BY <1>1 DEF HInv, Shape
<1>. QED BY <1>2, <1>3, <1>4, OthersTypesFrame

LEMMA TerminateTypes ==
    ASSUME HInv, TInv, Terminate,
           UNCHANGED <<envVars, paramVars, contextVars, calls, job, res>>
    PROVE  TInv'
<1>1. process' = "terminated" /\ UNCHANGED <<stage, slice, chunk, qat_res, ipp_res>>
  BY DEF Terminate
<1>2. GlobalTypes'
  BY <1>1 DEF TInv, GlobalTypes, envVars, paramVars, contextVars
<1>3. ASSUME NEW c \in Client PROVE CallTypes(c)'
  BY <1>1, CallTypesFrame DEF TInv
<1>. QED BY <1>2, <1>3 DEF TInv

LEMMA FailureTypes ==
    ASSUME HInv, TInv, NEW d \in Client, Failure(d)
    PROVE  TInv'
<1>1. /\ UNCHANGED <<envVars, paramVars, contextVars, calls, job, res>>
      /\ Terminate \/ Leave(d, "thrown")
  BY DEF Failure, QatFails, ChunkFails
<1>2. res[d] \in [0 .. job[d].size - 1 -> -1 .. job[d].size - 1]
  BY DEF TInv, CallTypes, VectorTypes
<1>. QED BY <1>1, <1>2, TerminateTypes, LeaveTypes

LEMMA ReturnTypes ==
    ASSUME HInv, TInv, NEW d \in Client, Return(d)
    PROVE  TInv'
<1>. DEFINE q == QatSize(d)
            n == IppSize(d)
            size == job[d].size
<1>1. /\ Leave(d, "returned") /\ stage[d] = "running"
      /\ UNCHANGED <<envVars, paramVars, contextVars, calls, job>>
      /\ res' = [res EXCEPT ![d] = [i \in DOMAIN @ |-> IF i < q THEN @[i] ELSE ipp_res[d][i - q]]]
  BY DEF Return, Running
<1>2. q \in Nat /\ n \in Nat /\ size = q + n
  BY CallSizes
<1>3. VectorTypes(d, q, n, size)
  BY <1>1 DEF TInv, CallTypes
<1>. HIDE DEF q, n, size
<1>4. /\ res'[d] = [i \in DOMAIN res[d] |-> IF i < q THEN res[d][i] ELSE ipp_res[d][i - q]]
      /\ \A c \in Client \ {d} : res'[c] = res[c]
  BY <1>1 DEF HInv, Shape
<1>5. res'[d] \in [0 .. size - 1 -> -1 .. size - 1]
  <2>1. ASSUME NEW i \in 0 .. size - 1, ~(i < q) PROVE ipp_res[d][i - q] \in -1 .. size - 1
    <3>1. i - q \in 0 .. n - 1
      BY <1>2, <2>1
    <3>. QED BY <1>3, <3>1 DEF VectorTypes
  <2>. QED BY <1>3, <1>4, <2>1 DEF VectorTypes
<1>. QED BY <1>1, <1>4, <1>5, LeaveTypes DEF size

LEMMA NextTInv == HInv /\ TInv /\ [Next]_vars => TInv'
<1>. SUFFICES ASSUME HInv, TInv, [Next]_vars PROVE TInv'
  OBVIOUS
<1>1. CASE InitializeQAT \/ TerminateContext \/ BecomesRunning \/ UNCHANGED vars
  BY <1>1, ContextTypes
<1>2. ASSUME NEW d \in Client,
             ClientStep(d) \/ QatStep(d) \/ TeamStep(d) \/ Failure(d) \/ Return(d)
      PROVE  TInv'
  BY <1>2, ClientTypes, QatSliceTypes, QatEndsTypes, ChunkTypes, FailureTypes, ReturnTypes
     DEF QatStep, TeamStep
<1>. QED BY <1>1, <1>2 DEF Next

\* Every variable keeps its type, and the vectors of a call their lengths and
\* bounds: nothing a slice, a chunk or the caller writes lies outside the vectors
\* that modExp has made for it (mod_exp.cpp), for all sizes.
THEOREM HybridTypeCorrect == Spec => []HybridTypeOK
BY HybridInvariant, InitTInv, NextTInv, TypesOfAll, PTL DEF Spec
=============================================================================
