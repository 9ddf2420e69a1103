----------------------------- MODULE ReadingsProofs -----------------------------
(***************************************************************************)
(* Proofs about the parts of Readings.  A part is proved by itself: an     *)
(* invariant over its variables, which its steps keep and which those of   *)
(* the other parts leave alone.                                            *)
(***************************************************************************)
EXTENDS Readings, Selection, FiniteSetTheorems, SequenceTheorems, WellFoundedInduction,
        TLAPS

-----------------------------------------------------------------------------
(* Induction.  The library's theorems of induction take an operator; that  *)
(* every set of numbers has a least one does not, and serves as well.      *)

(* The order of the natural numbers is well-founded. *)
LEMMA LessWellFounded == IsWellFoundedOn({p \in Nat \X Nat : p[1] < p[2]}, Nat)
  BY NatLessThanWellFounded DEF OpToRel

(* A set of natural numbers that is not empty has a least element. *)
LEMMA Least ==
  ASSUME NEW T, T \subseteq Nat, T # {}
  PROVE  \E x \in T : \A y \in T : x <= y
<1> DEFINE R == {p \in Nat \X Nat : p[1] < p[2]}
<1>1. IsWellFoundedOn(R, Nat)
  BY LessWellFounded
<1>2. \E x \in T : \A y \in T : ~(<<y, x>> \in R)
  <2> HIDE DEF R
  <2> QED
    BY <1>1, WFMin
<1>3. PICK x \in T : \A y \in T : ~(<<y, x>> \in R)
  BY <1>2
<1>4. ASSUME NEW y \in T PROVE x <= y
  <2>1. x \in Nat /\ y \in Nat
    OBVIOUS
  <2>2. ~(<<y, x>> \in R)
    BY <1>3
  <2>3. ~(y < x)
    BY <2>1, <2>2
  <2> QED
    BY <2>1, <2>3
<1> QED
  BY <1>4

\* The function g is defined, from its value b at 0, by F of its value one before.
Follows(g, X, b, n, F) ==
  g \in [0..n -> X] /\ g[0] = b /\ \A i \in 1..n : g[i] = F[<<g[i - 1], i>>]

(* A function that is defined from its value one before exists on every    *)
(* initial segment of the natural numbers.                                 *)
LEMMA PrefixRecursion ==
  ASSUME NEW X, NEW b \in X, NEW n \in Nat, NEW F,
         \A x \in X, i \in 1..n : F[<<x, i>>] \in X
  PROVE  \E g : Follows(g, X, b, n, F)
<1> DEFINE Good(m) == \E g : Follows(g, X, b, m, F)
           Bad == {m \in 0..n : ~Good(m)}
<1>1. SUFFICES ASSUME Bad # {} PROVE FALSE
  <2>1. n \in 0..n
    OBVIOUS
  <2> QED
    BY <2>1
<1>2. PICK m \in Bad : \A y \in Bad : m <= y
  BY <1>1, Least, Bad \subseteq Nat
<1>3. m # 0
  <2>1. PICK z \in [0..0 -> X] : z = [i \in 0..0 |-> b]
    OBVIOUS
  <2>2. z[0] = b /\ 1..0 = {}
    BY <2>1
  <2>3. Follows(z, X, b, 0, F)
    BY <2>1, <2>2 DEF Follows
  <2> QED
    BY <1>2, <2>3
<1>4. m - 1 \in 0..n /\ m - 1 \notin Bad /\ m \in 1..n
  BY <1>2, <1>3
<1>5. PICK g \in [0..m - 1 -> X] : g[0] = b /\ \A i \in 1..m - 1 : g[i] = F[<<g[i - 1], i>>]
  BY <1>4 DEF Follows
<1> DEFINE h == [i \in 0..m |-> IF i = m THEN F[<<g[m - 1], m>>] ELSE g[i]]
<1>6. F[<<g[m - 1], m>>] \in X
  BY <1>4, <1>5
<1>7. h \in [0..m -> X] /\ h[0] = b
  BY <1>3, <1>4, <1>5, <1>6
<1>8. ASSUME NEW i \in 1..m PROVE h[i] = F[<<h[i - 1], i>>]
  <2>1. CASE i = m
    <3>1. i - 1 \in 0..m /\ i - 1 # m /\ m \in 0..m
      BY <1>4, <2>1
    <3>2. h[m] = F[<<g[m - 1], m>>] /\ h[i - 1] = g[i - 1]
      BY <3>1
    <3> QED
      BY <2>1, <3>2
  <2>2. CASE i # m
    <3>1. i \in 1..m - 1 /\ i - 1 \in 0..m - 1 /\ i - 1 # m /\ i \in 0..m /\ i - 1 \in 0..m
      BY <1>4, <2>2
    <3>2. h[i] = g[i] /\ h[i - 1] = g[i - 1]
      BY <2>2, <3>1
    <3> QED
      BY <1>5, <3>1, <3>2
  <2> QED
    BY <2>1, <2>2
<1>9. Follows(h, X, b, m, F)
  BY <1>7, <1>8 DEF Follows
<1> QED
  BY <1>2, <1>9

(* What holds at 0 and of each number if of the one before holds up to n. *)
LEMMA PrefixInduction ==
  ASSUME NEW n \in Nat, NEW P, 0 \in P, \A i \in 1..n : i - 1 \in P => i \in P
  PROVE  \A i \in 0..n : i \in P
<1> DEFINE Bad == {i \in 0..n : i \notin P}
<1>1. ASSUME Bad # {} PROVE FALSE
  <2>1. PICK m \in Bad : \A y \in Bad : m <= y
    BY <1>1, Least, Bad \subseteq Nat
  <2>2. m \in 1..n /\ m - 1 \in 0..n /\ ~(m <= m - 1)
    BY <2>1
  <2> QED
    BY <2>1, <2>2
<1> QED
  BY <1>1

-----------------------------------------------------------------------------
(* Mcp.  The calls of a second began in at most two windows: the one that  *)
(* is open, whose calls its count bounds, and the one before, whose calls  *)
(* are no younger than the open window.  When a new window begins the      *)
(* calls of the one before the last are too old to count.                  *)

McpShape ==
  /\ mcp \in [at : {"starts", "serves", "crashed", "ended"}, initialized : BOOLEAN]
  /\ rate \in [window : 0..Window + 1, count : 0..RATE_LIMIT + 1, calls : Seq(Nat)]

(* The oldest call comes first, and none is older than the window.         *)
InOrder ==
  \A i, j \in 1..Len(rate.calls) :
    /\ rate.calls[i] <= Window
    /\ i <= j => rate.calls[j] <= rate.calls[i]

(* The first k calls are those of the window before.                       *)
TwoWindows ==
  \E k \in 0..Len(rate.calls) :
    /\ k <= RATE_LIMIT
    /\ Len(rate.calls) - k <= RATE_LIMIT
    /\ rate.window > Window => k = 0
    /\ rate.window <= Window =>
         /\ Len(rate.calls) - k <= rate.count
         /\ \A i \in 1..k : rate.calls[i] >= rate.window

(* Only a session that is initialised gets to count calls.                 *)
LetRun ==
  /\ answer.to = "tools/call" /\ answer.code \in {0, -32000, -32603} =>
       mcp.initialized /\ rate.count > 0
  /\ mcp.at = "starts" => answer.to # "tools/call"

McpInv == McpShape /\ InOrder /\ TwoWindows /\ LetRun

(* The MCP server starts within its invariant. *)
LEMMA McpStarts ==
  ASSUME Server!McpInit
  PROVE  McpInv
<1>1. McpShape /\ rate.calls = << >> /\ Len(<< >>) = 0 /\ rate.window > Window
  BY McpAssumption DEF Server!McpInit, McpShape
<1>2. InOrder
  BY <1>1 DEF InOrder
<1>3. TwoWindows
  <2>1. 0 \in 0..Len(rate.calls) /\ Len(rate.calls) - 0 = 0 /\ RATE_LIMIT \in Nat
        /\ ~(rate.window <= Window)
    BY <1>1, McpAssumption DEF McpShape
  <2> QED
    BY <2>1 DEF TwoWindows
<1>4. LetRun
  BY DEF Server!McpInit, Server!NoAnswer, LetRun
<1> QED
  BY <1>1, <1>2, <1>3, <1>4 DEF McpInv

(* A sequence that is ordered by age is an old part and a young one: what  *)
(* Tick() drops are the first n calls, which are those that are old.       *)
LEMMA OldFirst ==
  ASSUME NEW s \in Seq(Nat), Window \in Nat,
         \A i, j \in 1..Len(s) : i <= j => s[j] <= s[i]
  PROVE  \E n \in 0..Len(s) :
           /\ Server!Aged(s) = [i \in 1..Len(s) - n |-> s[i + n] + 1]
           /\ \A i \in 1..Len(s) : i <= n <=> s[i] >= Window
<1> DEFINE Young == {m \in 1..Len(s) + 1 : m <= Len(s) => s[m] < Window}
<1>1. DOMAIN s = 1..Len(s) /\ Len(s) \in Nat /\ \A i \in 1..Len(s) : s[i] \in Nat
  OBVIOUS
<1>2. Young \subseteq Nat /\ Len(s) + 1 \in Young
  BY <1>1
<1>3. PICK m \in Young : \A y \in Young : m <= y
  BY <1>2, Least
<1>4. m \in 1..Len(s) + 1 /\ (m <= Len(s) => s[m] < Window)
  BY <1>3
<1>5. ASSUME NEW i \in 1..Len(s) PROVE i <= m - 1 <=> s[i] >= Window
  <2>1. CASE i <= m - 1
    BY <1>1, <1>3, <1>4, <2>1
  <2>2. CASE ~(i <= m - 1)
    <3>1. m \in 1..Len(s) /\ m <= i
      BY <1>1, <1>4, <2>2
    <3>2. s[i] <= s[m] /\ s[m] < Window
      BY <1>4, <3>1
    <3> QED
      BY <1>1, <2>2, <3>1, <3>2
  <2> QED
    BY <2>1, <2>2
<1>6. {i \in DOMAIN s : s[i] >= Window} = 1..(m - 1)
  BY <1>1, <1>4, <1>5
<1>7. Cardinality(1..(m - 1)) = m - 1 /\ m - 1 \in 0..Len(s)
  BY <1>1, <1>4, FS_Interval
<1>8. Server!Aged(s) = [i \in 1..Len(s) - (m - 1) |-> s[i + (m - 1)] + 1]
  <2>0. Server!Old(s) = Cardinality({i \in DOMAIN s : s[i] >= Window})
    BY DEF Server!Old, Server!Cardinality, Cardinality
  <2>1. Server!Old(s) = m - 1
    BY <1>6, <1>7, <2>0
  <2> QED
    BY <2>1 DEF Server!Aged
<1> QED
  BY <1>5, <1>7, <1>8

(* The next tick: who stays is in order, and what a window that is over    *)
(* let through is gone.                                                    *)
LEMMA McpTicks ==
  ASSUME McpInv, Server!Tick
  PROVE  McpInv'
<1>0. PICK s, w : s = rate.calls /\ w = rate.window
  OBVIOUS
<1>a. s \in Seq(Nat) /\ w \in Nat /\ Window \in Nat
  BY <1>0, McpAssumption DEF McpInv, McpShape
<1>b. \A i, j \in 1..Len(s) : i <= j => s[j] <= s[i]
  BY <1>0 DEF McpInv, InOrder
<1>c. PICK n \in 0..Len(s) :
        /\ Server!Aged(s) = [i \in 1..Len(s) - n |-> s[i + n] + 1]
        /\ \A i \in 1..Len(s) : i <= n <=> s[i] >= Window
  BY <1>a, <1>b, OldFirst
<1>1. /\ s = rate.calls /\ w = rate.window /\ s \in Seq(Nat) /\ w \in Nat /\ n \in 0..Len(s)
      /\ Server!Aged(s) = [i \in 1..Len(s) - n |-> s[i + n] + 1]
      /\ \A i \in 1..Len(s) : i <= n <=> s[i] >= Window
  BY <1>0, <1>a, <1>c
<1>2. /\ rate.count \in 0..RATE_LIMIT + 1 /\ w \in 0..Window + 1
      /\ Window \in Nat /\ RATE_LIMIT \in Nat /\ Len(s) \in Nat
      /\ \A i \in 1..Len(s) : s[i] \in Nat
  BY <1>1, McpAssumption DEF McpInv, McpShape
<1>3. /\ rate' = [window |-> IF w > Window THEN w ELSE w + 1, count |-> rate.count,
                  calls |-> Server!Aged(s)]
      /\ UNCHANGED <<mcp, answer>>
  BY <1>1 DEF Server!Tick, McpInv, McpShape
<1>4. PICK t : t = [i \in 1..Len(s) - n |-> s[i + n] + 1]
  OBVIOUS
<1>5. n \in Nat /\ n <= Len(s) /\ Len(s) - n \in Nat
  BY <1>1, <1>2
<1>6. \A i \in 1..Len(s) - n : i + n \in 1..Len(s) /\ t[i] = s[i + n] + 1 /\ t[i] \in Nat
  BY <1>2, <1>4, <1>5
<1>7. t \in Seq(Nat) /\ Len(t) = Len(s) - n
  <2>1. t \in [1..Len(s) - n -> Nat]
    BY <1>4, <1>6
  <2>2. t \in Seq(Nat)
    BY <1>5, <2>1, SeqDef
  <2>3. Len(t) \in Nat /\ DOMAIN t = 1..Len(t) /\ DOMAIN t = 1..Len(s) - n
    BY <2>1, <2>2, LenProperties
  <2> QED
    BY <1>5, <2>2, <2>3
<1>8. /\ rate'.calls = t /\ rate'.count = rate.count
      /\ rate'.window = IF w > Window THEN w ELSE w + 1
  BY <1>1, <1>3, <1>4
<1>9. McpShape'
  BY <1>1, <1>2, <1>3, <1>4, <1>7 DEF McpInv, McpShape
<1>10. InOrder'
  <2> SUFFICES ASSUME NEW i \in 1..Len(t), NEW j \in 1..Len(t)
               PROVE  t[i] <= Window /\ (i <= j => t[j] <= t[i])
    BY <1>8 DEF InOrder
  <2>1. i + n \in 1..Len(s) /\ j + n \in 1..Len(s) /\ ~(i + n <= n)
    BY <1>5, <1>6, <1>7
  <2>2. ~(s[i + n] >= Window)
    BY <1>1, <2>1
  <2>3. i <= j => s[j + n] <= s[i + n]
    BY <1>1, <1>5, <2>1 DEF McpInv, InOrder
  <2>4. t[i] = s[i + n] + 1 /\ t[j] = s[j + n] + 1
    BY <1>6, <1>7
  <2> QED
    BY <1>2, <2>1, <2>2, <2>3, <2>4
<1>11. TwoWindows'
  <2>1. PICK k \in 0..Len(s) :
          /\ k <= RATE_LIMIT
          /\ Len(s) - k <= RATE_LIMIT
          /\ w > Window => k = 0
          /\ w <= Window => /\ Len(s) - k <= rate.count
                            /\ \A i \in 1..k : s[i] >= w
    BY <1>1 DEF McpInv, TwoWindows
  <2>2. PICK l : l = IF k <= n THEN 0 ELSE k - n
    OBVIOUS
  <2>3. l \in 0..Len(t) /\ l <= RATE_LIMIT /\ Len(t) - l <= Len(s) - k
    BY <1>2, <1>5, <1>7, <2>1, <2>2
  <2>4. rate'.window > Window => l = 0
    <3>1. CASE w > Window
      BY <1>5, <2>1, <2>2, <3>1
    <3>2. CASE w = Window
      <4>1. \A i \in 1..k : i <= n
        BY <1>1, <1>2, <2>1, <3>2
      <4>2. k <= n
        <5>1. k \in Nat /\ n \in Nat /\ (k = 0 \/ k \in 1..k)
          BY <1>2, <1>5, <2>1
        <5> QED
          BY <4>1, <5>1
      <4> QED
        BY <2>2, <4>2
    <3>3. CASE w < Window
      BY <1>2, <1>8, <3>3
    <3> QED
      BY <1>2, <3>1, <3>2, <3>3
  <2>5. ASSUME rate'.window <= Window
        PROVE  Len(t) - l <= rate.count /\ \A i \in 1..l : t[i] >= rate'.window
    <3>1. w <= Window /\ rate'.window = w + 1
      BY <1>2, <1>8, <2>5
    <3>2. ASSUME NEW i \in 1..l PROVE t[i] >= w + 1
      <4>1. i \in 1..Len(s) - n /\ i + n \in 1..k
        BY <1>2, <1>5, <1>7, <2>1, <2>2, <2>3
      <4>2. t[i] = s[i + n] + 1 /\ s[i + n] >= w /\ s[i + n] \in Nat
        BY <1>2, <1>6, <2>1, <3>1, <4>1
      <4> QED
        BY <1>2, <4>2
    <3> QED
      BY <1>2, <1>7, <2>1, <2>3, <3>1, <3>2
  <2>6. Len(t) - l <= RATE_LIMIT
    BY <1>2, <1>5, <1>7, <2>1, <2>3
  <2> QED
    BY <1>8, <2>3, <2>4, <2>5, <2>6 DEF TwoWindows
<1>12. LetRun'
  BY <1>3, <1>8 DEF McpInv, LetRun
<1> QED
  BY <1>9, <1>10, <1>11, <1>12 DEF McpInv

(* A call that is counted belongs to the open window, or opens one with no *)
(* more than the limit of the last one's calls before it.                  *)
LEMMA McpCalls ==
  ASSUME McpInv, NEW t, NEW throws \in BOOLEAN, Server!HandleToolsCall(t, throws)
  PROVE  McpInv'
<1>1. CASE ~mcp.initialized
  BY <1>1 DEF Server!HandleToolsCall, Server!Replies, Server!Answers, McpInv, McpShape, InOrder,
              TwoWindows, LetRun
<1>2. CASE mcp.initialized
  <2>1. PICK r, s : r = Server!CheckRateLimit /\ s = rate.calls
    OBVIOUS
  <2>2. /\ RATE_LIMIT \in Nat /\ Window \in Nat /\ s \in Seq(Nat) /\ Len(s) \in Nat
        /\ rate.window \in 0..Window + 1 /\ rate.count \in 0..RATE_LIMIT + 1
        /\ \A i \in 1..Len(s) : s[i] \in Nat
    BY <2>1, McpAssumption DEF McpInv, McpShape
  <2>3. /\ r.window = IF rate.window > Window THEN 0 ELSE rate.window
        /\ r.count = IF rate.window > Window THEN 1 ELSE rate.count + 1
    BY <2>1 DEF Server!CheckRateLimit
  <2>4. UNCHANGED mcp /\ rate' = Server!Counted(r)
    BY <1>2, <2>1 DEF Server!HandleToolsCall
  <2>5. /\ rate'.window = r.window
        /\ rate'.count = IF r.count <= RATE_LIMIT THEN r.count ELSE RATE_LIMIT + 1
        /\ rate'.calls = IF r.count <= RATE_LIMIT THEN Append(s, 0) ELSE s
        /\ rate' = [window |-> rate'.window, count |-> rate'.count, calls |-> rate'.calls]
    BY <2>1, <2>4 DEF Server!Counted, Server!Granted
  <2>6. /\ Append(s, 0) \in Seq(Nat) /\ Len(Append(s, 0)) = Len(s) + 1
        /\ \A i \in 1..Len(s) : Append(s, 0)[i] = s[i]
        /\ Append(s, 0)[Len(s) + 1] = 0
    BY <2>2
  <2>7. McpShape'
    <3>1. mcp' \in [at : {"starts", "serves", "crashed", "ended"}, initialized : BOOLEAN]
      BY <2>4 DEF McpInv, McpShape
    <3>2. rate'.window \in 0..Window + 1 /\ rate'.count \in 0..RATE_LIMIT + 1
      BY <2>2, <2>3, <2>5
    <3>3. rate'.calls \in Seq(Nat)
      BY <2>2, <2>5, <2>6
    <3>4. rate' \in [window : 0..Window + 1, count : 0..RATE_LIMIT + 1, calls : Seq(Nat)]
      <4> PICK a, b, c : a = rate'.window /\ b = rate'.count /\ c = rate'.calls
        OBVIOUS
      <4> QED
        BY <2>5, <3>2, <3>3
    <3> QED
      BY <3>1, <3>4 DEF McpShape
  <2>8. InOrder'
    <3>1. CASE r.count <= RATE_LIMIT
      <4> SUFFICES ASSUME NEW i \in 1..Len(s) + 1, NEW j \in 1..Len(s) + 1
                   PROVE  /\ Append(s, 0)[i] <= Window
                          /\ i <= j => Append(s, 0)[j] <= Append(s, 0)[i]
        BY <2>5, <2>6, <3>1 DEF InOrder
      <4>1. i \in 1..Len(s) \/ i = Len(s) + 1
        BY <2>2
      <4>2. j \in 1..Len(s) \/ j = Len(s) + 1
        BY <2>2
      <4> QED
        BY <2>1, <2>2, <2>6, <4>1, <4>2 DEF McpInv, InOrder
    <3>2. CASE ~(r.count <= RATE_LIMIT)
      BY <2>1, <2>5, <3>2 DEF McpInv, InOrder
    <3> QED
      BY <3>1, <3>2
  <2>9. TwoWindows'
    <3>1. PICK k \in 0..Len(s) :
            /\ k <= RATE_LIMIT
            /\ Len(s) - k <= RATE_LIMIT
            /\ rate.window > Window => k = 0
            /\ rate.window <= Window =>
                 /\ Len(s) - k <= rate.count
                 /\ \A i \in 1..k : s[i] >= rate.window
      BY <2>1 DEF McpInv, TwoWindows
    <3>2. PICK l : l = IF rate.window > Window THEN Len(s) ELSE k
      OBVIOUS
    <3>3. PICK u : u = rate'.calls
      OBVIOUS
    <3>4. /\ l \in Nat /\ l <= Len(s) /\ l <= RATE_LIMIT
          /\ rate'.window <= Window /\ rate'.window \in Nat
          /\ \A i \in 1..l : s[i] >= rate'.window
      <4>1. CASE rate.window > Window
        <5>1. l = Len(s) /\ rate'.window = 0 /\ k = 0
          BY ONLY <2>3, <2>5, <3>1, <3>2, <4>1
        <5>2. Len(s) <= RATE_LIMIT
          BY ONLY <2>2, <3>1, <5>1
        <5> QED
          BY ONLY <2>2, <5>1, <5>2
      <4>2. CASE ~(rate.window > Window)
        <5>1. l = k /\ rate'.window = rate.window /\ rate.window <= Window
          BY ONLY <2>2, <2>3, <2>5, <3>2, <4>2
        <5> QED
          BY ONLY <2>2, <3>1, <5>1
      <4> QED
        BY <4>1, <4>2
    <3>5. /\ Len(u) \in Nat /\ Len(s) <= Len(u)
          /\ \A i \in 1..Len(s) : u[i] = s[i]
      BY <2>2, <2>5, <2>6, <3>3
    <3>6. Len(u) - l <= rate'.count /\ Len(u) - l <= RATE_LIMIT
      <4>1. CASE r.count <= RATE_LIMIT
        <5>1. Len(u) = Len(s) + 1 /\ rate'.count = r.count
          BY ONLY <2>5, <2>6, <3>3, <4>1
        <5> PICK n, c, d : n = Len(s) /\ c = rate.count /\ d = r.count
          OBVIOUS
        <5>a. n \in Nat /\ c \in Nat /\ d <= RATE_LIMIT
          BY ONLY <2>2, <4>1, n = Len(s), c = rate.count, d = r.count
        <5>2. CASE rate.window > Window
          <6>1. l = n /\ d = 1
            BY ONLY <2>3, <3>2, <5>2, n = Len(s), d = r.count
          <6> QED
            BY ONLY <2>2, <5>1, <5>a, <6>1, n = Len(s), d = r.count
        <5>3. CASE ~(rate.window > Window)
          <6>1. l = k /\ d = c + 1
            BY ONLY <2>3, <3>2, <5>3, c = rate.count, d = r.count
          <6>2. n - k <= c
            BY ONLY <2>2, <3>1, <5>3, n = Len(s), c = rate.count
          <6>3. Len(u) - l = (n - k) + 1
            BY ONLY <5>1, <5>a, <6>1, n = Len(s)
          <6> QED
            BY ONLY <2>2, <5>1, <5>a, <6>1, <6>2, <6>3, d = r.count
        <5> QED
          BY <5>2, <5>3
      <4>2. CASE ~(r.count <= RATE_LIMIT)
        BY <2>2, <2>3, <2>5, <3>1, <3>2, <3>3, <4>2
      <4> QED
        BY <4>1, <4>2
    <3>7. l \in 0..Len(u)
      BY <2>2, <3>4, <3>5
    <3>8. ASSUME NEW i \in 1..l PROVE u[i] >= rate'.window
      <4>1. i \in 1..Len(s)
        BY <2>2, <3>4
      <4> QED
        BY <3>4, <3>5, <4>1
    <3>9. /\ l <= RATE_LIMIT /\ Len(u) - l <= RATE_LIMIT
          /\ rate'.window > Window => l = 0
          /\ rate'.window <= Window =>
               /\ Len(u) - l <= rate'.count
               /\ \A i \in 1..l : u[i] >= rate'.window
      BY ONLY <2>2, <3>4, <3>6, <3>8
    <3> QED
      BY ONLY <3>3, <3>7, <3>9 DEF TwoWindows
  <2>10. LetRun'
    <3>1. answer'.code \in {0, -32000, -32603} => r.count <= RATE_LIMIT
      BY <1>2, <2>1 DEF Server!HandleToolsCall, Server!Granted, Server!Answers
    <3>2. mcp.at # "starts"
      BY DEF Server!HandleToolsCall
    <3> QED
      BY <1>2, <2>2, <2>3, <2>4, <2>5, <3>1, <3>2 DEF LetRun
  <2> QED
    BY <2>7, <2>8, <2>9, <2>10 DEF McpInv
<1> QED
  BY <1>1, <1>2

(* Every step of the MCP server keeps its invariant. *)
LEMMA McpStep ==
  ASSUME McpInv, Server!McpNext
  PROVE  McpInv'
<1>1. ASSUME UNCHANGED rate, McpShape', LetRun' PROVE McpInv'
  BY <1>1 DEF McpInv, InOrder, TwoWindows
<1>2. CASE \/ Server!ServerStarts \/ Server!ServerStops \/ Server!ConnectSocket
           \/ Server!Handshake \/ Server!OpenSharedMemory \/ Server!ClosePipe
  BY <1>1, <1>2
  DEF Server!ServerStarts, Server!ServerStops, Server!ConnectSocket, Server!Handshake,
      Server!OpenSharedMemory, Server!ClosePipe, Server!Goes, McpInv, McpShape, LetRun
<1>3. CASE Server!Run
  BY <1>1, <1>3 DEF Server!Run, McpInv, McpShape, LetRun
<1>4. CASE Server!OddLine
  BY <1>1, <1>4
  DEF Server!OddLine, Server!Replies, Server!Answers, Server!mcvars, McpInv, McpShape, LetRun
<1>5. CASE Server!BadMethod
  BY <1>1, <1>5 DEF Server!BadMethod, McpInv, McpShape, LetRun
<1>6. CASE Server!HandleInitialize
  <2>1. /\ mcp.at = "serves" /\ mcp' = [mcp EXCEPT !.initialized = TRUE]
        /\ answer'.to = "initialize" /\ UNCHANGED rate
    BY <1>6 DEF Server!HandleInitialize, Server!Answers
  <2>2. McpShape' /\ mcp'.at = "serves"
    BY <2>1 DEF McpInv, McpShape
  <2>3. LetRun'
    BY <2>1, <2>2 DEF LetRun
  <2> QED
    BY <1>1, <2>1, <2>2, <2>3
<1>7. CASE Server!HandleToolsList
  BY <1>1, <1>7
  DEF Server!HandleToolsList, Server!Replies, Server!Answers, McpInv, McpShape, LetRun
<1>8. CASE \E asked \in BOOLEAN : Server!Shutdown(asked)
  BY <1>1, <1>8 DEF Server!Shutdown, Server!Answers, McpInv, McpShape, LetRun
<1> QED
  BY <1>2, <1>3, <1>4, <1>5, <1>6, <1>7, <1>8, McpTicks, McpCalls DEF Server!McpNext

(* The bound follows. *)
LEMMA McpLimits ==
  ASSUME McpInv
  PROVE  CallsAreLimited
<1>1. Len(rate.calls) \in Nat /\ RATE_LIMIT \in Nat
  BY McpAssumption DEF McpInv, McpShape
<1>2. Len(rate.calls) <= 2 * RATE_LIMIT
  BY <1>1 DEF McpInv, TwoWindows
<1> QED
  BY <1>2 DEF McpInv, LetRun, CallsAreLimited, Server!CallsAreLimited

(* The steps of the other parts leave the MCP server as it is. *)
LEMMA McpKept ==
  ASSUME McpInv, UNCHANGED <<mcp, rate, answer>>
  PROVE  McpInv'
  BY DEF McpInv, McpShape, InOrder, TwoWindows, LetRun

(* However a client spreads its calls, no more than twice the limit of     *)
(* them get through in a window's time, and none before the session is     *)
(* initialised: CheckRateLimit() and HandleToolsCall(), for every limit    *)
(* and every length of the window.                                         *)
THEOREM CallsLimited == ReadingsSpec => []CallsAreLimited
<1>1. ReadingsInit => McpInv
  BY McpStarts DEF ReadingsInit
<1>2. McpInv /\ [ReadingsNext]_allVars => McpInv'
  <2> SUFFICES ASSUME McpInv, [ReadingsNext]_allVars PROVE McpInv'
    OBVIOUS
  <2>1. CASE McpSteps
    BY <2>1, McpStep DEF McpSteps
  <2>2. CASE ~McpSteps
    <3>1. UNCHANGED mcpVars
      BY <2>2 DEF ReadingsNext, allVars, LockSteps, ShotSteps, SchemaSteps, BlockSteps, SampleSteps,
                  ScreenSteps, TempsSteps
    <3> QED
      BY <3>1, McpKept DEF mcpVars
  <2> QED
    BY <2>1, <2>2
<1> QED
  BY <1>1, <1>2, McpLimits, PTL DEF ReadingsSpec

-----------------------------------------------------------------------------
(* Temps, Linux.  What was kept of the files so far are values apart, and  *)
(* no file so far is near none of them.                                    *)

\* What Deduped() has kept after each file.
KeptAfter(sources, f) ==
  f = [n \in 0..Len(sources) |->
         IF n = 0 THEN << >>
         ELSE IF /\ Heat!ReadTempMillideg(sources[n])
                 /\ \A i \in DOMAIN f[n - 1] : Heat!Apart(sources[n], f[n - 1][i])
              THEN Append(f[n - 1], sources[n])
              ELSE f[n - 1]]

(* Deduped() gives the last of them. *)
LEMMA DedupedIsLast ==
  ASSUME NEW sources \in Seq(Int)
  PROVE  \E f : KeptAfter(sources, f) /\ Heat!Deduped(sources) = f[Len(sources)]
<1> DEFINE F == [p \in Seq(Int) \X (1..Len(sources)) |->
                   IF /\ Heat!ReadTempMillideg(sources[p[2]])
                      /\ \A i \in DOMAIN p[1] : Heat!Apart(sources[p[2]], p[1][i])
                   THEN Append(p[1], sources[p[2]])
                   ELSE p[1]]
<1>1. \A s \in Seq(Int), i \in 1..Len(sources) : F[<<s, i>>] \in Seq(Int)
  OBVIOUS
<1>2. << >> \in Seq(Int) /\ Len(sources) \in Nat
  OBVIOUS
<1>3. PICK g \in [0..Len(sources) -> Seq(Int)] :
        g[0] = << >> /\ \A i \in 1..Len(sources) : g[i] = F[<<g[i - 1], i>>]
  <2> HIDE DEF F
  <2>1. \E g : Follows(g, Seq(Int), << >>, Len(sources), F)
    BY <1>1, <1>2, PrefixRecursion
  <2> QED
    BY <2>1 DEF Follows
<1>4. KeptAfter(sources, g)
  <2>1. ASSUME NEW n \in 1..Len(sources)
        PROVE g[n] = IF /\ Heat!ReadTempMillideg(sources[n])
                        /\ \A i \in DOMAIN g[n - 1] : Heat!Apart(sources[n], g[n - 1][i])
                     THEN Append(g[n - 1], sources[n])
                     ELSE g[n - 1]
    <3>1. <<g[n - 1], n>> \in Seq(Int) \X (1..Len(sources))
      BY <1>2, <1>3
    <3> QED
      BY <1>3, <3>1
  <2>2. \A n \in 0..Len(sources) : n = 0 \/ n \in 1..Len(sources)
    BY <1>2
  <2> QED
    BY <1>3, <2>1, <2>2 DEF KeptAfter
<1>5. KeptAfter(sources, CHOOSE f : KeptAfter(sources, f))
  BY <1>4
<1>6. Heat!Deduped(sources) = (CHOOSE f : KeptAfter(sources, f))[Len(sources)]
  BY DEF Heat!Deduped, KeptAfter
<1> QED
  BY <1>5, <1>6
\* After n files: what is given is apart, and no file is left out that is near none.
GoodSoFar(sources, kept, n) ==
  /\ kept \in Seq(Int)
  /\ \A i, j \in DOMAIN kept : i # j => Heat!Apart(kept[i], kept[j])
  /\ \A k \in 1..n : Heat!ReadTempMillideg(sources[k]) =>
       \E i \in DOMAIN kept : ~Heat!Apart(sources[k], kept[i])

(* One file more: it is near a value that was kept, or kept itself. *)
LEMMA KeepsOneMore ==
  ASSUME NEW sources \in Seq(Int), NEW n \in 1..Len(sources), NEW kept,
         GoodSoFar(sources, kept, n - 1)
  PROVE  GoodSoFar(sources,
                   IF /\ Heat!ReadTempMillideg(sources[n])
                      /\ \A i \in DOMAIN kept : Heat!Apart(sources[n], kept[i])
                   THEN Append(kept, sources[n])
                   ELSE kept, n)
<1>0. sources[n] \in Int /\ Len(sources) \in Nat /\ kept \in Seq(Int) /\ DOMAIN kept = 1..Len(kept)
      /\ Len(kept) \in Nat /\ \A i \in 1..Len(kept) : kept[i] \in Int
  BY DEF GoodSoFar
<1>1. CASE /\ Heat!ReadTempMillideg(sources[n])
           /\ \A i \in DOMAIN kept : Heat!Apart(sources[n], kept[i])
  <2>1. PICK u : u = Append(kept, sources[n])
    OBVIOUS
  <2>2. /\ u \in Seq(Int) /\ DOMAIN u = 1..Len(kept) + 1
        /\ \A i \in 1..Len(kept) : u[i] = kept[i]
        /\ u[Len(kept) + 1] = sources[n]
    BY <1>0, <2>1
  <2>3. ASSUME NEW i \in DOMAIN u, NEW j \in DOMAIN u, i # j
        PROVE Heat!Apart(u[i], u[j])
    <3>1. (i \in 1..Len(kept) \/ i = Len(kept) + 1) /\ (j \in 1..Len(kept) \/ j = Len(kept) + 1)
      BY <1>0, <2>2
    <3>2. CASE i \in 1..Len(kept) /\ j \in 1..Len(kept)
      BY <1>0, <2>2, <2>3, <3>2 DEF GoodSoFar
    <3>3. CASE i = Len(kept) + 1 /\ j \in 1..Len(kept)
      BY <1>0, <1>1, <2>2, <3>3
    <3>4. CASE j = Len(kept) + 1 /\ i \in 1..Len(kept)
      <4>1. Heat!Apart(sources[n], kept[i]) /\ u[i] = kept[i] /\ u[j] = sources[n]
        BY <1>0, <1>1, <2>2, <3>4
      <4> QED
        BY <1>0, <3>4, <4>1 DEF Heat!Apart
    <3> QED
      BY <2>3, <3>1, <3>2, <3>3, <3>4
  <2>4. ASSUME NEW k \in 1..n, Heat!ReadTempMillideg(sources[k])
        PROVE \E i \in DOMAIN u : ~Heat!Apart(sources[k], u[i])
    <3>1. CASE k = n
      <4>1. ~Heat!Apart(sources[n], sources[n])
        BY <1>0, TempsAssumption DEF Heat!Apart
      <4>2. Len(kept) + 1 \in DOMAIN u
        BY <1>0, <2>2
      <4> QED
        BY <2>2, <3>1, <4>1, <4>2
    <3>2. CASE k # n
      <4>1. k \in 1..n - 1
        BY <3>2
      <4>2. PICK i \in DOMAIN kept : ~Heat!Apart(sources[k], kept[i])
        BY <2>4, <4>1 DEF GoodSoFar
      <4>3. i \in DOMAIN u /\ u[i] = kept[i]
        BY <1>0, <2>2
      <4> QED
        BY <4>2, <4>3
    <3> QED
      BY <3>1, <3>2
  <2>5. GoodSoFar(sources, u, n)
    BY <2>2, <2>3, <2>4 DEF GoodSoFar
  <2> QED
    BY <1>1, <2>1, <2>5
<1>2. CASE ~(/\ Heat!ReadTempMillideg(sources[n])
             /\ \A i \in DOMAIN kept : Heat!Apart(sources[n], kept[i]))
  <2>1. ASSUME NEW k \in 1..n, Heat!ReadTempMillideg(sources[k])
        PROVE \E i \in DOMAIN kept : ~Heat!Apart(sources[k], kept[i])
    <3>1. CASE k = n
      BY <1>2, <2>1, <3>1
    <3>2. CASE k # n
      <4>1. k \in 1..n - 1
        BY <3>2
      <4> QED
        BY <2>1, <4>1 DEF GoodSoFar
    <3> QED
      BY <3>1, <3>2
  <2>2. GoodSoFar(sources, kept, n)
    BY <2>1 DEF GoodSoFar
  <2> QED
    BY <1>2, <2>2
<1> QED
  BY <1>1, <1>2

(* So of every list of files the values given are apart, and none of its   *)
(* values in range is near none of them.                                   *)
LEMMA DedupedIsGood ==
  ASSUME NEW sources \in Seq(Int)
  PROVE  GoodSoFar(sources, Heat!Deduped(sources), Len(sources))
<1>1. PICK f : KeptAfter(sources, f) /\ Heat!Deduped(sources) = f[Len(sources)]
  BY DedupedIsLast
<1> DEFINE Bad == {m \in 0..Len(sources) : ~GoodSoFar(sources, f[m], m)}
<1>2. Len(sources) \in Nat
  OBVIOUS
<1>3. ASSUME Bad # {} PROVE FALSE
  <2>1. PICK m \in Bad : \A y \in Bad : m <= y
    BY <1>2, <1>3, Least, Bad \subseteq Nat
  <2>2. m # 0
    <3>1. f[0] = << >>
      BY <1>1, <1>2 DEF KeptAfter
    <3>2. GoodSoFar(sources, << >>, 0)
      BY DEF GoodSoFar
    <3> QED
      BY <2>1, <3>1, <3>2
  <2>3. m \in 1..Len(sources) /\ GoodSoFar(sources, f[m - 1], m - 1)
    <3>1. m - 1 \in 0..Len(sources) /\ ~(m <= m - 1) /\ m \in 1..Len(sources)
      BY <1>2, <2>1, <2>2
    <3> QED
      BY <2>1, <3>1
  <2>4. f[m] = IF /\ Heat!ReadTempMillideg(sources[m])
                  /\ \A i \in DOMAIN f[m - 1] : Heat!Apart(sources[m], f[m - 1][i])
               THEN Append(f[m - 1], sources[m])
               ELSE f[m - 1]
    <3>1. m \in 0..Len(sources) /\ ~(m = 0)
      BY <1>2, <2>3
    <3>2. KeptAfter(sources, f)
      BY <1>1
    <3> HIDE DEF Bad
    <3> QED
      BY ONLY <3>1, <3>2 DEF KeptAfter
  <2> QED
    BY <2>1, <2>3, <2>4, KeepsOneMore
<1> QED
  BY <1>1, <1>2, <1>3

-----------------------------------------------------------------------------
(* Temps, Apple Silicon.  What makes the lock count: between LockSmc and   *)
(* ReadTemps the mutex is the loop's, from Close to CloseConnection the    *)
(* main thread's, and without a connection there are no keys to read.      *)
(* What is given is what is kept, but for a copy that meets the clear().   *)

TempsShape ==
  /\ wrapper = [initialized |-> wrapper.initialized, at |-> wrapper.at]
  /\ smc = [conn |-> smc.conn, ready |-> smc.ready, keys |-> smc.keys, kept |-> smc.kept,
            mutex |-> smc.mutex]
  /\ reading = [at |-> reading.at, smc |-> reading.smc, torn |-> reading.torn,
                todo |-> reading.todo, more |-> reading.more, got |-> reading.got,
                from |-> reading.from]

\* Who has the mutex, and what is read.
MutexInv ==
  tempsBuild = "silicon" =>
    /\ smc.keys # {} => smc.conn
    /\ reading.at = "read" => smc.mutex = "loop" /\ (reading.todo # {} => smc.conn)
    /\ wrapper.at \in {"unready", "forgot", "clearing", "cleared"} => smc.mutex = "main"
    /\ wrapper.at \in {"forgot", "clearing", "cleared"} => smc.keys = {}

\* What is kept and what is given.
KeptInv ==
  tempsBuild = "silicon" =>
    /\ smc.kept = Heat!NoReading \/ (smc.kept.valid >= Enough /\ smc.kept.temps # << >>)
    /\ /\ smc.kept # Heat!NoReading /\ wrapper.initialized
       /\ reading.at \in {"smc", "done"} /\ ~reading.torn
       => reading.smc = smc.kept
    /\ reading.at = "copy" /\ ~reading.torn => reading.smc = smc.kept
    /\ reading.at = "copy" /\ wrapper.at = "clearing" => reading.torn
    /\ reading.torn => wrapper.at \in {"clearing", "cleared", "closed", "down"}
    /\ wrapper.at = "new" => /\ ~wrapper.initialized /\ smc.kept = Heat!NoReading
                             /\ reading.at \in {"idle", "done"}

LinuxInv ==
  tempsBuild = "linux" =>
    /\ reading.at \in {"idle", "done"}
    /\ reading.at = "done" => GoodSoFar(reading.from, reading.got, Len(reading.from))
                              /\ reading.from \in Seq(Int)

TempsInv == TempsShape /\ MutexInv /\ KeptInv /\ LinuxInv

(* TemperatureWrapper starts within its invariant. *)
LEMMA TempsStarts ==
  ASSUME Heat!TempsInit
  PROVE  TempsInv
  BY DEF Heat!TempsInit, Heat!Idle, Heat!NoReading, TempsInv, TempsShape, MutexInv, KeptInv, LinuxInv

(* A reading of enough sensors has degrees for at least one group. *)
LEMMA GoodHasGroups ==
  ASSUME NEW v, Heat!Averages(v).valid >= Enough
  PROVE  Heat!Averages(v).temps # << >>
<1> DEFINE Valid == {k \in DOMAIN v : Heat!InRange(v[k])}
<1>1. Heat!Averages(v).valid = Heat!Cardinality(Valid)
  BY DEF Heat!Averages
<1>2. Heat!Cardinality(Valid) = Cardinality(Valid)
  BY DEF Heat!Cardinality, Cardinality
<1>3. Valid # {}
  <2>1. Cardinality({}) = 0
    BY FS_EmptySet
  <2> HIDE DEF Valid
  <2> QED
    BY <1>1, <1>2, <2>1, TempsAssumption
<1>4. DOMAIN Heat!Averages(v).temps = {GroupOf[k] : k \in Valid}
  BY DEF Heat!Averages
<1>5. DOMAIN << >> = {}
  OBVIOUS
<1> QED
  BY <1>3, <1>4, <1>5

(* as_smc_read_temps() keeps the invariant: what it gives is what it then  *)
(* keeps, unless it keeps nothing.                                         *)
LEMMA ReadTempsKeeps ==
  ASSUME TempsInv, NEW v, Heat!ReadTemps(v)
  PROVE  TempsInv'
<1>1. PICK r : r = Heat!Averages(v)
  OBVIOUS
<1>2. r.valid >= Enough => r.temps # << >>
  BY <1>1, GoodHasGroups
<1>3. PICK k : k = IF r.valid >= Enough THEN r ELSE smc.kept
  OBVIOUS
<1>4. /\ tempsBuild = "silicon" /\ reading.at = "read"
      /\ smc' = [smc EXCEPT !.mutex = "free", !.kept = k]
      /\ reading' = [reading EXCEPT !.at = "smc", !.todo = {},
                                    !.smc = IF smc'.kept.temps # << >> THEN smc'.kept ELSE r]
      /\ UNCHANGED <<tempsBuild, wrapper>>
  BY <1>1, <1>3 DEF Heat!ReadTemps, Heat!Kept
<1>10. smc' = [conn |-> smc.conn, ready |-> smc.ready, keys |-> smc.keys, kept |-> k,
               mutex |-> "free"]
  BY <1>4 DEF TempsInv, TempsShape
<1>5. reading' = [at |-> "smc", smc |-> IF k.temps # << >> THEN k ELSE r,
                  torn |-> reading.torn, todo |-> {}, more |-> reading.more,
                  got |-> reading.got, from |-> reading.from]
  BY <1>4, <1>10 DEF TempsInv, TempsShape
<1>6. TempsShape'
  BY <1>4, <1>5, <1>10 DEF TempsInv, TempsShape
<1>7. k = Heat!NoReading \/ (k.valid >= Enough /\ k.temps # << >>)
  BY <1>2, <1>3, <1>4 DEF TempsInv, KeptInv
<1>11. wrapper.at \notin {"unready", "forgot", "clearing", "cleared", "new"}
  BY <1>4 DEF TempsInv, MutexInv, KeptInv
<1>12. MutexInv'
  BY <1>4, <1>5, <1>10, <1>11 DEF TempsInv, MutexInv
<1>8. KeptInv'
  BY <1>4, <1>5, <1>7, <1>10, <1>11 DEF TempsInv, KeptInv
<1>9. LinuxInv'
  BY <1>4 DEF LinuxInv
<1> QED
  BY <1>6, <1>8, <1>9, <1>12 DEF TempsInv

(* A list of the files of sysfs is read as DedupedIsGood says. *)
LEMMA ReadLinuxKeeps ==
  ASSUME TempsInv, NEW sources \in Heat!FileLists, Heat!ReadLinux(sources)
  PROVE  TempsInv'
<1>1. sources \in Seq(Int)
  <2>1. PICK n \in 0..MaxFiles : sources \in [1..n -> Degrees]
    BY DEF Heat!FileLists
  <2>2. n \in Nat
    BY <2>1
  <2>3. Degrees \subseteq Int
    BY TempsAssumption
  <2>4. sources \in [1..n -> Int]
    BY <2>1, <2>3
  <2> QED
    BY <2>2, <2>4, SeqDef
<1>2. PICK d : d = Heat!Deduped(sources)
  OBVIOUS
<1>3. GoodSoFar(sources, d, Len(sources))
  BY <1>1, <1>2, DedupedIsGood
<1>4. /\ tempsBuild = "linux" /\ UNCHANGED <<tempsBuild, wrapper, smc>>
      /\ reading' = [at |-> "done", smc |-> Heat!NoReading, torn |-> FALSE, todo |-> {},
                     more |-> {}, got |-> d, from |-> sources]
  BY <1>2 DEF Heat!ReadLinux, Heat!Idle
<1>5. TempsShape' /\ MutexInv' /\ KeptInv'
  BY <1>4 DEF TempsInv, TempsShape, MutexInv, KeptInv
<1>6. LinuxInv'
  BY <1>1, <1>3, <1>4 DEF LinuxInv
<1> QED
  BY <1>5, <1>6 DEF TempsInv

(* Every step of TemperatureWrapper keeps its invariant. *)
LEMMA TempsStep ==
  ASSUME TempsInv, Heat!TempsNext
  PROVE  TempsInv'
<1>1. CASE \E opens, answers, tool \in BOOLEAN, there \in SUBSET SmcKeys :
             Heat!InitializeMac(opens, answers, there, tool)
  <2>1. PICK opens, answers, tool \in BOOLEAN, there \in SUBSET SmcKeys :
          Heat!InitializeMac(opens, answers, there, tool)
    BY <1>1
  <2>2. /\ tempsBuild # "linux" /\ wrapper.at = "new" /\ wrapper'.at = "up"
        /\ UNCHANGED <<tempsBuild, reading>>
        /\ wrapper' = [initialized |-> wrapper'.initialized, at |-> wrapper'.at]
    BY <2>1 DEF Heat!InitializeMac, Heat!Mac
  <2>3. /\ smc' = [smc EXCEPT !.conn = smc'.conn, !.ready = smc'.ready, !.keys = smc'.keys]
        /\ tempsBuild = "silicon" /\ smc'.keys # {} => smc'.conn
    BY <2>1 DEF Heat!InitializeMac, Heat!Opened, TempsInv, TempsShape
  <2>4. TempsShape' /\ smc'.kept = smc.kept /\ smc'.mutex = smc.mutex
    BY <2>2, <2>3 DEF TempsInv, TempsShape
  <2> QED
    BY <2>2, <2>3, <2>4 DEF TempsInv, MutexInv, KeptInv, LinuxInv
<1>2. CASE Heat!InitializeOther \/ Heat!CleanupBegins \/ Heat!CleanupEnds
  BY <1>2 DEF Heat!InitializeOther, Heat!CleanupBegins, Heat!CleanupEnds, Heat!Mac,
              TempsInv, TempsShape, MutexInv, KeptInv, LinuxInv
<1>3. CASE Heat!Close
  <2>1. /\ wrapper.at = "join" /\ UNCHANGED <<tempsBuild, reading>>
        /\ tempsBuild = "silicon" /\ smc.conn => smc.mutex = "free"
        /\ IF tempsBuild = "silicon" /\ smc.conn
           THEN /\ smc' = [smc EXCEPT !.ready = FALSE, !.mutex = "main"]
                /\ wrapper' = [wrapper EXCEPT !.at = "unready"]
           ELSE /\ smc' = [smc EXCEPT !.conn = FALSE]
                /\ wrapper' = [wrapper EXCEPT !.at = "closed"]
    BY <1>3 DEF Heat!Close, Heat!CloseUnlocked
  <2>2. CASE tempsBuild = "silicon" /\ smc.conn
    BY <2>1, <2>2 DEF TempsInv, TempsShape, MutexInv, KeptInv, LinuxInv
  <2>3. CASE ~(tempsBuild = "silicon" /\ smc.conn)
    BY <2>1, <2>3 DEF TempsInv, TempsShape, MutexInv, KeptInv, LinuxInv
  <2> QED
    BY <2>2, <2>3
<1>12. CASE Heat!ForgetKeys
  BY <1>12 DEF Heat!ForgetKeys, TempsInv, TempsShape, MutexInv, KeptInv, LinuxInv
<1>13. CASE Heat!ClearBegins
  BY <1>13 DEF Heat!ClearBegins, TempsInv, TempsShape, MutexInv, KeptInv, LinuxInv
<1>14. CASE Heat!ClearEnds
  BY <1>14 DEF Heat!ClearEnds, Heat!NoReading, TempsInv, TempsShape, MutexInv, KeptInv, LinuxInv
<1>15. CASE Heat!CloseConnection
  BY <1>15 DEF Heat!CloseConnection, TempsInv, TempsShape, MutexInv, KeptInv, LinuxInv
<1>16. CASE \E r \in {reading.smc, Heat!NoReading, Heat!Torn} : Heat!Copied(r)
  BY <1>16 DEF Heat!Copied, TempsInv, TempsShape, MutexInv, KeptInv, LinuxInv
<1>4. CASE Heat!ReadMac
  BY <1>4 DEF Heat!ReadMac, Heat!Mac, Heat!Idle, TempsInv, TempsShape, MutexInv, KeptInv, LinuxInv
<1>5. CASE Heat!LockSmc
  BY <1>5 DEF Heat!LockSmc, TempsInv, TempsShape, MutexInv, KeptInv, LinuxInv
<1>6. CASE \E v \in [reading.todo -> Degrees] : Heat!ReadTemps(v)
  BY <1>6, ReadTempsKeeps
<1>7. CASE \E k \in SmcKeys, v \in Degrees : Heat!ReadKey(k, v)
  BY <1>7 DEF Heat!ReadKey, TempsInv, TempsShape, MutexInv, KeptInv, LinuxInv
<1>8. CASE \E arm \in 0..2, hid \in BOOLEAN, battery \in Degrees : Heat!Supplement(arm, hid, battery)
  BY <1>8 DEF Heat!Supplement, TempsInv, TempsShape, MutexInv, KeptInv, LinuxInv
<1>9. CASE \E failing \in SUBSET Heat!Range(Heat!WindowsReaders) : Heat!ReadWindows(failing)
  BY <1>9 DEF Heat!ReadWindows, Heat!Idle, TempsInv, TempsShape, MutexInv, KeptInv, LinuxInv
<1>10. CASE \E sources \in Heat!FileLists : Heat!ReadLinux(sources)
  BY <1>10, ReadLinuxKeeps
<1>11. CASE \/ Heat!PmLoop \/ (\E opens \in BOOLEAN : Heat!PmStart(opens)) \/ Heat!PmEnd
            \/ Heat!AlarmFires
            \/ \E label \in {"CPU Power", "CPU Die"} : Heat!PmLine(label)
  <2>1. UNCHANGED <<tempsBuild, wrapper, smc, reading>>
    BY <1>11 DEF Heat!PmLoop, Heat!PmStart, Heat!PmEnd, Heat!AlarmFires, Heat!PmLine
  <2> QED
    BY <2>1 DEF TempsInv, TempsShape, MutexInv, KeptInv, LinuxInv
<1> QED
  BY <1>1, <1>2, <1>3, <1>4, <1>5, <1>6, <1>7, <1>8, <1>9, <1>10, <1>11, <1>12, <1>13, <1>14,
     <1>15, <1>16
  DEF Heat!TempsNext

(* What is promised follows. *)
LEMMA TempsInvIsSound ==
  ASSUME TempsInv
  PROVE  TempsSound
<1>1. CASE tempsBuild = "silicon"
  <2>1. reading.torn => wrapper.at \notin {"new", "up", "join"}
    BY <1>1 DEF TempsInv, KeptInv
  <2>2. reading.at = "read" /\ reading.todo # {} => smc.conn
    BY <1>1, Zenon DEF TempsInv, MutexInv
  <2>3. smc.kept # Heat!NoReading => smc.kept.valid >= Enough
    BY <1>1 DEF TempsInv, KeptInv
  <2>4. /\ smc.kept # Heat!NoReading /\ wrapper.initialized
        /\ reading.at \in {"smc", "done"} /\ ~reading.torn
        => reading.smc = smc.kept
    BY <1>1, Zenon DEF TempsInv, KeptInv
  <2>5. tempsBuild # "linux"
    BY <1>1
  <2> QED
    BY <2>1, <2>2, <2>3, <2>4, <2>5, Zenon DEF TempsSound, Heat!TempsSound
<1>2. CASE tempsBuild # "silicon"
  <2>1. CASE tempsBuild = "linux" /\ reading.at = "done"
    <3>1. GoodSoFar(reading.from, reading.got, Len(reading.from)) /\ reading.from \in Seq(Int)
      BY <2>1 DEF TempsInv, LinuxInv
    <3>2. DOMAIN reading.from = 1..Len(reading.from)
      BY <3>1
    <3> QED
      BY <1>2, <3>1, <3>2, Zenon DEF GoodSoFar, TempsSound, Heat!TempsSound
  <2>2. CASE ~(tempsBuild = "linux" /\ reading.at = "done")
    BY <1>2, <2>2, Zenon DEF TempsSound, Heat!TempsSound
  <2> QED
    BY <2>1, <2>2
<1> QED
  BY <1>1, <1>2

(* On Apple Silicon no read of the SMC over a connection that Cleanup()    *)
(* closed and no poor reading in place of one that was kept; on Linux no   *)
(* value twice, none lost: for every set of keys and files, every value of *)
(* the thresholds (GetTemperatures(), as_smc_read_temps(), Cleanup()).     *)
THEOREM TemperaturesSound == ReadingsSpec => []TempsSound
<1>1. ReadingsInit => TempsInv
  BY TempsStarts DEF ReadingsInit
<1>2. TempsInv /\ [ReadingsNext]_allVars => TempsInv'
  <2> SUFFICES ASSUME TempsInv, [ReadingsNext]_allVars PROVE TempsInv'
    OBVIOUS
  <2>1. CASE TempsSteps
    BY <2>1, TempsStep DEF TempsSteps
  <2>2. CASE ~TempsSteps
    <3>1. UNCHANGED tempsVars
      BY <2>2 DEF ReadingsNext, allVars, LockSteps, McpSteps, ShotSteps, SchemaSteps, BlockSteps,
                  SampleSteps, ScreenSteps
    <3> QED
      BY <3>1 DEF tempsVars, TempsInv, TempsShape, MutexInv, KeptInv, LinuxInv
  <2> QED
    BY <2>1, <2>2
<1> QED
  BY <1>1, <1>2, TempsInvIsSound, PTL DEF ReadingsSpec

-----------------------------------------------------------------------------
(* Screen.  The rows of the columns are numbers, whatever the data; what   *)
(* is clipped of them lies above the connections, and LogPanel() shares    *)
(* out the rows between.                                                   *)

Drawable == [disks : Nat, phys : Nat, adapters : Nat, displays : Nat, processes : Nat,
             motion : BOOLEAN, temps : Nat, battery : BOOLEAN, more : BOOLEAN, name : Seq(0..2)]

ScreenInv == tuiData \in Drawable /\ termRows \in Nat /\ LogFitsBetween

\* The height of panel k, from row y on.
PanelHeight(side, k, y, d) ==
  IF side = "left" THEN Display!LeftPanel(d, k, y) ELSE Display!RightPanel(d, k, y)

(* Each panel takes a number of rows. *)
LEMMA PanelIsInt ==
  ASSUME NEW d \in Drawable, NEW y \in Int, termRows \in Nat,
         NEW side \in {"left", "right"}, NEW k \in 1..(IF side = "left" THEN 5 ELSE 9)
  PROVE  PanelHeight(side, k, y, d) \in Int
<1>1. /\ d.disks \in Nat /\ d.phys \in Nat /\ d.adapters \in Nat /\ d.displays \in Nat
      /\ d.processes \in Nat /\ d.temps \in Nat
  BY DEF Drawable
<1>2. CASE side = "left"
  <2>1. k \in 1..5
    BY <1>2
  <2> QED
    BY <1>1, <1>2, <2>1
    DEF PanelHeight, Display!LeftPanel, Display!CpuPanel, Display!GpuPanel, Display!MemoryPanel,
        Display!ProcessPanel, Display!Opt
<1>3. CASE side = "right"
  <2>1. k \in 1..9
    BY <1>3
  <2>2. /\ Display!DiskPanel(d) \in Int /\ Display!PhysicalDiskPanel(d, y) \in Int
        /\ Display!WifiBluetoothPanel(d) \in Int
        /\ Display!DisplayPanel(d) \in Int /\ Display!AccelPanel(d) \in Int
        /\ Display!TpmPanel(d) \in Int /\ Display!PowerPanel(d) \in Int
    BY <1>1 DEF Display!DiskPanel, Display!PhysicalDiskPanel, Display!WifiBluetoothPanel,
                Display!DisplayPanel, Display!AccelPanel, Display!TpmPanel, Display!PowerPanel,
                Display!Opt, Display!MinOf, Display!MaxOf
  <2>3. Display!NetworkPanel(d) \in Int
    BY <1>1 DEF Display!NetworkPanel, Display!Opt
  <2>4. Display!TempPanel(d) \in Int
    BY <1>1 DEF Display!TempPanel
  <2> QED
    BY <1>3, <2>1, <2>2, <2>3, <2>4 DEF PanelHeight, Display!RightPanel
<1> QED
  BY <1>2, <1>3

(* So does a column. *)
LEMMA ColumnIsInt ==
  ASSUME NEW d \in Drawable, termRows \in Nat,
         NEW side \in {"left", "right"}, NEW n \in 1..(IF side = "left" THEN 5 ELSE 9)
  PROVE  Display!Column(side, n, d) \in Int
<1> DEFINE Is(Y) == Y = [k \in 0..n |->
                           IF k = 0 THEN 2
                           ELSE IF Y[k - 1] < Display!MaxY
                                THEN Y[k - 1] + PanelHeight(side, k, Y[k - 1], d)
                                ELSE Y[k - 1]]
           F == [p \in Int \X (1..n) |-> IF p[1] < Display!MaxY
                                         THEN p[1] + PanelHeight(side, p[2], p[1], d)
                                         ELSE p[1]]
           Y == CHOOSE Y : Is(Y)
<1>1. n \in Nat
  OBVIOUS
<1>2. ASSUME NEW y \in Int, NEW k \in 1..n
      PROVE (IF y < Display!MaxY THEN y + PanelHeight(side, k, y, d) ELSE y) \in Int
  <2>1. k \in 1..(IF side = "left" THEN 5 ELSE 9)
    OBVIOUS
  <2>2. PanelHeight(side, k, y, d) \in Int
    BY <2>1, PanelIsInt
  <2> QED
    BY <2>2
<1>3. ASSUME NEW y \in Int, NEW k \in 1..n
      PROVE F[<<y, k>>] = IF y < Display!MaxY THEN y + PanelHeight(side, k, y, d) ELSE y
  <2>1. <<y, k>> \in Int \X (1..n)
    OBVIOUS
  <2>2. F[<<y, k>>] = IF <<y, k>>[1] < Display!MaxY
                      THEN <<y, k>>[1] + PanelHeight(side, <<y, k>>[2], <<y, k>>[1], d)
                      ELSE <<y, k>>[1]
    BY <2>1
  <2> QED
    BY <2>2
<1> HIDE DEF F
<1>4. PICK g : Follows(g, Int, 2, n, F)
  <2>1. \A y \in Int, k \in 1..n : F[<<y, k>>] \in Int
    BY <1>2, <1>3
  <2>2. 2 \in Int
    OBVIOUS
  <2> QED
    BY <1>1, <2>1, <2>2, PrefixRecursion
<1>5. Is(g)
  <2>1. ASSUME NEW k \in 1..n
        PROVE g[k] = IF g[k - 1] < Display!MaxY
                     THEN g[k - 1] + PanelHeight(side, k, g[k - 1], d)
                     ELSE g[k - 1]
    <3>1. k - 1 \in 0..n /\ g[k - 1] \in Int /\ g[k] = F[<<g[k - 1], k>>]
      BY <1>1, <1>4 DEF Follows
    <3> QED
      BY <1>3, <3>1
  <2>2. \A k \in 0..n : k = 0 \/ k \in 1..n
    BY <1>1
  <2> QED
    BY <1>4, <2>1, <2>2 DEF Follows
<1>6. Is(Y)
  BY <1>5
<1>7. Display!Column(side, n, d) = Y[n]
  BY DEF Display!Column, PanelHeight
<1>8. PICK f : Is(f) /\ Display!Column(side, n, d) = f[n]
  BY <1>6, <1>7
<1> DEFINE P == {k \in 0..n : f[k] \in Int}
<1>9. 0 \in P
  BY <1>1, <1>8
<1>10. ASSUME NEW k \in 1..n, k - 1 \in P PROVE k \in P
  <2>1. k \in 0..n /\ k # 0 /\ f[k - 1] \in Int
    BY <1>1, <1>10
  <2>2. f[k] = IF f[k - 1] < Display!MaxY
               THEN f[k - 1] + PanelHeight(side, k, f[k - 1], d)
               ELSE f[k - 1]
    BY <1>8, <2>1
  <2> QED
    BY <1>2, <2>1, <2>2
<1>11. n \in P
  <2> HIDE DEF P
  <2> QED
    BY <1>1, <1>9, <1>10, PrefixInduction
<1> QED
  BY <1>8, <1>11

\* The width of the first characters of a name, as utf8_display_width() sums it up.
WidthsOf(s, W) == W = [i \in 0..Len(s) |-> IF i = 0 THEN 0 ELSE W[i - 1] + s[i]]

(* A character more is at most two columns more. *)
LEMMA WidthsGrow ==
  ASSUME NEW s \in Seq(0..2)
  PROVE  /\ Display!Widths(s)[0] = 0
         /\ \A i \in 0..Len(s) : Display!Widths(s)[i] \in Nat
         /\ \A i \in 1..Len(s) : Display!Widths(s)[i] <= Display!Widths(s)[i - 1] + 2
<1> DEFINE F == [p \in Nat \X (1..Len(s)) |-> p[1] + s[p[2]]]
           P(W) == {i \in 0..Len(s) : W[i] \in Nat}
<1>1. Len(s) \in Nat /\ \A i \in 1..Len(s) : s[i] \in 0..2
  OBVIOUS
<1>2. ASSUME NEW w \in Nat, NEW i \in 1..Len(s)
      PROVE F[<<w, i>>] = w + s[i] /\ F[<<w, i>>] \in Nat
  <2>1. <<w, i>> \in Nat \X (1..Len(s))
    OBVIOUS
  <2>2. F[<<w, i>>] = w + s[i]
    BY <2>1
  <2> QED
    BY <1>1, <2>2
<1>3. \A w \in Nat, i \in 1..Len(s) : F[<<w, i>>] \in Nat
  BY <1>2
<1> HIDE DEF F
<1>4. PICK g : Follows(g, Nat, 0, Len(s), F)
  BY <1>1, <1>3, PrefixRecursion, 0 \in Nat
<1>5. WidthsOf(s, g)
  <2>1. ASSUME NEW i \in 1..Len(s) PROVE g[i] = g[i - 1] + s[i]
    <3>0. i - 1 \in 0..Len(s)
      BY <1>1
    <3>1. g[i - 1] \in Nat /\ g[i] = F[<<g[i - 1], i>>]
      BY <1>4, <3>0 DEF Follows
    <3> QED
      BY <1>2, <3>1
  <2>2. \A i \in 0..Len(s) : i = 0 \/ i \in 1..Len(s)
    BY <1>1
  <2> QED
    BY <1>4, <2>1, <2>2 DEF Follows, WidthsOf
<1>6. PICK W : WidthsOf(s, W) /\ Display!Widths(s) = W
  <2>1. Display!Widths(s) = CHOOSE W : WidthsOf(s, W)
    BY DEF Display!Widths, WidthsOf
  <2> QED
    BY <1>5, <2>1
<1>7. ASSUME NEW i \in 1..Len(s) PROVE W[i] = W[i - 1] + s[i] /\ i \in 0..Len(s)
  <2>1. i \in 0..Len(s) /\ i # 0
    BY <1>1
  <2> QED
    BY <1>6, <2>1 DEF WidthsOf
<1>8. W[0] = 0 /\ 0 \in 0..Len(s)
  BY <1>1, <1>6 DEF WidthsOf
<1>9. \A i \in 0..Len(s) : i \in P(W)
  <2>1. 0 \in P(W)
    BY <1>8
  <2>2. ASSUME NEW i \in 1..Len(s), i - 1 \in P(W) PROVE i \in P(W)
    <3>1. W[i - 1] \in Nat
      BY <2>2
    <3> QED
      BY <1>1, <1>7, <3>1
  <2> HIDE DEF P
  <2> QED
    BY <1>1, <2>1, <2>2, PrefixInduction
<1>10. ASSUME NEW i \in 1..Len(s) PROVE W[i] <= W[i - 1] + 2
  <2>1. i - 1 \in 0..Len(s)
    BY <1>1
  <2>2. W[i - 1] \in Nat /\ s[i] \in 0..2
    BY <1>1, <1>9, <2>1
  <2> QED
    BY <1>7, <2>2
<1> QED
  BY <1>6, <1>8, <1>9, <1>10

(* So a name that is cut fills its columns but for at most one.            *)
LEMMA CutNameFills ==
  ASSUME NEW s \in Seq(0..2), NEW w \in Nat \ {0}
  PROVE  Display!CutName(s, w) \in {w - 1, w}
<1>1. PICK W : W = Display!Widths(s)
  OBVIOUS
<1>2. /\ Len(s) \in Nat /\ W[0] = 0 /\ \A i \in 0..Len(s) : W[i] \in Nat
      /\ \A i \in 1..Len(s) : W[i] <= W[i - 1] + 2
  BY <1>1, WidthsGrow
<1>3. CASE W[Len(s)] <= w
  BY <1>1, <1>3 DEF Display!CutName
<1>4. CASE ~(W[Len(s)] <= w)
  <2> DEFINE fits == {i \in 0..Len(s) : W[i] <= w - 1}
             last == CHOOSE i \in fits : \A j \in fits : j <= i
             Left == {m \in 0..Len(s) : Len(s) - m \in fits}
  <2>1. Len(s) \in Left /\ Left \subseteq Nat
    BY <1>2
  <2>2. PICK m \in Left : \A y \in Left : m <= y
    BY <2>1, Least
  <2>3. Len(s) - m \in fits /\ \A j \in fits : j <= Len(s) - m
    <3>1. Len(s) - m \in fits /\ m \in 0..Len(s)
      BY <2>2
    <3>2. ASSUME NEW j \in fits PROVE j <= Len(s) - m
      <4>1. j \in 0..Len(s) /\ Len(s) - j \in 0..Len(s) /\ Len(s) - (Len(s) - j) = j
        BY <1>2
      <4>2. Len(s) - j \in Left
        BY <3>2, <4>1
      <4>3. m <= Len(s) - j
        BY <2>2, <4>2
      <4> HIDE DEF fits
      <4> QED
        BY <1>2, <3>1, <4>1, <4>3
    <3> QED
      BY <3>1, <3>2
  <2>4. last \in fits /\ \A j \in fits : j <= last
    BY <2>3
  <2>5. PICK l : l = last /\ l \in 0..Len(s) /\ W[l] <= w - 1 /\ W[l] \in Nat
    BY <1>2, <2>4
  <2>6. l # Len(s) /\ l + 1 \in 1..Len(s) /\ l + 1 \in 0..Len(s) /\ (l + 1) - 1 = l
    <3>1. W[Len(s)] \in Nat
      BY <1>2
    <3>2. l # Len(s)
      <4> HIDE DEF fits, last
      <4> QED
        BY <1>4, <2>5, <3>1
    <3>3. Len(s) \in Nat /\ l \in 0..Len(s)
      BY <1>2, <2>5
    <3> QED
      BY ONLY <3>2, <3>3
  <2>7. ASSUME W[l + 1] <= w - 1 PROVE FALSE
    <3>1. l + 1 \in fits
      BY <2>6, <2>7
    <3> HIDE DEF fits, last
    <3>2. l + 1 <= l
      BY ONLY <2>4, <2>5, <3>1
    <3> QED
      BY ONLY <2>5, <3>2
  <2>8. W[l + 1] <= W[l] + 2 /\ W[l + 1] \in Nat
    <3> HIDE DEF fits, last
    <3>1. \A i \in 1..Len(s) : W[i] <= W[i - 1] + 2
      BY <1>2
    <3>2. W[l + 1] <= W[(l + 1) - 1] + 2
      BY ONLY <2>6, <3>1
    <3> QED
      BY ONLY <1>2, <2>6, <3>2
  <2>9. Display!CutName(s, w) = W[l] + 1
    <3>1. Display!CutName(s, w) = W[last] + 1
      BY <1>1, <1>4 DEF Display!CutName
    <3> HIDE DEF last
    <3> QED
      BY <2>5, <3>1
  <2> HIDE DEF fits, last
  <2>10. PICK u, v : u = W[l] /\ v = W[l + 1]
    OBVIOUS
  <2>11. u \in Nat /\ v \in Nat /\ u <= w - 1 /\ v > w - 1 /\ v <= u + 2
    BY <2>5, <2>7, <2>8, <2>10
  <2>12. Display!CutName(s, w) = u + 1
    BY ONLY <2>9, <2>10
  <2>13. u = w - 1 \/ u = w - 2
    BY ONLY <2>11, w \in Nat
  <2> QED
    BY ONLY <2>11, <2>12, <2>13, w \in Nat
<1> QED
  BY <1>3, <1>4

(* A frame that is drawn has room for its log. *)
LEMMA DrawFits ==
  ASSUME ScreenInv, NEW flip \in BOOLEAN, Display!Draw(flip)
  PROVE  ScreenInv'
<1>1. CASE termRows < 24
  BY <1>1 DEF Display!Draw, Display!NoFrame, ScreenInv, LogFitsBetween, Display!LogFitsBetween
<1>2. CASE ~(termRows < 24)
  <2>1. PICK ly, ry : ly = Display!Column("left", 5, tuiData) /\ ry = Display!Column("right", 9, tuiData)
    OBVIOUS
  <2>2. ly \in Int /\ ry \in Int /\ termRows \in Nat
    BY <2>1, ColumnIsInt DEF ScreenInv
  <2>3. PICK y : y = Display!MaxOf(Display!MinOf(ly, Display!MaxY), Display!MinOf(ry, Display!MaxY))
    OBVIOUS
  <2>4. y \in Int
    BY <2>2, <2>3 DEF Display!MaxOf, Display!MinOf, Display!MaxY
  <2>5. PICK end : end = Display!ContentEnd(y)
    OBVIOUS
  <2>6. end \in Int /\ end < termRows - 5
    BY <2>2, <2>4, <2>5 DEF Display!ContentEnd, Display!ConnTop, Display!SysTop
  <2>7. PICK c, n : /\ n = Display!CutName(tuiData.name, NameW)
                    /\ frame' = [drawn |-> TRUE, content |-> c, end |-> end,
                                 bottom |-> Display!LogPanel(end), name |-> n]
    BY <1>2, <2>1, <2>3, <2>5 DEF Display!Draw
  <2>8. n \in {NameW - 1, NameW}
    BY <2>7, CutNameFills, ScreenAssumption DEF ScreenInv, Drawable
  <2>9. UNCHANGED <<termRows, tuiData>>
    BY DEF Display!Draw
  <2>10. PICK b : b = Display!LogPanel(end)
    OBVIOUS
  <2>a. /\ b.conn <=> termRows - 5 > end + 1
        /\ b.logTop = end + 1
        /\ b.conn => b.logEnd = termRows - 6
        /\ ~b.conn => b.logEnd = termRows - 3
    <3>1. Display!ConnTop = termRows - 5 /\ Display!ConnTop - 1 = termRows - 6
          /\ Display!SysTop = termRows - 3
      BY <2>2 DEF Display!ConnTop, Display!SysTop
    <3>2. b.conn <=> Display!ConnTop > end + 1
      BY <2>10 DEF Display!LogPanel
    <3>3. b.logTop = end + 1
      BY <2>10 DEF Display!LogPanel
    <3>4. b.logEnd = IF Display!ConnTop > end + 1 THEN Display!ConnTop - 1 ELSE Display!SysTop
      BY <2>10 DEF Display!LogPanel
    <3> QED
      BY <3>1, <3>2, <3>3, <3>4
  <2>b. b.log <=> b.logEnd - end - 2 > 1
    BY <2>10 DEF Display!LogPanel
  <2>c. b.lines = Display!MaxOf(0, b.logEnd - end - 2)
    BY <2>10 DEF Display!LogPanel
  <2>11. /\ b.conn => end < termRows - 6
         /\ b.log => /\ b.lines > 0 /\ end < b.logTop
                     /\ b.logTop + b.lines < (IF b.conn THEN termRows - 5 ELSE termRows - 3) - 1
    BY <2>2, <2>6, <2>a, <2>b, <2>c DEF Display!MaxOf
  <2>12. LogFitsBetween'
    BY <2>2, <2>6, <2>7, <2>8, <2>9, <2>10, <2>11
    DEF LogFitsBetween, Display!LogFitsBetween, Display!ConnTop, Display!SysTop
  <2> QED
    BY <2>9, <2>12 DEF ScreenInv
<1> QED
  BY <1>1, <1>2

(* Every step of the screen keeps its invariant. *)
LEMMA ScreenStep ==
  ASSUME ScreenInv, Display!ScreenNext
  PROVE  ScreenInv'
<1>1. CASE \E flip \in BOOLEAN : Display!Draw(flip)
  BY <1>1, DrawFits
<1>2. ASSUME NEW item, NEW value, Display!UpdateScreen(item, value),
             [tuiData EXCEPT ![item] = value] \in Drawable
      PROVE ScreenInv'
  BY <1>2 DEF Display!UpdateScreen, Display!NoFrame, ScreenInv, LogFitsBetween,
              Display!LogFitsBetween
<1>3. CASE \E i \in {"disks", "phys", "adapters", "displays", "processes"}, n \in Lengths :
             Display!UpdateScreen(i, n)
  BY <1>2, <1>3, ScreenAssumption DEF ScreenInv, Drawable
<1>4. CASE \E i \in {"motion", "battery", "more"}, b \in BOOLEAN : Display!UpdateScreen(i, b)
  BY <1>2, <1>4 DEF ScreenInv, Drawable
<1>5. CASE \E n \in Sensors : Display!UpdateScreen("temps", n)
  BY <1>2, <1>5, ScreenAssumption DEF ScreenInv, Drawable
<1>6. CASE \E s \in Names : Display!UpdateScreen("name", s)
  BY <1>2, <1>6, ScreenAssumption DEF ScreenInv, Drawable
<1>7. CASE \E rows \in Rows : Display!Resize(rows)
  BY <1>7, ScreenAssumption DEF Display!Resize, Display!NoFrame, ScreenInv, LogFitsBetween,
                                Display!LogFitsBetween
<1> QED
  BY <1>1, <1>3, <1>4, <1>5, <1>6, <1>7 DEF Display!ScreenNext

(* However high the terminal is and whatever there is to show, the panels  *)
(* at the bottom get rows of their own and the newest line of the log is   *)
(* seen; a name of a process is cut within its column (TuiApp::Run(),      *)
(* utf8_truncate()).                                                       *)
THEOREM LogFits == ReadingsSpec => []LogFitsBetween
<1>1. ReadingsInit => ScreenInv
  BY ScreenAssumption DEF ReadingsInit, Display!ScreenInit, Display!TuiData, Display!NoFrame,
     ScreenInv, Drawable, LogFitsBetween, Display!LogFitsBetween
<1>2. ScreenInv /\ [ReadingsNext]_allVars => ScreenInv'
  <2> SUFFICES ASSUME ScreenInv, [ReadingsNext]_allVars PROVE ScreenInv'
    OBVIOUS
  <2>1. CASE ScreenSteps
    BY <2>1, ScreenStep DEF ScreenSteps
  <2>2. CASE ~ScreenSteps
    <3>1. UNCHANGED screenVars
      BY <2>2 DEF ReadingsNext, allVars, LockSteps, McpSteps, ShotSteps, SchemaSteps, BlockSteps,
                  SampleSteps, TempsSteps
    <3> QED
      BY <3>1 DEF screenVars, ScreenInv, Drawable, LogFitsBetween, Display!LogFitsBetween,
                  Display!ConnTop, Display!SysTop
  <2> QED
    BY <2>1, <2>2
<1>3. ScreenInv => LogFitsBetween
  BY DEF ScreenInv
<1> QED
  BY <1>1, <1>2, <1>3, PTL DEF ReadingsSpec

-----------------------------------------------------------------------------
(* Selection.                                                              *)

Injective(s) == \A i, j \in DOMAIN s : s[i] = s[j] => i = j

\* What is selected of the first n elements: some of them, each as often as before.
SelectedSoFar(s, T, sel, n) ==
  /\ sel \in Seq(T)
  /\ \A j \in DOMAIN sel : \E i \in 1..n : sel[j] = s[i]
  /\ Injective(s) => Injective(sel)

\* What Selected() has after each element.
SelectedAfter(s, T, f) ==
  f = [n \in 0..Len(s) |-> IF n = 0 THEN << >>
                           ELSE IF s[n] \in T THEN Append(f[n - 1], s[n]) ELSE f[n - 1]]

(* Selected() gives the last of them. *)
LEMMA SelectedIsLast ==
  ASSUME NEW S, NEW s \in Seq(S), NEW T
  PROVE  \E f : SelectedAfter(s, T, f) /\ Selected(s, T) = f[Len(s)]
<1> DEFINE F == [p \in Seq(T) \X (1..Len(s)) |->
                   IF s[p[2]] \in T THEN Append(p[1], s[p[2]]) ELSE p[1]]
<1>1. << >> \in Seq(T) /\ Len(s) \in Nat
  OBVIOUS
<1>2. ASSUME NEW u \in Seq(T), NEW i \in 1..Len(s)
      PROVE /\ F[<<u, i>>] = IF s[i] \in T THEN Append(u, s[i]) ELSE u
            /\ F[<<u, i>>] \in Seq(T)
  <2>1. <<u, i>> \in Seq(T) \X (1..Len(s))
    OBVIOUS
  <2>2. F[<<u, i>>] = IF s[i] \in T THEN Append(u, s[i]) ELSE u
    BY <2>1
  <2>3. s[i] \in T => Append(u, s[i]) \in Seq(T)
    OBVIOUS
  <2> QED
    BY <2>2, <2>3
<1>3. \A u \in Seq(T), i \in 1..Len(s) : F[<<u, i>>] \in Seq(T)
  BY <1>2
<1> HIDE DEF F
<1>4. PICK g : Follows(g, Seq(T), << >>, Len(s), F)
  BY <1>1, <1>3, PrefixRecursion
<1>5. SelectedAfter(s, T, g)
  <2>1. ASSUME NEW n \in 1..Len(s)
        PROVE g[n] = IF s[n] \in T THEN Append(g[n - 1], s[n]) ELSE g[n - 1]
    <3>1. n - 1 \in 0..Len(s)
      BY <1>1
    <3>2. g[n - 1] \in Seq(T) /\ g[n] = F[<<g[n - 1], n>>]
      BY <1>4, <3>1 DEF Follows
    <3> QED
      BY <1>2, <3>2
  <2>2. \A n \in 0..Len(s) : n = 0 \/ n \in 1..Len(s)
    BY <1>1
  <2> QED
    BY <1>4, <2>1, <2>2 DEF Follows, SelectedAfter
<1>6. Selected(s, T) = (CHOOSE f : SelectedAfter(s, T, f))[Len(s)]
  BY DEF Selected, SelectedAfter
<1> QED
  BY <1>5, <1>6

(* One element more. *)
LEMMA SelectsOneMore ==
  ASSUME NEW S, NEW s \in Seq(S), NEW T, NEW n \in 1..Len(s), NEW sel,
         SelectedSoFar(s, T, sel, n - 1)
  PROVE  SelectedSoFar(s, T, IF s[n] \in T THEN Append(sel, s[n]) ELSE sel, n)
<1>1. Len(s) \in Nat /\ DOMAIN s = 1..Len(s) /\ sel \in Seq(T) /\ DOMAIN sel = 1..Len(sel)
      /\ Len(sel) \in Nat
  BY DEF SelectedSoFar
<1>2. CASE s[n] \in T
  <2>1. PICK u : u = Append(sel, s[n])
    OBVIOUS
  <2>2. /\ u \in Seq(T) /\ DOMAIN u = 1..Len(sel) + 1
        /\ \A i \in 1..Len(sel) : u[i] = sel[i]
        /\ u[Len(sel) + 1] = s[n]
    BY <1>1, <1>2, <2>1
  <2>3. ASSUME NEW j \in DOMAIN u PROVE j \in 1..Len(sel) \/ j = Len(sel) + 1
    BY <1>1, <2>2
  <2>4. ASSUME NEW j \in DOMAIN u PROVE \E i \in 1..n : u[j] = s[i]
    <3>1. CASE j \in 1..Len(sel)
      <4>1. PICK i \in 1..n - 1 : sel[j] = s[i]
        BY <1>1, <3>1 DEF SelectedSoFar
      <4>2. i \in 1..n
        BY <1>1
      <4> QED
        BY <2>2, <3>1, <4>1, <4>2
    <3>2. CASE j = Len(sel) + 1
      BY <1>1, <2>2, <3>2
    <3> QED
      BY <2>3, <3>1, <3>2
  <2>5. ASSUME Injective(s) PROVE Injective(u)
    <3>1. ASSUME NEW i \in DOMAIN u, NEW j \in 1..Len(sel), u[i] = u[j] PROVE i = j
      <4>1. CASE i \in 1..Len(sel)
        BY <1>1, <2>2, <2>5, <3>1, <4>1 DEF SelectedSoFar, Injective
      <4>2. CASE i = Len(sel) + 1
        <5>1. PICK k \in 1..n - 1 : sel[j] = s[k]
          BY <1>1, <3>1 DEF SelectedSoFar
        <5>2. s[k] = s[n] /\ k \in DOMAIN s /\ n \in DOMAIN s /\ k # n
          BY <1>1, <2>2, <3>1, <4>2, <5>1
        <5> QED
          BY <2>5, <5>2 DEF Injective
      <4> QED
        BY <2>3, <4>1, <4>2
    <3>2. \A i, j \in DOMAIN u : (i = Len(sel) + 1 /\ j = Len(sel) + 1) \/ i \in 1..Len(sel)
                                 \/ j \in 1..Len(sel)
      BY <2>3
    <3>3. \A j \in 1..Len(sel) : j \in DOMAIN u
      BY <1>1, <2>2
    <3> QED
      BY <3>1, <3>2, <3>3 DEF Injective
  <2> QED
    BY <1>2, <2>1, <2>2, <2>4, <2>5 DEF SelectedSoFar
<1>3. CASE s[n] \notin T
  <2>1. \A i \in 1..n - 1 : i \in 1..n
    BY <1>1
  <2> QED
    BY <1>1, <1>3, <2>1 DEF SelectedSoFar
<1> QED
  BY <1>2, <1>3

(* So what is selected of a list is a list of elements of the set, without *)
(* repetitions if the list has none.                                       *)
LEMMA SelectedIsGood ==
  ASSUME NEW S, NEW s \in Seq(S), NEW T
  PROVE  /\ Selected(s, T) \in Seq(T) /\ Selected(s, T) \in Seq(S)
         /\ Injective(s) => Injective(Selected(s, T))
<1>1. PICK f : SelectedAfter(s, T, f) /\ Selected(s, T) = f[Len(s)]
  BY SelectedIsLast
<1> DEFINE P == {n \in 0..Len(s) : SelectedSoFar(s, T, f[n], n)}
<1>2. Len(s) \in Nat
  OBVIOUS
<1>3. 0 \in P
  <2>1. f[0] = << >>
    BY <1>1, <1>2 DEF SelectedAfter
  <2>2. SelectedSoFar(s, T, << >>, 0)
    BY DEF SelectedSoFar, Injective
  <2> QED
    BY <1>2, <2>1, <2>2
<1>4. ASSUME NEW n \in 1..Len(s), n - 1 \in P PROVE n \in P
  <2>1. n \in 0..Len(s) /\ ~(n = 0)
    BY <1>2
  <2>2. SelectedAfter(s, T, f)
    BY <1>1
  <2>3. f[n] = IF s[n] \in T THEN Append(f[n - 1], s[n]) ELSE f[n - 1]
    BY ONLY <2>1, <2>2 DEF SelectedAfter
  <2>4. SelectedSoFar(s, T, f[n - 1], n - 1)
    BY <1>4
  <2> QED
    BY <2>1, <2>3, <2>4, SelectsOneMore
<1>5. Len(s) \in P
  <2> HIDE DEF P
  <2>1. \A i \in 1..Len(s) : i - 1 \in P => i \in P
    BY ONLY <1>4
  <2>2. \A i \in 0..Len(s) : i \in P
    BY ONLY <1>2, <1>3, <2>1, PrefixInduction
  <2> QED
    BY ONLY <1>2, <2>2
<1>6. PICK u : u = Selected(s, T)
  OBVIOUS
<1>7. /\ u \in Seq(T) /\ \A j \in DOMAIN u : \E i \in 1..Len(s) : u[j] = s[i]
      /\ Injective(s) => Injective(u)
  BY <1>1, <1>5, <1>6 DEF SelectedSoFar
<1>8. u \in Seq(S)
  <2>1. \A j \in DOMAIN u : u[j] \in S
    BY <1>7
  <2>2. Len(u) \in Nat /\ DOMAIN u = 1..Len(u) /\ u = [j \in 1..Len(u) |-> u[j]]
    BY <1>7
  <2> QED
    BY <2>1, <2>2, SeqDef
<1> QED
  BY <1>6, <1>7, <1>8

-----------------------------------------------------------------------------
(* OneShot.  While a process runs alone no other one is active, so that    *)
(* the file of the shared name is gone after RemoveTmp, unless it was      *)
(* kept, and then its own; its document is what it gathered, with what a   *)
(* kept file had in it, and of a section that is still to be gathered it   *)
(* has gathered nothing.                                                   *)

Ends == {"new", "failed", "crashed", "done"}
NoRows == [s \in Followed |-> << >>]
Document(d) == [is |-> "json", doc |-> d]
FileNames == Runs \cup {"old"}
AnyRows == Seq(FileNames \X Nat)
Documents == [Followed -> AnyRows]

\* A process p, of the name r, that has the shared name lead to n.
OwnOnly(r, p, n, content) ==
  p.alone =>
    /\ p.got \in [Followed -> Seq({r} \X Nat)] /\ (p.kept \/ p.doc = p.got)
    /\ Shot!Holds(p.doc, p.got)
    /\ p.at \in {"failed", "remove", "load"} => p.got = NoRows
    /\ p.at \in {"load", "gather"} /\ ~p.kept => n = "none"
    /\ p.at = "gather" => /\ p.todo \in Seq(Followed) /\ Injective(p.todo)
                         /\ \A i \in DOMAIN p.todo : p.got[p.todo[i]] = << >>
    /\ p.at = "write" => n = p.fd
    /\ p.at = "print" => n \in FileNames /\ content[n] = Document(p.doc)
    /\ p.at \in {"cleanup", "done"} => p.printed.is = "failed" \/ p.printed = Document(p.doc)

\* What is so of every process.
Ordered(p) ==
  /\ p = [at |-> p.at, todo |-> p.todo, doc |-> p.doc, got |-> p.got, fd |-> p.fd,
          printed |-> p.printed, alone |-> p.alone, kept |-> p.kept]
  /\ p.doc \in Documents
  /\ p.at = "new" => p = Shot!Idle
  /\ p.at = "remove" => ~p.kept
  /\ IF p.at = "write" THEN p.fd \in FileNames ELSE p.fd = "none"
  /\ p.at \in {"remove", "load", "gather", "write"} =>
       p.printed = [is |-> "nothing", doc |-> NoRows]

ShotInv ==
  /\ jsonBuild \in JsonBuilds
  /\ name \in FileNames \cup {"none"}
  /\ files = [f \in FileNames |-> files[f]] /\ \A f \in FileNames : files[f].doc \in Documents
  /\ shot = [r \in Runs |-> shot[r]]
  /\ \A r \in Runs : Ordered(shot[r]) /\ OwnOnly(r, shot[r], name, files)
  /\ \A r, q \in Runs : shot[r].alone /\ shot[r].at \notin Ends /\ r # q => shot[q].at \in Ends

(* A document without rows is one, and any document holds those of none. *)
LEMMA NoRowsIs ==
  NoRows \in Documents /\ \A d \in Documents : Shot!Holds(d, NoRows)
<1>1. << >> \in AnyRows
  BY DEF AnyRows
<1> QED
  BY <1>1 DEF NoRows, Documents, Shot!Holds

(* The processes start within the invariant. *)
LEMMA ShotStarts ==
  ASSUME Shot!OneShotInit
  PROVE  ShotInv
<1>1. NoRows \in [Followed -> Seq({"r"} \X Nat)] /\ \A r : NoRows \in [Followed -> Seq({r} \X Nat)]
  BY DEF NoRows
<1>2. /\ jsonBuild \in JsonBuilds /\ name \in {"none", "old"} /\ DOMAIN files = FileNames
      /\ files = [f \in FileNames |-> files[f]]
      /\ shot = [r \in Runs |-> Shot!Idle]
  BY DEF Shot!OneShotInit, FileNames
<1>6. ASSUME NEW f \in FileNames PROVE files[f].doc \in Documents
  <2>1. files[f] \in Shot!Left \cup {Shot!Partial}
    BY DEF Shot!OneShotInit, FileNames
  <2>2. <<<<"old", 1>>>> \in AnyRows /\ << >> \in AnyRows
    BY DEF AnyRows, FileNames
  <2> QED
    BY <2>1, <2>2 DEF Shot!Left, Shot!Partial, Shot!Json, Shot!Empty, Documents
<1>3. Shot!Idle = [at |-> "new", todo |-> << >>, doc |-> NoRows, got |-> NoRows, fd |-> "none",
                   printed |-> [is |-> "nothing", doc |-> NoRows], alone |-> TRUE,
                   kept |-> FALSE]
  BY DEF Shot!Idle, Shot!Empty, Shot!Nothing, NoRows
<1>4. ASSUME NEW r \in Runs PROVE Ordered(shot[r]) /\ OwnOnly(r, shot[r], name, files)
  <2>1. PICK p : p = shot[r]
    OBVIOUS
  <2>2. p = Shot!Idle
    BY <1>2, <2>1
  <2>3. /\ p.at = "new" /\ p.fd = "none" /\ p.doc = NoRows /\ p.got = NoRows
        /\ p.printed = [is |-> "nothing", doc |-> NoRows]
    BY <1>3, <2>2
  <2>4. Ordered(p)
    BY <1>3, <2>2, <2>3, NoRowsIs DEF Ordered
  <2>5. OwnOnly(r, p, name, files)
    BY <1>1, <2>3, NoRowsIs DEF OwnOnly
  <2> QED
    BY <2>1, <2>4, <2>5
<1>5. \A r \in Runs : shot[r].at = "new"
  BY <1>2, <1>3
<1> QED
  BY <1>2, <1>4, <1>5, <1>6 DEF ShotInv, Ends, FileNames

(* A step of an active process leaves the others in the invariant: one     *)
(* that was alone has come to its end, where the file does not matter.     *)
LEMMA OthersKept ==
  ASSUME ShotInv, NEW r \in Runs, NEW s, shot' = [shot EXCEPT ![r] = s], shot[r].at \notin Ends,
         UNCHANGED jsonBuild,
         name' \in FileNames \cup {"none"}, files' = [f \in FileNames |-> files'[f]],
         \A f \in FileNames : files'[f].doc \in Documents,
         Ordered(s), OwnOnly(r, s, name', files'), s.alone = shot[r].alone
  PROVE  ShotInv'
<1>1. /\ shot' = [q \in Runs |-> shot'[q]] /\ shot'[r] = s
      /\ \A q \in Runs \ {r} : shot'[q] = shot[q]
  BY DEF ShotInv
<1>2. ASSUME NEW q \in Runs PROVE Ordered(shot'[q]) /\ OwnOnly(q, shot'[q], name', files')
  <2>1. CASE q = r
    BY <1>1, <2>1
  <2>2. CASE q # r
    <3>1. shot'[q] = shot[q] /\ Ordered(shot[q]) /\ OwnOnly(q, shot[q], name, files)
      BY <1>1, <2>2 DEF ShotInv
    <3>2. shot[q].alone => shot[q].at \in Ends
      BY <2>2 DEF ShotInv
    <3>3. OwnOnly(q, shot[q], name', files')
      BY <3>1, <3>2 DEF OwnOnly, Ends
    <3> QED
      BY <3>1, <3>3
  <2> QED
    BY <2>1, <2>2
<1>3. ASSUME NEW q \in Runs, NEW x \in Runs, shot'[q].alone, shot'[q].at \notin Ends, q # x
      PROVE shot'[x].at \in Ends
  <2>1. CASE q = r
    BY <1>1, <1>3, <2>1 DEF ShotInv
  <2>2. CASE q # r
    BY <1>1, <1>3, <2>2 DEF ShotInv
  <2> QED
    BY <2>1, <2>2
<1> QED
  BY <1>1, <1>2, <1>3 DEF ShotInv

(* A process starts: those that are active then are no longer alone. *)
LEMMA StartsKeeps ==
  ASSUME ShotInv, NEW r \in Runs, NEW fails \in BOOLEAN, Shot!Starts(r, fails)
  PROVE  ShotInv'
<1>1. PICK p, others, t :
        /\ p = shot[r] /\ others = {q \in Runs \ {r} : shot[q].at \notin Ends}
        /\ t = [shot[r] EXCEPT !.at = IF fails THEN "failed" ELSE "remove", !.alone = others = {}]
  OBVIOUS
<1>2. /\ p.at = "new" /\ UNCHANGED <<jsonBuild, name, files>>
      /\ shot' = [q \in Runs |->
                    IF q = r THEN t
                    ELSE IF q \in others /\ ~fails THEN [shot[q] EXCEPT !.alone = FALSE]
                    ELSE shot[q]]
  BY <1>1 DEF Shot!Starts, Shot!Active, Shot!Ended, Ends
<1>3. p = Shot!Idle
  BY <1>1, <1>2 DEF ShotInv, Ordered
<1>4. /\ t = [at |-> IF fails THEN "failed" ELSE "remove", todo |-> << >>, doc |-> NoRows,
              got |-> NoRows, fd |-> "none", printed |-> [is |-> "nothing", doc |-> NoRows],
              alone |-> others = {}, kept |-> FALSE]
  <2>1. PICK a, b : a = (IF fails THEN "failed" ELSE "remove") /\ b = (others = {})
    OBVIOUS
  <2>2. t = [p EXCEPT !.at = a, !.alone = b]
    BY <1>1, <2>1
  <2>3. t = [at |-> a, todo |-> << >>, doc |-> NoRows, got |-> NoRows, fd |-> "none",
             printed |-> [is |-> "nothing", doc |-> NoRows], alone |-> b, kept |-> FALSE]
    BY <1>3, <2>2 DEF Shot!Idle, Shot!Empty, Shot!Nothing, NoRows
  <2> QED
    BY <2>1, <2>3
<1>5. Ordered(t)
  BY <1>4, NoRowsIs DEF Ordered
<1>6. OwnOnly(r, t, name, files)
  <2>1. NoRows \in [Followed -> Seq({r} \X Nat)]
    BY DEF NoRows
  <2> QED
    BY <1>4, <2>1, NoRowsIs DEF OwnOnly
<1>7. ASSUME NEW q \in Runs, q # r
      PROVE /\ Ordered(shot'[q]) /\ OwnOnly(q, shot'[q], name, files)
            /\ shot'[q].at = shot[q].at
            /\ shot'[q].alone => shot[q].alone /\ (fails \/ q \notin others)
  <2>1. Ordered(shot[q]) /\ OwnOnly(q, shot[q], name, files)
    BY DEF ShotInv
  <2>2. CASE q \in others /\ ~fails
    <3>1. PICK u, v : u = shot[q] /\ v = shot'[q]
      OBVIOUS
    <3>2. v = [u EXCEPT !.alone = FALSE] /\ u.at \notin Ends
      BY <1>1, <1>2, <1>7, <2>2, <3>1
    <3>3. /\ v = [at |-> u.at, todo |-> u.todo, doc |-> u.doc, got |-> u.got, fd |-> u.fd,
                  printed |-> u.printed, alone |-> FALSE, kept |-> u.kept]
      BY <2>1, <3>1, <3>2 DEF Ordered
    <3>4. Ordered(v) /\ ~v.alone /\ v.at = u.at
      BY <2>1, <3>1, <3>2, <3>3 DEF Ordered, Ends
    <3> QED
      BY <3>1, <3>4 DEF OwnOnly
  <2>3. CASE ~(q \in others /\ ~fails)
    BY <1>2, <1>7, <2>1, <2>3
  <2> QED
    BY <2>2, <2>3
<1>8. ASSUME NEW q \in Runs PROVE Ordered(shot'[q]) /\ OwnOnly(q, shot'[q], name', files')
  BY <1>2, <1>5, <1>6, <1>7
<1>9. ASSUME NEW q \in Runs, NEW x \in Runs, shot'[q].alone, shot'[q].at \notin Ends, q # x
      PROVE shot'[x].at \in Ends
  <2>1. shot'[r] = t /\ t.at \in {"failed", "remove"} /\ (fails => t.at = "failed")
        /\ (t.alone => others = {})
    BY <1>2, <1>4
  <2>2. CASE q = r
    <3>1. x \notin others /\ shot'[x].at = shot[x].at
      BY <1>7, <1>9, <2>1, <2>2
    <3> QED
      BY <1>1, <1>9, <2>2, <3>1
  <2>3. CASE q # r
    <3>1. shot[q].at \notin Ends /\ shot[q].alone /\ (fails \/ q \notin others)
      BY <1>7, <1>9, <2>3
    <3>2. fails
      BY <1>1, <2>3, <3>1
    <3>3. CASE x = r
      BY <2>1, <3>2, <3>3 DEF Ends
    <3>4. CASE x # r
      BY <1>7, <1>9, <3>1, <3>4 DEF ShotInv
    <3> QED
      BY <3>3, <3>4
  <2> QED
    BY <2>2, <2>3
<1>10. shot' = [q \in Runs |-> shot'[q]] /\ files' = [f \in FileNames |-> files'[f]]
  BY <1>2 DEF ShotInv
<1> QED
  BY <1>2, <1>8, <1>9, <1>10 DEF ShotInv

(* The sections to gather are some of those followed, each once. *)
LEMMA SectionsOnce ==
  ASSUME ShotInv
  PROVE  Shot!Sections \in Seq(Followed) /\ Injective(Shot!Sections)
<1>1. PICK all : all = Shot!JsonMac
  OBVIOUS
<1>2. Shot!SectionsOf[jsonBuild] = all
  BY <1>1, OneShotAssumption
  DEF ShotInv, Shot!SectionsOf, Shot!JsonMac, Shot!JsonLinux, Shot!JsonWindows
<1>3. all \in Seq({all[i] : i \in 1..7}) /\ Injective(all)
  <2>1. /\ DOMAIN all = 1..7 /\ all[1] = "os" /\ all[2] = "cpu" /\ all[3] = "memory"
        /\ all[4] = "gpu" /\ all[5] = "adapters" /\ all[6] = "disks" /\ all[7] = "temperatures"
    BY <1>1 DEF Shot!JsonMac
  <2>2. ASSUME NEW i \in 1..7, NEW j \in 1..7, all[i] = all[j] PROVE i = j
    <3>1. /\ i = 1 \/ i = 2 \/ i = 3 \/ i = 4 \/ i = 5 \/ i = 6 \/ i = 7
          /\ j = 1 \/ j = 2 \/ j = 3 \/ j = 4 \/ j = 5 \/ j = 6 \/ j = 7
      OBVIOUS
    <3> QED
      BY <2>1, <2>2, <3>1
  <2>3. all \in Seq({all[i] : i \in 1..7})
    <3>1. Len(all) = 7 /\ all = [i \in 1..7 |-> all[i]]
      BY <1>1 DEF Shot!JsonMac
    <3> QED
      BY <3>1, SeqDef
  <2> QED
    BY <2>1, <2>2, <2>3 DEF Injective
<1>4. Shot!Sections = Shot!Selected(all, Followed)
  BY <1>2 DEF Shot!Sections
<1>5. Shot!Selected(all, Followed) = Selected(all, Followed)
  BY DEF Shot!Selected, Selected
<1> QED
  BY <1>3, <1>4, <1>5, SelectedIsGood

\* The section row of a document, old before, with the rows of a process in it.
RowAdded(r, old, rows, row) ==
  /\ rows \in Seq({r} \X Nat) /\ row \in AnyRows
  /\ old = << >> => row = rows
  /\ \A i \in DOMAIN rows : \E j \in DOMAIN row : row[j] = rows[i]

(* A section is added to what a document has in it, which may be nothing. *)
LEMMA RowsAreAdded ==
  ASSUME NEW r \in Runs, NEW n \in Nat, NEW old \in AnyRows, NEW rows, rows = Shot!RowsOf(r, n),
         NEW row, row = Shot!AppendToArray(old, r, n) \/ row = Shot!SetNested(old, r, n)
  PROVE  RowAdded(r, old, rows, row)
<1>1. rows \in [1..n -> {r} \X Nat] /\ rows = [i \in 1..n |-> <<r, i>>]
  BY DEF Shot!RowsOf
<1>2. rows \in Seq({r} \X Nat) /\ rows \in AnyRows /\ Len(rows) = n
  <2>1. rows \in Seq({r} \X Nat)
    BY <1>1, SeqDef
  <2>2. rows \in [1..n -> FileNames \X Nat]
    BY <1>1 DEF FileNames
  <2>3. rows \in AnyRows
    BY <2>2, SeqDef DEF AnyRows
  <2>4. Len(rows) \in Nat /\ DOMAIN rows = 1..Len(rows)
    BY <2>1
  <2> QED
    BY <1>1, <2>1, <2>3, <2>4
<1>3. CASE row = Shot!AppendToArray(old, r, n)
  <2>1. row = old \o rows
    BY <1>3 DEF Shot!AppendToArray
  <2>2. /\ Len(old) \in Nat /\ row \in AnyRows /\ DOMAIN row = 1..Len(old) + n
        /\ \A i \in 1..n : row[Len(old) + i] = rows[i]
    BY <1>2, <2>1 DEF AnyRows
  <2>3. old = << >> => row = rows
    BY <1>2, <2>1 DEF AnyRows
  <2>4. ASSUME NEW i \in DOMAIN rows PROVE \E j \in DOMAIN row : row[j] = rows[i]
    <3>1. i \in 1..n /\ Len(old) + i \in DOMAIN row
      BY <1>1, <2>2
    <3> QED
      BY <2>2, <3>1
  <2> QED
    BY <1>2, <2>2, <2>3, <2>4 DEF RowAdded
<1>4. CASE row = Shot!SetNested(old, r, n)
  <2>9. PICK len : len = IF n < Len(old) THEN Len(old) ELSE n
    OBVIOUS
  <2>1. Len(old) \in Nat /\ DOMAIN old = 1..Len(old) /\ old \in [1..Len(old) -> FileNames \X Nat]
    BY DEF AnyRows
  <2>2. row = [i \in 1..len |-> IF i <= n THEN <<r, i>> ELSE old[i]]
    BY <1>4, <2>9 DEF Shot!SetNested
  <2>3. len \in Nat /\ n <= len /\ (len = n \/ len = Len(old))
    BY <2>1, <2>9
  <2>4. ASSUME NEW i \in 1..len PROVE row[i] \in FileNames \X Nat
    <3>1. CASE i <= n
      <4>1. row[i] = <<r, i>> /\ r \in FileNames /\ i \in Nat
        BY <2>2, <2>3, <3>1 DEF FileNames
      <4> QED
        BY <4>1
    <3>2. CASE ~(i <= n)
      <4>1. row[i] = old[i]
        BY ONLY <2>2, <3>2, i \in 1..len
      <4>2. len = Len(old)
        BY ONLY <2>3, <3>2, i \in 1..len, n \in Nat
      <4> QED
        BY ONLY <2>1, <4>1, <4>2, i \in 1..len
    <3> QED
      BY <3>1, <3>2
  <2>5. row \in [1..len -> FileNames \X Nat]
    <3>1. row = [i \in 1..len |-> row[i]]
      BY <2>2
    <3> QED
      BY <2>4, <3>1
  <2>6. row \in AnyRows
    BY <2>3, <2>5, SeqDef DEF AnyRows
  <2>7. ASSUME NEW i \in DOMAIN rows PROVE \E j \in DOMAIN row : row[j] = rows[i]
    <3>1. i \in 1..n /\ i \in DOMAIN row /\ rows[i] = <<r, i>>
      BY <1>1, <2>2, <2>3
    <3>2. row[i] = <<r, i>>
      BY <2>2, <3>1
    <3> QED
      BY <3>1, <3>2
  <2>8. ASSUME old = << >> PROVE row = rows
    <3>1. len = n
      BY <2>8, <2>9
    <3> QED
      BY <1>1, <2>2, <3>1
  <2> QED
    BY <1>2, <2>6, <2>7, <2>8 DEF RowAdded
<1> QED
  BY <1>3, <1>4

(* One section is gathered. *)
LEMMA GatherKeeps ==
  ASSUME ShotInv, NEW r \in Runs, NEW n \in Nat, Shot!Gather(r, n)
  PROVE  ShotInv'
<1>1. PICK p, sec, rows : p = shot[r] /\ sec = Head(p.todo) /\ rows = Shot!RowsOf(r, n)
  OBVIOUS
<1>2. PICK row : row = IF sec \in Shot!Arrays THEN Shot!AppendToArray(p.doc[sec], r, n)
                       ELSE Shot!SetNested(p.doc[sec], r, n)
  OBVIOUS
<1>3. PICK s : s = [p EXCEPT !.todo = Tail(p.todo), !.doc[sec] = row, !.got[sec] = rows]
  OBVIOUS
<1>4. /\ p.at = "gather" /\ p.todo # << >> /\ UNCHANGED <<jsonBuild, name, files>>
      /\ shot' = [shot EXCEPT ![r] = s]
  BY <1>1, <1>2, <1>3 DEF Shot!Gather, Shot!Moves
<1>5. Ordered(p) /\ OwnOnly(r, p, name, files)
  BY <1>1 DEF ShotInv
<1>6. s = [at |-> p.at, todo |-> Tail(p.todo), doc |-> [p.doc EXCEPT ![sec] = row],
           got |-> [p.got EXCEPT ![sec] = rows], fd |-> p.fd, printed |-> p.printed,
           alone |-> p.alone, kept |-> p.kept]
  BY <1>3, <1>5 DEF Ordered
<1>10. sec \in Followed =>
         /\ rows \in Seq({r} \X Nat) /\ row \in AnyRows
         /\ p.doc[sec] = << >> => row = rows
         /\ \A i \in DOMAIN rows : \E j \in DOMAIN row : row[j] = rows[i]
  <2>1. PICK old : old = p.doc[sec]
    OBVIOUS
  <2>2. row = Shot!AppendToArray(old, r, n) \/ row = Shot!SetNested(old, r, n)
    BY <1>2, <2>1
  <2>3. ASSUME sec \in Followed PROVE RowAdded(r, old, rows, row)
    <3>1. old \in AnyRows
      BY <1>5, <2>1, <2>3 DEF Ordered, Documents
    <3>2. rows = Shot!RowsOf(r, n)
      BY <1>1
    <3> QED
      BY ONLY <2>2, <3>1, <3>2, r \in Runs, n \in Nat, RowsAreAdded
  <2> QED
    BY <2>1, <2>3 DEF RowAdded
<1>7. Ordered(s)
  <2>1. s.doc \in Documents
    BY <1>5, <1>6, <1>10 DEF Ordered, Documents
  <2> QED
    BY <1>4, <1>5, <1>6, <2>1 DEF Ordered
<1>8. ASSUME p.alone PROVE OwnOnly(r, s, name, files)
  <2>1. /\ p.got \in [Followed -> Seq({r} \X Nat)] /\ (p.kept \/ (p.doc = p.got /\ name = "none"))
        /\ Shot!Holds(p.doc, p.got)
        /\ p.todo \in Seq(Followed) /\ Injective(p.todo)
        /\ \A i \in DOMAIN p.todo : p.got[p.todo[i]] = << >>
    BY <1>4, <1>5, <1>8 DEF OwnOnly
  <2>2. PICK todo, t : todo = p.todo /\ t = Tail(p.todo)
    OBVIOUS
  <2>3. /\ todo \in Seq(Followed) /\ Len(todo) \in Nat /\ Len(todo) > 0 /\ sec = todo[1]
        /\ t \in Seq(Followed) /\ Len(t) = Len(todo) - 1 /\ \A i \in 1..Len(t) : t[i] = todo[i + 1]
    BY <1>1, <1>4, <2>1, <2>2
  <2>4. sec \in Followed /\ p.got[sec] = << >>
    BY <2>1, <2>2, <2>3
  <2>5. rows \in Seq({r} \X Nat) /\ (p.kept \/ row = rows)
    BY <1>10, <2>1, <2>4
  <2>6. ASSUME NEW i \in DOMAIN t
        PROVE i + 1 \in DOMAIN todo /\ t[i] = todo[i + 1] /\ t[i] # sec /\ t[i] \in Followed
    <3>1. i \in 1..Len(t) /\ i + 1 \in DOMAIN todo /\ 1 \in DOMAIN todo /\ i + 1 # 1
      BY <2>3
    <3>2. todo[i + 1] # todo[1]
      BY <2>1, <2>2, <3>1 DEF Injective
    <3> QED
      BY <2>3, <3>1, <3>2
  <2>7. Injective(t)
    <3> SUFFICES ASSUME NEW i \in DOMAIN t, NEW j \in DOMAIN t, t[i] = t[j] PROVE i = j
      BY DEF Injective
    <3>1. i + 1 \in DOMAIN todo /\ t[i] = todo[i + 1]
      BY <2>6
    <3>2. j + 1 \in DOMAIN todo /\ t[j] = todo[j + 1]
      BY <2>6
    <3>3. t[i] = t[j]
      OBVIOUS
    <3>4. Injective(todo)
      BY <2>1, <2>2
    <3>5. i + 1 = j + 1
      BY ONLY <3>1, <3>2, <3>3, <3>4 DEF Injective
    <3>6. (i + 1) - 1 = i /\ (j + 1) - 1 = j
      BY <2>3
    <3> QED
      BY ONLY <3>5, <3>6
  <2>8. /\ s.got \in [Followed -> Seq({r} \X Nat)] /\ s.kept = p.kept
        /\ s.kept \/ (s.doc = s.got /\ name = "none")
    BY <1>6, <2>1, <2>4, <2>5
  <2>11. Shot!Holds(s.doc, s.got)
    <3>1. p.doc \in [Followed -> AnyRows]
      BY <1>5 DEF Ordered, Documents
    <3>2. ASSUME NEW x \in Followed, NEW i \in DOMAIN s.got[x]
          PROVE  \E j \in DOMAIN s.doc[x] : s.doc[x][j] = s.got[x][i]
      <4>1. CASE x = sec
        <5>1. s.got[x] = rows /\ s.doc[x] = row
          BY <1>6, <2>1, <2>4, <3>1, <4>1
        <5> QED
          BY <1>10, <2>4, <3>2, <5>1
      <4>2. CASE x # sec
        <5>1. s.got[x] = p.got[x] /\ s.doc[x] = p.doc[x]
          BY <1>6, <2>1, <3>1, <4>2
        <5> QED
          BY <2>1, <3>2, <5>1 DEF Shot!Holds
      <4> QED
        BY <4>1, <4>2
    <3> QED
      BY <3>2 DEF Shot!Holds
  <2>9. \A i \in DOMAIN t : s.got[t[i]] = << >>
    BY <1>6, <2>1, <2>2, <2>6
  <2>10. s.at = "gather" /\ s.todo = t /\ t \in Seq(Followed)
    BY <1>4, <1>6, <2>1, <2>2, <2>3
  <2> QED
    BY ONLY <2>7, <2>8, <2>9, <2>10, <2>11 DEF OwnOnly
<1>9. OwnOnly(r, s, name, files)
  <2>1. ~p.alone => OwnOnly(r, s, name, files)
    BY <1>6 DEF OwnOnly
  <2> QED
    BY <1>8, <2>1
<1> QED
  <2>1. p.at \notin Ends /\ s.alone = p.alone
    BY <1>4, <1>6 DEF Ends
  <2> QED
    BY <1>1, <1>4, <1>7, <1>9, <2>1, OthersKept DEF ShotInv

(* Another step of a process: only its place and what is named change. *)
LEMMA ActiveStepKeeps ==
  ASSUME ShotInv, NEW r \in Runs,
         \/ Shot!Prints(r) \/ Shot!Crash(r)
         \/ \E b \in BOOLEAN : \/ Shot!RemoveTmp(r, b) \/ Shot!Load(r, b)
                               \/ Shot!SaveOpens(r, b) \/ Shot!SaveWrites(r, b)
                               \/ Shot!CleansUp(r, b)
  PROVE  ShotInv'
<1>1. PICK p : p = shot[r]
  OBVIOUS
<1>2. /\ Ordered(p) /\ OwnOnly(r, p, name, files)
      /\ p = [at |-> p.at, todo |-> p.todo, doc |-> p.doc, got |-> p.got, fd |-> p.fd,
              printed |-> p.printed, alone |-> p.alone, kept |-> p.kept]
      /\ p.doc \in Documents /\ \A f \in FileNames : files[f].doc \in Documents
      /\ name \in FileNames \cup {"none"} /\ files = [f \in FileNames |-> files[f]]
  BY <1>1 DEF ShotInv, Ordered
<1>3. ASSUME NEW s, shot' = [shot EXCEPT ![r] = s], p.at \notin Ends, UNCHANGED jsonBuild,
             name' \in FileNames \cup {"none"}, files' = [f \in FileNames |-> files'[f]],
             \A f \in FileNames : files'[f].doc \in Documents,
             Ordered(s), OwnOnly(r, s, name', files'), s.alone = p.alone
      PROVE  ShotInv'
  BY <1>1, <1>3, OthersKept
<1>4. ASSUME NEW b \in BOOLEAN, Shot!RemoveTmp(r, b) PROVE ShotInv'
  <2>1. PICK k, s : k = (name' # "none") /\ s = [p EXCEPT !.at = "load", !.kept = k]
    OBVIOUS
  <2>2. /\ p.at = "remove" /\ name' = Shot!Removed(r, b) /\ UNCHANGED <<jsonBuild, files>>
        /\ shot' = [shot EXCEPT ![r] = s]
    BY <1>1, <1>4, <2>1 DEF Shot!RemoveTmp, Shot!Moves
  <2>3. p.at \notin Ends /\ name' \in FileNames \cup {"none"}
    BY <1>2, <2>2 DEF Ends, Shot!Removed
  <2>4. s = [at |-> "load", todo |-> p.todo, doc |-> p.doc, got |-> p.got, fd |-> p.fd,
             printed |-> p.printed, alone |-> p.alone, kept |-> k]
    BY <1>2, <2>1
  <2>5. Ordered(s)
    BY <1>2, <2>2, <2>4 DEF Ordered
  <2>6. OwnOnly(r, s, name', files')
    <3>1. k \in BOOLEAN /\ (~k => name' = "none")
      BY <2>1
    <3>2. p.alone => /\ p.got = NoRows /\ p.got \in [Followed -> Seq({r} \X Nat)]
                     /\ Shot!Holds(p.doc, p.got) /\ (p.kept \/ p.doc = p.got)
      BY <1>2, <2>2 DEF OwnOnly
    <3>3. ~p.kept
      BY <1>2, <2>2 DEF Ordered
    <3> QED
      BY <2>4, <3>1, <3>2, <3>3 DEF OwnOnly
  <2> QED
    BY <1>2, <1>3, <2>2, <2>3, <2>4, <2>5, <2>6
<1>5. ASSUME NEW b \in BOOLEAN, Shot!Load(r, b) PROVE ShotInv'
  <2>1. PICK d, t, s : /\ d = IF name = "none" \/ ~b THEN NoRows ELSE files[name].doc
                       /\ t = Shot!Sections
                       /\ s = [p EXCEPT !.at = "gather", !.todo = t, !.doc = d]
    OBVIOUS
  <2>2. /\ p.at = "load" /\ UNCHANGED <<jsonBuild, name, files>>
        /\ shot' = [shot EXCEPT ![r] = s]
    BY <1>1, <1>5, <2>1 DEF Shot!Load, Shot!Moves, Shot!Empty, NoRows
  <2>9. d \in Documents
    BY <1>2, <2>1, NoRowsIs
  <2>3. p.at \notin Ends
    BY <2>2 DEF Ends
  <2>4. s = [at |-> "gather", todo |-> t, doc |-> d, got |-> p.got, fd |-> p.fd,
             printed |-> p.printed, alone |-> p.alone, kept |-> p.kept]
    BY <1>2, <2>1
  <2>5. Ordered(s)
    BY <1>2, <2>2, <2>4, <2>9 DEF Ordered
  <2>6. t \in Seq(Followed) /\ Injective(t)
    BY <2>1, SectionsOnce
  <2>7. ASSUME p.alone PROVE OwnOnly(r, s, name, files)
    <3>1. /\ p.kept \/ name = "none"
          /\ p.got = NoRows /\ p.got \in [Followed -> Seq({r} \X Nat)]
      BY <1>2, <2>2, <2>7 DEF OwnOnly
    <3>3. Shot!Holds(d, p.got) /\ (p.kept \/ d = p.got)
      BY <2>1, <2>9, <3>1, NoRowsIs
    <3>2. \A i \in DOMAIN t : p.got[t[i]] = << >>
      BY <2>6, <3>1 DEF NoRows
    <3> QED
      BY <2>4, <2>6, <3>1, <3>2, <3>3 DEF OwnOnly
  <2>8. OwnOnly(r, s, name', files')
    <3>1. ~p.alone => OwnOnly(r, s, name, files)
      BY <2>4 DEF OwnOnly
    <3> QED
      BY <2>2, <2>7, <3>1
  <2> QED
    BY <1>2, <1>3, <2>2, <2>3, <2>4, <2>5, <2>8
<1>6. CASE Shot!Prints(r)
  <2>1. PICK c, s : /\ c = IF name = "none" THEN Shot!Nothing ELSE files[name]
                    /\ s = [p EXCEPT !.at = "cleanup", !.printed = c]
    OBVIOUS
  <2>2. /\ p.at = "print" /\ UNCHANGED <<jsonBuild, name, files>>
        /\ shot' = [shot EXCEPT ![r] = s]
    BY <1>1, <1>6, <2>1 DEF Shot!Prints, Shot!Moves
  <2>3. p.at \notin Ends
    BY <2>2 DEF Ends
  <2>4. s = [at |-> "cleanup", todo |-> p.todo, doc |-> p.doc, got |-> p.got, fd |-> p.fd,
             printed |-> c, alone |-> p.alone, kept |-> p.kept]
    BY <1>2, <2>1
  <2>5. Ordered(s)
    BY <1>2, <2>2, <2>4 DEF Ordered
  <2>6. p.alone => c = Document(p.doc)
    BY <1>2, <2>1, <2>2, OneShotAssumption DEF OwnOnly, FileNames
  <2>7. OwnOnly(r, s, name', files')
    BY <1>2, <2>2, <2>4, <2>6 DEF OwnOnly
  <2> QED
    BY <1>2, <1>3, <2>2, <2>3, <2>4, <2>5, <2>7
<1>7. ASSUME NEW b \in BOOLEAN, Shot!CleansUp(r, b) PROVE ShotInv'
  <2>1. PICK s : s = [p EXCEPT !.at = "done"]
    OBVIOUS
  <2>2. /\ p.at = "cleanup" /\ name' = Shot!Removed(r, b) /\ UNCHANGED <<jsonBuild, files>>
        /\ shot' = [shot EXCEPT ![r] = s]
    BY <1>1, <1>7, <2>1 DEF Shot!CleansUp, Shot!Moves
  <2>3. p.at \notin Ends /\ name' \in FileNames \cup {"none"}
    BY <1>2, <2>2 DEF Ends, Shot!Removed
  <2>4. s = [at |-> "done", todo |-> p.todo, doc |-> p.doc, got |-> p.got, fd |-> p.fd,
             printed |-> p.printed, alone |-> p.alone, kept |-> p.kept]
    BY <1>2, <2>1
  <2>5. Ordered(s)
    BY <1>2, <2>2, <2>4 DEF Ordered
  <2>6. OwnOnly(r, s, name', files')
    BY <1>2, <2>2, <2>4 DEF OwnOnly
  <2> QED
    BY <1>2, <1>3, <2>2, <2>3, <2>4, <2>5, <2>6
<1>8. CASE Shot!Crash(r)
  <2>1. PICK s : s = [p EXCEPT !.at = "crashed", !.fd = "none"]
    OBVIOUS
  <2>2. /\ p.at \notin Ends /\ UNCHANGED <<jsonBuild, name, files>>
        /\ shot' = [shot EXCEPT ![r] = s]
    BY <1>1, <1>8, <2>1 DEF Shot!Crash, Shot!Moves, Shot!Active, Shot!Ended, Ends
  <2>3. s = [at |-> "crashed", todo |-> p.todo, doc |-> p.doc, got |-> p.got, fd |-> "none",
             printed |-> p.printed, alone |-> p.alone, kept |-> p.kept]
    BY <1>2, <2>1
  <2>4. Ordered(s)
    BY <1>2, <2>3 DEF Ordered
  <2>5. OwnOnly(r, s, name', files')
    BY <1>2, <2>2, <2>3 DEF OwnOnly
  <2> QED
    BY <1>2, <1>3, <2>2, <2>3, <2>4, <2>5
<1>9. ASSUME NEW opens \in BOOLEAN, Shot!SaveOpens(r, opens) PROVE ShotInv'
  <2>1. CASE opens
    <3>1. PICK f, s : /\ f = IF name = "none" THEN r ELSE name
                      /\ s = [p EXCEPT !.at = "write", !.fd = f]
      OBVIOUS
    <3>2. /\ p.at = "gather" /\ name' = f /\ files' = [files EXCEPT ![f] = Shot!Partial]
          /\ shot' = [shot EXCEPT ![r] = s] /\ UNCHANGED jsonBuild
      BY <1>1, <1>9, <2>1, <3>1 DEF Shot!SaveOpens, Shot!Moves
    <3>3. p.at \notin Ends /\ f \in FileNames
      BY <1>2, <3>1, <3>2 DEF Ends, FileNames
    <3>4. s = [at |-> "write", todo |-> p.todo, doc |-> p.doc, got |-> p.got, fd |-> f,
               printed |-> p.printed, alone |-> p.alone, kept |-> p.kept]
      BY <1>2, <3>1
    <3>5. Ordered(s)
      BY <1>2, <3>2, <3>3, <3>4 DEF Ordered
    <3>6. OwnOnly(r, s, name', files')
      BY <1>2, <3>2, <3>4 DEF OwnOnly
    <3>7. files' = [g \in FileNames |-> files'[g]]
      BY <1>2, <3>2
    <3>8. \A g \in FileNames : files'[g].doc \in Documents
      BY <1>2, <3>2, NoRowsIs DEF Shot!Partial, Shot!Empty, NoRows
    <3> QED
      BY <1>3, <3>2, <3>3, <3>4, <3>5, <3>6, <3>7, <3>8
  <2>2. CASE ~opens
    <3>1. PICK s : s = [p EXCEPT !.at = "cleanup", !.printed.is = "failed"]
      OBVIOUS
    <3>2. /\ p.at = "gather" /\ UNCHANGED <<jsonBuild, name, files>>
          /\ shot' = [shot EXCEPT ![r] = s]
      BY <1>1, <1>9, <2>2, <3>1 DEF Shot!SaveOpens, Shot!Moves
    <3>3. p.at \notin Ends
      BY <3>2 DEF Ends
    <3>4. p.printed = [is |-> "nothing", doc |-> NoRows]
      BY <1>2, <3>2 DEF Ordered
    <3>5. s = [at |-> "cleanup", todo |-> p.todo, doc |-> p.doc, got |-> p.got, fd |-> p.fd,
               printed |-> [is |-> "failed", doc |-> NoRows], alone |-> p.alone,
               kept |-> p.kept]
      <4>1. [p.printed EXCEPT !.is = "failed"] = [is |-> "failed", doc |-> NoRows]
        BY <3>4
      <4>2. s = [at |-> "cleanup", todo |-> p.todo, doc |-> p.doc, got |-> p.got, fd |-> p.fd,
                 printed |-> [p.printed EXCEPT !.is = "failed"], alone |-> p.alone,
                 kept |-> p.kept]
        BY <1>2, <3>1
      <4> QED
        BY <4>1, <4>2
    <3>6. Ordered(s)
      BY <1>2, <3>2, <3>5 DEF Ordered
    <3>7. OwnOnly(r, s, name', files')
      BY <1>2, <3>2, <3>5 DEF OwnOnly
    <3> QED
      BY <1>2, <1>3, <3>2, <3>3, <3>5, <3>6, <3>7
  <2> QED
    BY <2>1, <2>2
<1>10. ASSUME NEW throws \in BOOLEAN, Shot!SaveWrites(r, throws) PROVE ShotInv'
  <2>1. p.at = "write" /\ p.at \notin Ends /\ UNCHANGED <<jsonBuild, name>>
    BY <1>1, <1>10 DEF Shot!SaveWrites, Ends
  <2>2. p.printed = [is |-> "nothing", doc |-> NoRows] /\ (p.alone => name = p.fd)
    BY <1>2, <2>1 DEF Ordered, OwnOnly
  <2>3. CASE throws
    <3>1. PICK s : s = [p EXCEPT !.at = "cleanup", !.fd = "none", !.printed.is = "failed"]
      OBVIOUS
    <3>2. UNCHANGED files /\ shot' = [shot EXCEPT ![r] = s]
      BY <1>1, <1>10, <2>3, <3>1 DEF Shot!SaveWrites, Shot!Moves
    <3>3. s = [at |-> "cleanup", todo |-> p.todo, doc |-> p.doc, got |-> p.got, fd |-> "none",
               printed |-> [is |-> "failed", doc |-> NoRows], alone |-> p.alone,
               kept |-> p.kept]
      <4>1. [p.printed EXCEPT !.is = "failed"] = [is |-> "failed", doc |-> NoRows]
        BY <2>2
      <4>2. s = [at |-> "cleanup", todo |-> p.todo, doc |-> p.doc, got |-> p.got, fd |-> "none",
                 printed |-> [p.printed EXCEPT !.is = "failed"], alone |-> p.alone,
                 kept |-> p.kept]
        BY <1>2, <3>1
      <4> QED
        BY <4>1, <4>2
    <3>4. Ordered(s)
      BY <1>2, <3>3 DEF Ordered
    <3>5. OwnOnly(r, s, name', files')
      BY <1>2, <2>1, <3>2, <3>3 DEF OwnOnly
    <3> QED
      BY <1>2, <1>3, <2>1, <3>2, <3>3, <3>4, <3>5
  <2>4. CASE ~throws
    <3>1. PICK s : s = [p EXCEPT !.at = "print", !.fd = "none"]
      OBVIOUS
    <3>2. /\ files' = [files EXCEPT ![p.fd] = Document(p.doc)]
          /\ shot' = [shot EXCEPT ![r] = s]
      <4>1. s = [p EXCEPT !.at = "print", !.fd = "none", !.printed.is = p.printed.is]
        BY <1>2, <2>2, <3>1
      <4> QED
        BY <1>1, <1>10, <2>4, <4>1 DEF Shot!SaveWrites, Shot!Moves, Shot!Json, Document
    <3>3. s = [at |-> "print", todo |-> p.todo, doc |-> p.doc, got |-> p.got, fd |-> "none",
               printed |-> p.printed, alone |-> p.alone, kept |-> p.kept]
      BY <1>2, <3>1
    <3>4. Ordered(s)
      BY <1>2, <2>1, <3>3 DEF Ordered
    <3>5. p.alone => name' \in FileNames /\ files'[name'] = Document(p.doc)
      BY <1>2, <2>1, <2>2, <3>2, OneShotAssumption DEF Ordered, FileNames
    <3>6. OwnOnly(r, s, name', files')
      BY <1>2, <2>1, <3>3, <3>5 DEF OwnOnly
    <3>7. files' = [g \in FileNames |-> files'[g]]
      BY <1>2, <3>2
    <3>8. \A g \in FileNames : files'[g].doc \in Documents
      BY <1>2, <3>2 DEF Document
    <3> QED
      BY <1>2, <1>3, <2>1, <3>2, <3>3, <3>4, <3>6, <3>7, <3>8
  <2> QED
    BY <2>3, <2>4
<1> QED
  BY <1>4, <1>5, <1>6, <1>7, <1>8, <1>9, <1>10

(* What is promised follows: the document that is printed is what was      *)
(* gathered, or with a kept file holds it.                                 *)
LEMMA ShotInvIsOwn ==
  ASSUME ShotInv
  PROVE  OwnDataPrinted
<1> SUFFICES ASSUME NEW r \in Runs, shot[r].at = "done", shot[r].alone
             PROVE  \/ shot[r].printed.is = "failed"
                    \/ ~shot[r].kept /\ shot[r].printed = Document(shot[r].got)
                    \/ /\ shot[r].kept /\ shot[r].printed.is = "json"
                       /\ Shot!Holds(shot[r].printed.doc, shot[r].got)
  BY DEF OwnDataPrinted, Shot!OwnDataPrinted, Shot!Json, Document
<1>1. PICK p : p = shot[r]
  OBVIOUS
<1>2. /\ p.printed.is = "failed" \/ p.printed = Document(p.doc)
      /\ p.kept \/ p.doc = p.got
      /\ Shot!Holds(p.doc, p.got)
  BY <1>1 DEF ShotInv, OwnOnly
<1>3. Document(p.doc).is = "json" /\ Document(p.doc).doc = p.doc
  BY DEF Document
<1> QED
  BY <1>1, <1>2, <1>3

(* However many processes there are, what they find and where they end: a  *)
(* process beside which no other runs prints what it gathered, all of it   *)
(* and nothing else, or that it failed; with a file in its way that it     *)
(* could not remove it prints at least what it gathered, or fails          *)
(* (main()'s --json mode with ConfigManager).                              *)
THEOREM OwnPrinted == ReadingsSpec => []OwnDataPrinted
<1>1. ReadingsInit => ShotInv
  BY ShotStarts DEF ReadingsInit
<1>2. ShotInv /\ [ReadingsNext]_allVars => ShotInv'
  <2> SUFFICES ASSUME ShotInv, [ReadingsNext]_allVars PROVE ShotInv'
    OBVIOUS
  <2>1. CASE ShotSteps
    <3>1. PICK r \in Runs :
            \/ \E b \in BOOLEAN : \/ Shot!Starts(r, b) \/ Shot!RemoveTmp(r, b) \/ Shot!Load(r, b)
                                  \/ Shot!SaveOpens(r, b) \/ Shot!SaveWrites(r, b)
                                  \/ Shot!CleansUp(r, b)
            \/ Shot!Prints(r) \/ Shot!Crash(r)
            \/ \E n \in 0..MaxRowsOfSection : Shot!Gather(r, n)
      BY <2>1 DEF ShotSteps, Shot!OneShotNext
    <3>2. \A n \in 0..MaxRowsOfSection : n \in Nat
      OBVIOUS
    <3> QED
      BY ONLY ShotInv, <3>1, <3>2, StartsKeeps, GatherKeeps, ActiveStepKeeps
  <2>2. CASE ~ShotSteps
    <3>1. UNCHANGED shotVars
      BY <2>2 DEF ReadingsNext, allVars, LockSteps, McpSteps, SchemaSteps, BlockSteps, SampleSteps,
                  ScreenSteps, TempsSteps
    <3> QED
      BY <3>1 DEF shotVars, ShotInv
  <2> QED
    BY <2>1, <2>2
<1>3. ShotInv => OwnDataPrinted
  BY ShotInvIsOwn
<1> QED
  BY <1>1, <1>2, <1>3, PTL DEF ReadingsSpec

-----------------------------------------------------------------------------
(* Block.  What a slot says is right field by field: of the slots after a  *)
(* publication that was complete, and of those fields the client has read  *)
(* while the block said the same.                                          *)

\* The key, the name and the attributes of slot i are those of row i, if there is one.
KeyOk(i, x) ==
  /\ i \in DOMAIN Lists!Expected => x = Lists!Expected[i]
  /\ publisher = "windows" /\ list \in {"disks", "phys"} /\ i \notin DOMAIN Lists!Expected => x = 0

NameOk(i, x) ==
  i \in DOMAIN Lists!Expected =>
    LET d == Lists!Expected[i] IN
    /\ \A k \in 1..2 : Lists!Name(d)[k] # 0 => x[k] = d
    /\ publisher = "windows" \/ list # "phys" => x = Lists!Name(d)

AttrsOk(i, x) ==
  i \in DOMAIN Lists!Expected =>
    LET d == Lists!Expected[i] IN
    /\ list = "phys" /\ d \in WithAttrs \ BigAttrs => x = d
    /\ list = "phys" /\ d \notin WithAttrs /\ publisher = "windows" => x = 0

SlotsOk == \A i \in 1..Capacity : /\ KeyOk(i, slots[i].key) /\ NameOk(i, slots[i].name)
                                 /\ AttrsOk(i, slots[i].attrs)

\* The fields before the cursor: three of a slot, the name first.
ReadOk == \A i \in 1..Capacity :
            /\ 3 * (i - 1) < cursor => NameOk(i, view[i].name)
            /\ 3 * (i - 1) + 1 < cursor => KeyOk(i, view[i].key)
            /\ 3 * (i - 1) + 2 < cursor => AttrsOk(i, view[i].attrs)

BlockInv ==
  /\ hardware \in Seq(Items)
  /\ cursor \in Int
  /\ view = [i \in 1..Capacity |-> view[i]]
  /\ \A i \in 1..Capacity : view[i] = [name |-> view[i].name, key |-> view[i].key,
                                      attrs |-> view[i].attrs]
  /\ whole \in BOOLEAN /\ steady \in BOOLEAN
  /\ whole => SlotsOk
  /\ steady => whole /\ ReadOk

(* Fitting() cuts a list at the capacity. *)
LEMMA FittingIs ==
  ASSUME NEW X, NEW s \in Seq(X)
  PROVE  /\ Lists!Fitting(s) \in Seq(X) /\ Len(Lists!Fitting(s)) \in Nat
         /\ DOMAIN Lists!Fitting(s) = 1..Len(Lists!Fitting(s))
         /\ Len(Lists!Fitting(s)) <= Capacity
<1>1. PICK m : m = Lists!Min2(Len(s), Capacity)
  OBVIOUS
<1>2. m \in Nat /\ m <= Len(s) /\ m <= Capacity /\ Len(s) \in Nat
  BY <1>1, SlotsAssumption DEF Lists!Min2
<1>3. Lists!Fitting(s) = SubSeq(s, 1, m)
  BY <1>1 DEF Lists!Fitting
<1>4. SubSeq(s, 1, m) \in Seq(X) /\ Len(SubSeq(s, 1, m)) = m
  BY <1>2
<1> QED
  BY <1>2, <1>3, <1>4

(* The lists of the hardware are lists. *)
LEMMA HardwareIsList ==
  ASSUME NEW hw \in Lists!Lists
  PROVE  hw \in Seq(Items)
<1>1. PICK n \in 0..MaxRows : hw \in [1..n -> Items]
  BY DEF Lists!Lists
<1>2. n \in Nat
  OBVIOUS
<1> QED
  BY <1>1, <1>2, SeqDef

(* Lists of elements come out of the choice of those that are connected.   *)
LEMMA ConnectedIsList ==
  ASSUME NEW hw \in Seq(Items)
  PROVE  Lists!Selected(hw, Connected) \in Seq(Items)
<1>1. Lists!Selected(hw, Connected) = Selected(hw, Connected)
  BY DEF Lists!Selected, Selected
<1> QED
  BY <1>1, SelectedIsGood

(* The client and the publisher start within the invariant. *)
LEMMA BlockStarts ==
  ASSUME Lists!BlockInit
  PROVE  BlockInv
<1>1. /\ hardware = << >> /\ ~whole /\ whole \in BOOLEAN /\ ~steady /\ steady \in BOOLEAN
      /\ cursor = -1 /\ view = Lists!IPCDataBlock
  BY DEF Lists!BlockInit
<1>a. hardware \in Seq(Items) /\ cursor \in Int
  BY <1>1
<1>2. /\ view = [i \in 1..Capacity |-> view[i]]
      /\ \A i \in 1..Capacity : view[i] = [name |-> view[i].name, key |-> view[i].key,
                                          attrs |-> view[i].attrs]
  BY <1>1 DEF Lists!IPCDataBlock, Lists!DiskSlot
<1> QED
  BY <1>1, <1>a, <1>2 DEF BlockInv

(* On macOS the rows go into the first slots, over what was there. *)
LEMMA MacPublishKeeps ==
  ASSUME BlockInv, NEW hw \in Lists!Lists, Lists!MacPublish(hw)
  PROVE  BlockInv'
<1>1. PICK rows : rows = IF list = "adapters" THEN Lists!MacAdapters(hw) ELSE Lists!Fitting(hw)
  OBVIOUS
<1>2. /\ publisher = "mac" /\ UNCHANGED <<publisher, list, cursor, view>>
      /\ hardware' = hw /\ whole' = TRUE /\ steady' = (steady /\ TRUE /\ hw = hardware)
      /\ slots' = [i \in 1..Capacity |->
                     IF i > Len(rows) THEN slots[i]
                     ELSE IF list = "phys" THEN Lists!MacPhysDisk(slots[i], rows[i])
                     ELSE Lists!MacRow(rows[i])]
  BY <1>1 DEF Lists!MacPublish, Lists!Published
<1>3. hw \in Seq(Items)
  BY HardwareIsList
<1>4. Lists!Expected' = rows
  BY <1>1, <1>2 DEF Lists!Expected, Lists!MacAdapters
<1>5. Len(rows) \in Nat /\ DOMAIN rows = 1..Len(rows) /\ Len(rows) <= Capacity
  BY <1>1, <1>3, ConnectedIsList, FittingIs DEF Lists!MacAdapters
<1>6. ASSUME NEW i \in 1..Capacity
      PROVE (KeyOk(i, slots[i].key) /\ NameOk(i, slots[i].name) /\ AttrsOk(i, slots[i].attrs))'
  <2>1. CASE i \notin DOMAIN rows
    BY <1>2, <1>4, <2>1 DEF KeyOk, NameOk, AttrsOk
  <2>2. CASE i \in DOMAIN rows
    <3>1. PICK d, x : d = rows[i] /\ x = slots'[i]
      OBVIOUS
    <3>2. x = IF list = "phys" THEN Lists!MacPhysDisk(slots[i], d) ELSE Lists!MacRow(d)
      BY <1>2, <1>5, <2>2, <3>1
    <3>3. x.key = d
      BY <3>2 DEF Lists!MacPhysDisk, Lists!MacRow
    <3>4. \A k \in 1..2 : Lists!Name(d)[k] # 0 => x.name[k] = d
      <4>1. \A k \in 1..2 : Lists!Name(d)[k] # 0 => Lists!Name(d)[k] = d
        BY DEF Lists!Name, Lists!None
      <4>2. \A k \in 1..2 : Lists!Name(d)[k] # 0 => x.name[k] = Lists!Name(d)[k]
        BY <3>2 DEF Lists!MacPhysDisk, Lists!MacRow, Lists!None
      <4> QED
        BY <4>1, <4>2
    <3>5. list # "phys" => x.name = Lists!Name(d)
      BY <3>2 DEF Lists!MacRow
    <3>6. list = "phys" /\ d \in WithAttrs \ BigAttrs => x.attrs = d
      BY <3>2 DEF Lists!MacPhysDisk
    <3> QED
      BY <1>2, <1>4, <2>2, <3>1, <3>3, <3>4, <3>5, <3>6 DEF KeyOk, NameOk, AttrsOk
  <2> QED
    BY <2>1, <2>2
<1>7. SlotsOk'
  BY <1>6 DEF SlotsOk
<1>8. ASSUME steady' PROVE ReadOk'
  <2>1. steady /\ hw = hardware
    BY <1>2, <1>8
  <2>2. UNCHANGED <<hardware, publisher, list, cursor, view>>
    BY <1>2, <2>1
  <2> QED
    BY <2>1, <2>2 DEF BlockInv, ReadOk, KeyOk, NameOk, AttrsOk, Lists!Expected
<1> QED
  BY <1>2, <1>3, <1>7, <1>8 DEF BlockInv

(* On Windows the rows go into slots that were cleared; if not all of them *)
(* do, nothing is promised of the block.                                   *)
LEMMA WindowsPublishKeeps ==
  ASSUME BlockInv, NEW hw \in Lists!Lists, NEW n \in 0..Capacity, Lists!WindowsPublish(hw, n)
  PROVE  BlockInv'
<1>1. PICK rows : rows = IF list = "adapters" THEN Lists!WindowsAdapters(hw) ELSE Lists!Fitting(hw)
  OBVIOUS
<1>2. /\ publisher = "windows" /\ UNCHANGED <<publisher, list, cursor, view>>
      /\ hardware' = hw /\ whole' = (n = Len(rows))
      /\ steady' = (steady /\ n = Len(rows) /\ hw = hardware)
      /\ slots' = [i \in 1..Capacity |-> IF i <= n THEN Lists!WindowsRow(rows[i])
                                        ELSE Lists!WindowsClear(slots[i])]
  BY <1>1 DEF Lists!WindowsPublish, Lists!Published
<1>3. hw \in Seq(Items)
  BY HardwareIsList
<1>4. PICK e : e = Lists!Fitting(hw)
  OBVIOUS
<1>5. /\ e \in Seq(Items) /\ Len(e) \in Nat /\ DOMAIN e = 1..Len(e) /\ Len(e) <= Capacity
  BY <1>3, <1>4, FittingIs
<1>6. Lists!Expected' = e
  BY <1>2, <1>4 DEF Lists!Expected
<1>7. e = << >> \/ rows = e
  <2>1. CASE hw = << >>
    <3>1. Len(e) = 0
      <4>1. Lists!Fitting(hw) = SubSeq(hw, 1, 0)
        BY <2>1, SlotsAssumption DEF Lists!Fitting, Lists!Min2
      <4> QED
        BY <1>3, <1>4, <4>1
    <3> QED
      BY <1>5, <3>1
  <2>2. CASE hw # << >>
    BY <1>1, <1>4, <2>2 DEF Lists!WindowsAdapters
  <2> QED
    BY <2>1, <2>2
<1>8. list \in {"disks", "phys"} => rows = e
  BY <1>1, <1>4
<1>9. ASSUME n = Len(rows), NEW i \in 1..Capacity
      PROVE (KeyOk(i, slots[i].key) /\ NameOk(i, slots[i].name) /\ AttrsOk(i, slots[i].attrs))'
  <2>1. CASE i \notin DOMAIN e
    <3>1. list \in {"disks", "phys"} => slots'[i] = Lists!DiskSlot
      BY <1>2, <1>5, <1>8, <1>9, <2>1 DEF Lists!WindowsClear
    <3>2. list \in {"disks", "phys"} => slots'[i].key = 0
      BY <3>1 DEF Lists!DiskSlot, Lists!None
    <3> QED
      BY <1>2, <1>6, <2>1, <3>2 DEF KeyOk, NameOk, AttrsOk
  <2>2. CASE i \in DOMAIN e
    <3>1. PICK d, x : d = e[i] /\ x = slots'[i]
      OBVIOUS
    <3>2. rows = e
      BY <1>5, <1>7, <2>2
    <3>3. x = Lists!WindowsRow(d)
      BY <1>2, <1>5, <1>9, <2>2, <3>1, <3>2
    <3>4. x.key = d /\ x.name = Lists!Name(d)
      BY <3>3 DEF Lists!WindowsRow
    <3>5. \A k \in 1..2 : Lists!Name(d)[k] # 0 => Lists!Name(d)[k] = d
      BY DEF Lists!Name, Lists!None
    <3>6. /\ list = "phys" /\ d \in WithAttrs \ BigAttrs => x.attrs = d
          /\ list = "phys" /\ d \notin WithAttrs => x.attrs = 0
      BY <3>3 DEF Lists!WindowsRow, Lists!None
    <3> QED
      BY <1>2, <1>6, <2>2, <3>1, <3>4, <3>5, <3>6 DEF KeyOk, NameOk, AttrsOk
  <2> QED
    BY <2>1, <2>2
<1>10. whole' => SlotsOk'
  BY <1>2, <1>9 DEF SlotsOk
<1>11. ASSUME steady' PROVE whole' /\ ReadOk'
  <2>1. steady /\ hw = hardware /\ n = Len(rows)
    BY <1>2, <1>11
  <2>2. UNCHANGED <<hardware, publisher, list, cursor, view>>
    BY <1>2, <2>1
  <2>3. ReadOk'
    BY <2>1, <2>2 DEF BlockInv, ReadOk, KeyOk, NameOk, AttrsOk, Lists!Expected
  <2> QED
    BY <1>2, <2>1, <2>3
<1>12. whole' \in BOOLEAN /\ steady' \in BOOLEAN
  BY <1>2
<1> QED
  BY <1>2, <1>3, <1>10, <1>11, <1>12 DEF BlockInv

(* The client reads the next field. *)
LEMMA MapFieldKeeps ==
  ASSUME BlockInv, Lists!MapFieldOf
  PROVE  BlockInv'
<1>1. PICK c, i : c = cursor /\ i = c \div 3 + 1
  OBVIOUS
<1>2. Len(Lists!SlotFields) = 3
  BY DEF Lists!SlotFields
<1>3. PICK f : f = Lists!SlotFields[(c % 3) + 1]
  OBVIOUS
<1>4. /\ steady /\ c \in 0..Capacity * 3 - 1 /\ cursor' = c + 1
      /\ view' = [view EXCEPT ![i][f] = slots[i][f]]
      /\ UNCHANGED <<publisher, list, slots, hardware, whole, steady>>
  BY <1>1, <1>2, <1>3 DEF Lists!MapFieldOf, Lists!LastField
<1>5. i \in 1..Capacity /\ c \in Nat /\ c = 3 * (i - 1) + (c % 3) /\ c % 3 \in 0..2
  BY <1>1, <1>4, SlotsAssumption
<1>6. /\ c % 3 = 0 => f = "name"
      /\ c % 3 = 1 => f = "key"
      /\ c % 3 = 2 => f = "attrs"
  BY <1>3 DEF Lists!SlotFields
<1>7. f \in {"name", "key", "attrs"}
  BY <1>5, <1>6
<1>8. /\ view' = [j \in 1..Capacity |-> view'[j]]
      /\ \A j \in 1..Capacity : j # i => view'[j] = view[j]
      /\ view'[i] = [view[i] EXCEPT ![f] = slots[i][f]]
  BY <1>4, <1>5 DEF BlockInv
<1>9. view[i] = [name |-> view[i].name, key |-> view[i].key, attrs |-> view[i].attrs]
  BY <1>5 DEF BlockInv
<1>10. /\ view'[i] = [name |-> view'[i].name, key |-> view'[i].key, attrs |-> view'[i].attrs]
       /\ view'[i].name = IF f = "name" THEN slots[i].name ELSE view[i].name
       /\ view'[i].key = IF f = "key" THEN slots[i].key ELSE view[i].key
       /\ view'[i].attrs = IF f = "attrs" THEN slots[i].attrs ELSE view[i].attrs
  BY <1>7, <1>8, <1>9
<1>11. SlotsOk
  BY <1>4 DEF BlockInv
<1>12. ASSUME NEW j \in 1..Capacity
       PROVE  /\ 3 * (j - 1) < c + 1 => NameOk(j, view'[j].name)
              /\ 3 * (j - 1) + 1 < c + 1 => KeyOk(j, view'[j].key)
              /\ 3 * (j - 1) + 2 < c + 1 => AttrsOk(j, view'[j].attrs)
  <2>1. /\ 3 * (j - 1) < c => NameOk(j, view[j].name)
        /\ 3 * (j - 1) + 1 < c => KeyOk(j, view[j].key)
        /\ 3 * (j - 1) + 2 < c => AttrsOk(j, view[j].attrs)
    BY <1>1, <1>4 DEF BlockInv, ReadOk
  <2>2. KeyOk(j, slots[j].key) /\ NameOk(j, slots[j].name) /\ AttrsOk(j, slots[j].attrs)
    BY <1>11 DEF SlotsOk
  <2>3. CASE j # i
    <3>1. /\ 3 * (j - 1) < c + 1 => 3 * (j - 1) < c
          /\ 3 * (j - 1) + 1 < c + 1 => 3 * (j - 1) + 1 < c
          /\ 3 * (j - 1) + 2 < c + 1 => 3 * (j - 1) + 2 < c
      BY <1>5, <2>3
    <3> QED
      BY <1>8, <2>1, <2>3, <3>1
  <2>4. CASE j = i
    <3>1. /\ f # "name" => 3 * (i - 1) < c
          /\ 3 * (i - 1) + 1 < c + 1 /\ f # "key" => 3 * (i - 1) + 1 < c
          /\ 3 * (i - 1) + 2 < c + 1 /\ f # "attrs" => 3 * (i - 1) + 2 < c
      BY <1>5, <1>6
    <3> QED
      BY <1>10, <2>1, <2>2, <2>4, <3>1
  <2> QED
    BY <2>3, <2>4
<1>13. ReadOk'
  BY <1>4, <1>12 DEF ReadOk, NameOk, KeyOk, AttrsOk, Lists!Expected
<1>14. SlotsOk'
  BY <1>4, <1>11 DEF SlotsOk, NameOk, KeyOk, AttrsOk, Lists!Expected
<1>15. \A j \in 1..Capacity : view'[j] = [name |-> view'[j].name, key |-> view'[j].key,
                                         attrs |-> view'[j].attrs]
  BY <1>8, <1>10 DEF BlockInv
<1>16. hardware' \in Seq(Items)
  BY <1>4 DEF BlockInv
<1>17. cursor' \in Int
  BY <1>4, <1>5
<1>18. whole' \in BOOLEAN /\ steady' \in BOOLEAN
  BY <1>4 DEF BlockInv
<1>19. steady' => whole'
  BY <1>4 DEF BlockInv
<1> QED
  BY <1>8, <1>13, <1>14, <1>15, <1>16, <1>17, <1>18, <1>19 DEF BlockInv

(* Every step of the publisher and the client keeps the invariant. *)
LEMMA BlockStep ==
  ASSUME BlockInv, Lists!BlockNext
  PROVE  BlockInv'
<1>1. CASE \E exists \in BOOLEAN : Lists!InitSharedMemory(exists)
  <2>1. /\ hardware' = << >> /\ whole' = FALSE /\ steady' = FALSE
        /\ UNCHANGED <<publisher, list, cursor, view>>
    BY <1>1 DEF Lists!InitSharedMemory
  <2>2. hardware' \in Seq(Items)
    BY <2>1
  <2>3. whole' \in BOOLEAN /\ steady' \in BOOLEAN
    BY <2>1, Zenon
  <2>4. ~whole' /\ ~steady'
    BY <2>1, Zenon
  <2> QED
    BY <2>1, <2>2, <2>3, <2>4 DEF BlockInv
<1>2. CASE Lists!BeginMap
  <2>1. /\ cursor' = 0 /\ view' = Lists!IPCDataBlock /\ steady' = whole
        /\ UNCHANGED <<publisher, list, slots, hardware, whole>>
    BY <1>2 DEF Lists!BeginMap
  <2>2. /\ view' = [i \in 1..Capacity |-> view'[i]]
        /\ \A i \in 1..Capacity : view'[i] = [name |-> view'[i].name, key |-> view'[i].key,
                                             attrs |-> view'[i].attrs]
    BY <2>1 DEF Lists!IPCDataBlock, Lists!DiskSlot
  <2>3. ReadOk'
    <3>1. ASSUME NEW i \in 1..Capacity
          PROVE ~(3 * (i - 1) < 0) /\ ~(3 * (i - 1) + 1 < 0) /\ ~(3 * (i - 1) + 2 < 0)
      OBVIOUS
    <3> QED
      BY <2>1, <3>1 DEF ReadOk
  <2>4. whole => SlotsOk'
    BY <2>1 DEF BlockInv, SlotsOk, NameOk, KeyOk, AttrsOk, Lists!Expected
  <2>5. whole \in BOOLEAN /\ steady' \in BOOLEAN /\ (steady' => whole) /\ cursor' \in Int
    BY <2>1 DEF BlockInv
  <2>6. whole' \in BOOLEAN /\ (whole' <=> whole)
    BY <2>1, <2>5
  <2>7. hardware' \in Seq(Items)
    BY <2>1 DEF BlockInv
  <2> QED
    BY <2>2, <2>3, <2>4, <2>5, <2>6, <2>7 DEF BlockInv
<1> QED
  BY <1>1, <1>2, MacPublishKeeps, WindowsPublishKeeps, MapFieldKeeps DEF Lists!BlockNext

(* A client that has read all slots shows what there was. *)
LEMMA BlockInvShows ==
  ASSUME BlockInv
  PROVE  PublishedIsShown
<1>0. SUFFICES ASSUME Lists!ReadAll PROVE
        /\ \A i \in DOMAIN Lists!Expected :
             LET d == Lists!Expected[i] IN
             /\ i \in Lists!Shown /\ view[i].key = d
             /\ \A k \in 1..2 : Lists!Name(d)[k] # 0 => view[i].name[k] = d
             /\ publisher = "windows" \/ list # "phys" => view[i].name = Lists!Name(d)
             /\ list = "phys" /\ d \in WithAttrs \ BigAttrs => view[i].attrs = d
             /\ list = "phys" /\ d \notin WithAttrs /\ publisher = "windows" => view[i].attrs = 0
        /\ publisher = "windows" /\ list \in {"disks", "phys"}
             => Lists!Shown = DOMAIN Lists!Expected
  BY DEF PublishedIsShown, Lists!PublishedIsShown, Lists!None
<1>1. Len(Lists!SlotFields) = 3
  BY DEF Lists!SlotFields
<1>2. steady /\ cursor = Capacity * 3
  BY <1>0, <1>1 DEF Lists!ReadAll, Lists!LastField
<1>3. ASSUME NEW i \in 1..Capacity
      PROVE KeyOk(i, view[i].key) /\ NameOk(i, view[i].name) /\ AttrsOk(i, view[i].attrs)
  <2>1. 3 * (i - 1) < Capacity * 3 /\ 3 * (i - 1) + 1 < Capacity * 3 /\ 3 * (i - 1) + 2 < Capacity * 3
    BY SlotsAssumption
  <2> QED
    BY <1>2, <2>1 DEF BlockInv, ReadOk
<1>4. PICK e : e = Lists!Expected
  OBVIOUS
<1>5. e \in Seq(Items) /\ DOMAIN e \subseteq 1..Capacity
  <2>1. hardware \in Seq(Items) /\ Lists!Selected(hardware, Connected) \in Seq(Items)
    BY ConnectedIsList DEF BlockInv
  <2> QED
    BY <1>4, <2>1, FittingIs, SlotsAssumption DEF Lists!Expected
<1>6. ASSUME NEW i \in DOMAIN e
      PROVE i \in Lists!Shown /\ view[i].key = e[i]
  <2>1. i \in 1..Capacity /\ e[i] \in Items /\ e[i] # 0
    BY <1>5, SlotsAssumption
  <2>2. view[i].key = e[i]
    BY <1>3, <1>4, <2>1 DEF KeyOk
  <2> QED
    BY <2>1, <2>2 DEF Lists!Shown, Lists!None
<1>7. ASSUME publisher = "windows", list \in {"disks", "phys"}
      PROVE Lists!Shown = DOMAIN e
  <2>1. \A i \in 1..Capacity : i \notin DOMAIN e => view[i].key = 0
    BY <1>3, <1>4, <1>7 DEF KeyOk
  <2> QED
    BY <1>5, <1>6, <1>7, <2>1 DEF Lists!Shown, Lists!None
<1>8. ASSUME NEW i \in DOMAIN e
      PROVE NameOk(i, view[i].name) /\ AttrsOk(i, view[i].attrs)
  BY <1>3, <1>5
<1> QED
  BY <1>4, <1>6, <1>7, <1>8 DEF NameOk, AttrsOk

(* Whatever the hardware, the capacity and what the slots held: a client   *)
(* that reads the block while it says the same shows each row with its own *)
(* name and attributes (WriteToSharedMemory(), the macOS publisher and     *)
(* MapToSystemInfo).                                                       *)
THEOREM PublishedShown == ReadingsSpec => []PublishedIsShown
<1>1. ReadingsInit => BlockInv
  BY BlockStarts DEF ReadingsInit
<1>2. BlockInv /\ [ReadingsNext]_allVars => BlockInv'
  <2> SUFFICES ASSUME BlockInv, [ReadingsNext]_allVars PROVE BlockInv'
    OBVIOUS
  <2>1. CASE BlockSteps
    BY <2>1, BlockStep DEF BlockSteps
  <2>2. CASE ~BlockSteps
    <3>1. UNCHANGED blockVars
      BY <2>2 DEF ReadingsNext, allVars, LockSteps, McpSteps, ShotSteps, SchemaSteps, SampleSteps,
                  ScreenSteps, TempsSteps
    <3> QED
      BY <3>1 DEF blockVars, BlockInv, SlotsOk, ReadOk, KeyOk, NameOk, AttrsOk, Lists!Expected
  <2> QED
    BY <2>1, <2>2
<1>3. BlockInv => PublishedIsShown
  BY BlockInvShows
<1> QED
  BY <1>1, <1>2, <1>3, PTL DEF ReadingsSpec

-----------------------------------------------------------------------------
(* Sample: the steps of a turn.                                            *)

(* The place of an element in a list that has it once. *)
LEMMA PlaceIs ==
  ASSUME NEW turn, NEW i \in DOMAIN turn,
         \A j \in DOMAIN turn : turn[j] = turn[i] => j = i
  PROVE  (CHOOSE j \in DOMAIN turn : turn[j] = turn[i]) = i
<1> DEFINE c == CHOOSE j \in DOMAIN turn : turn[j] = turn[i]
<1>1. c \in DOMAIN turn /\ turn[c] = turn[i]
  OBVIOUS
<1> QED
  BY <1>1

(* NextStep is the step after the one there is. *)
LEMMA NextStepIs ==
  ASSUME NEW turn, turn = Turn!Steps[build], NEW i \in DOMAIN turn, step = turn[i],
         \A j \in DOMAIN turn : turn[j] = turn[i] => j = i
  PROVE  Turn!NextStep = IF i = Len(turn) THEN "end" ELSE turn[i + 1]
BY PlaceIs DEF Turn!NextStep

(* The turn of macOS, step by step. *)
LEMMA TurnMac ==
  ASSUME build = "mac"
  PROVE  /\ step = "snapshot" => Turn!NextStep = "gpu"
         /\ step = "gpu" => Turn!NextStep = "wifi"
         /\ step = "wifi" => Turn!NextStep = "sensors"
         /\ step = "sensors" => Turn!NextStep = "tui"
         /\ step = "tui" => Turn!NextStep = "block"
         /\ step = "block" => Turn!NextStep = "history"
         /\ step = "history" => Turn!NextStep = "end"
<1> DEFINE L == Turn!StepsMac
<1>1. /\ Turn!Steps[build] = L /\ DOMAIN L = 1..7 /\ Len(L) = 7
      /\ L[1] = "snapshot"
      /\ L[2] = "gpu"
      /\ L[3] = "wifi"
      /\ L[4] = "sensors"
      /\ L[5] = "tui"
      /\ L[6] = "block"
      /\ L[7] = "history"
  BY DEF Turn!Steps, Turn!StepsMac
<1> HIDE DEF L
<1>2. \A i, j \in DOMAIN L : L[j] = L[i] => j = i
  BY <1>1
<1>3. ASSUME NEW i \in DOMAIN L, step = L[i]
      PROVE  Turn!NextStep = IF i = Len(L) THEN "end" ELSE L[i + 1]
  <2>1. L = Turn!Steps[build] /\ \A j \in DOMAIN L : L[j] = L[i] => j = i
    BY <1>1, <1>2
  <2> QED
    BY <1>3, <2>1, NextStepIs
<1>4. /\ step = L[1] => Turn!NextStep = L[2]
      /\ step = L[2] => Turn!NextStep = L[3]
      /\ step = L[3] => Turn!NextStep = L[4]
      /\ step = L[4] => Turn!NextStep = L[5]
      /\ step = L[5] => Turn!NextStep = L[6]
      /\ step = L[6] => Turn!NextStep = L[7]
      /\ step = L[7] => Turn!NextStep = "end"
  BY <1>1, <1>3
<1> QED
  BY <1>1, <1>4

(* The turn of Linux, step by step. *)
LEMMA TurnLinux ==
  ASSUME build = "linux"
  PROVE  /\ step = "snapshot" => Turn!NextStep = "gpu"
         /\ step = "gpu" => Turn!NextStep = "wifi"
         /\ step = "wifi" => Turn!NextStep = "tui"
         /\ step = "tui" => Turn!NextStep = "history"
         /\ step = "history" => Turn!NextStep = "end"
<1> DEFINE L == Turn!StepsLinux
<1>1. /\ Turn!Steps[build] = L /\ DOMAIN L = 1..5 /\ Len(L) = 5
      /\ L[1] = "snapshot"
      /\ L[2] = "gpu"
      /\ L[3] = "wifi"
      /\ L[4] = "tui"
      /\ L[5] = "history"
  BY DEF Turn!Steps, Turn!StepsLinux
<1> HIDE DEF L
<1>2. \A i, j \in DOMAIN L : L[j] = L[i] => j = i
  BY <1>1
<1>3. ASSUME NEW i \in DOMAIN L, step = L[i]
      PROVE  Turn!NextStep = IF i = Len(L) THEN "end" ELSE L[i + 1]
  <2>1. L = Turn!Steps[build] /\ \A j \in DOMAIN L : L[j] = L[i] => j = i
    BY <1>1, <1>2
  <2> QED
    BY <1>3, <2>1, NextStepIs
<1>4. /\ step = L[1] => Turn!NextStep = L[2]
      /\ step = L[2] => Turn!NextStep = L[3]
      /\ step = L[3] => Turn!NextStep = L[4]
      /\ step = L[4] => Turn!NextStep = L[5]
      /\ step = L[5] => Turn!NextStep = "end"
  BY <1>1, <1>3
<1> QED
  BY <1>1, <1>4

(* The turn of Windows, step by step. *)
LEMMA TurnWindows ==
  ASSUME build = "windows"
  PROVE  /\ step = "facts" => Turn!NextStep = "snapshot"
         /\ step = "snapshot" => Turn!NextStep = "gpu"
         /\ step = "gpu" => Turn!NextStep = "validate"
         /\ step = "validate" => Turn!NextStep = "fill"
         /\ step = "fill" => Turn!NextStep = "wifi"
         /\ step = "wifi" => Turn!NextStep = "raw"
         /\ step = "raw" => Turn!NextStep = "tui"
         /\ step = "tui" => Turn!NextStep = "block"
         /\ step = "block" => Turn!NextStep = "history"
         /\ step = "history" => Turn!NextStep = "end"
<1> DEFINE L == Turn!StepsWindows
<1>1. /\ Turn!Steps[build] = L /\ DOMAIN L = 1..10 /\ Len(L) = 10
      /\ L[1] = "facts"
      /\ L[2] = "snapshot"
      /\ L[3] = "gpu"
      /\ L[4] = "validate"
      /\ L[5] = "fill"
      /\ L[6] = "wifi"
      /\ L[7] = "raw"
      /\ L[8] = "tui"
      /\ L[9] = "block"
      /\ L[10] = "history"
  BY DEF Turn!Steps, Turn!StepsWindows
<1> HIDE DEF L
<1>2. \A i, j \in DOMAIN L : L[j] = L[i] => j = i
  BY <1>1
<1>3. ASSUME NEW i \in DOMAIN L, step = L[i]
      PROVE  Turn!NextStep = IF i = Len(L) THEN "end" ELSE L[i + 1]
  <2>1. L = Turn!Steps[build] /\ \A j \in DOMAIN L : L[j] = L[i] => j = i
    BY <1>1, <1>2
  <2> QED
    BY <1>3, <2>1, NextStepIs
<1>4. /\ step = L[1] => Turn!NextStep = L[2]
      /\ step = L[2] => Turn!NextStep = L[3]
      /\ step = L[3] => Turn!NextStep = L[4]
      /\ step = L[4] => Turn!NextStep = L[5]
      /\ step = L[5] => Turn!NextStep = L[6]
      /\ step = L[6] => Turn!NextStep = L[7]
      /\ step = L[7] => Turn!NextStep = L[8]
      /\ step = L[8] => Turn!NextStep = L[9]
      /\ step = L[9] => Turn!NextStep = L[10]
      /\ step = L[10] => Turn!NextStep = "end"
  BY <1>1, <1>3
<1> QED
  BY <1>1, <1>4

\* The steps of a build; the last steps of Windows, from validation to the history.
StepsOf(b) ==
  IF b = "mac" THEN {"snapshot", "gpu", "wifi", "sensors", "tui", "block", "history"}
  ELSE IF b = "linux" THEN {"snapshot", "gpu", "wifi", "tui", "history"}
  ELSE {"facts", "snapshot", "gpu", "validate", "fill", "wifi", "raw", "tui", "block", "history"}
Validated == {"fill", "wifi", "raw", "tui", "block", "history"}

SampleData ==
  [usage : {"ok", "off", "nan"}, used : {"ok", "off"}, freq : {"ok", "nan"},
   gpu : {"blank", "none", "card", "failed"}, vram : {"blank", "none", "percent", "clock"},
   wifi : {0, 1},
   facts : {"none", "known", "unknown"}]

InRange(d) == d.usage # "off" /\ d.used # "off" /\ d.freq # "nan"

SampleShape ==
  /\ build \in {"mac", "linux", "windows"} /\ step \in StepsOf(build) \cup {"end"}
  /\ known \in {"unset", "known", "unknown"} /\ gpuCache \in {"unset", "none", "card"}
  /\ wifi \in {0, 1} /\ sample \in SampleData /\ skipped \in BOOLEAN /\ served \in BOOLEAN
  /\ sinks \in [{"tui", "block", "history"} -> [data : SampleData, skipped : BOOLEAN]]

\* On Windows, what has been validated is in range, and so is what the sinks have.
SampleSound ==
  build = "windows" =>
    /\ step \in Validated => skipped \/ InRange(sample)
    /\ \A s \in {"tui", "block", "history"} : sinks[s].skipped \/ InRange(sinks[s].data)

\* What is shown of a sample.
Shown(b, d) ==
  IF b = "windows" /\ d.gpu # "card" THEN [d EXCEPT !.gpu = "blank", !.vram = "blank"] ELSE d

\* What the sinks have so far in this turn is the sample, and it changes no more.
SampleShared ==
  served =>
    /\ step \in {"block", "history"} => sinks["tui"].data = Shown(build, sample)
    /\ step = "history" /\ build # "linux" => sinks["block"].data = sample
    /\ step = "end" => /\ sinks["tui"].data = Shown(build, sinks["history"].data)
                       /\ build # "linux" => sinks["block"].data = sinks["history"].data

SampleInv == SampleShape /\ SampleSound /\ SampleShared

(* The step after a step. *)
LEMMA StepAfter ==
  ASSUME SampleShape, step # "end"
  PROVE  /\ Turn!NextStep \in StepsOf(build) \cup {"end"}
         /\ Turn!NextStep = "block" => step = "tui"
         /\ Turn!NextStep = "history" => step = "block" \/ (step = "tui" /\ build = "linux")
         /\ Turn!NextStep = "end" => step = "history"
         /\ build = "windows" /\ Turn!NextStep \in Validated =>
              step \in {"validate", "fill", "wifi", "raw", "tui", "block"}
<1>1. CASE build = "mac"
  BY <1>1, TurnMac DEF SampleShape, StepsOf
<1>2. CASE build = "linux"
  BY <1>2, TurnLinux DEF SampleShape, StepsOf
<1>3. CASE build = "windows"
  <2>1. step \in {"facts", "snapshot", "gpu", "validate"} \cup Validated
    BY <1>3 DEF SampleShape, StepsOf, Validated
  <2> QED
    BY <1>3, <2>1, TurnWindows DEF StepsOf, Validated
<1> QED
  BY <1>1, <1>2, <1>3 DEF SampleShape

(* A step that puts something into the sample before the sinks get it; from the *)
(* validation on nothing that it checks.                                        *)
LEMMA GathersKeep ==
  ASSUME SampleInv, SampleShape', UNCHANGED <<build, skipped, served, sinks>>,
         step' = Turn!NextStep, step \in {"facts", "snapshot", "gpu", "fill", "wifi", "sensors"},
         step \in {"fill", "wifi"} /\ InRange(sample) => InRange(sample')
  PROVE  SampleInv'
<1>1. step' \notin {"block", "history", "end"}
  BY StepAfter DEF SampleInv
<1>2. build = "windows" /\ step' \in Validated => step \in Validated /\ step \in {"fill", "wifi"}
  BY StepAfter DEF SampleInv, Validated
<1>3. SampleSound'
  BY <1>2 DEF SampleInv, SampleSound
<1>4. SampleShared'
  BY <1>1 DEF SampleShared
<1> QED
  BY <1>3, <1>4 DEF SampleInv

(* What the readers fill in is of the sample's kind, and spares the rest. *)
LEMMA SampleFilled ==
  ASSUME NEW d \in SampleData
  PROVE  /\ \A x \in {"known", "unknown"} : [d EXCEPT !.facts = x] \in SampleData
         /\ \A x \in {0, 1} : /\ [d EXCEPT !.wifi = x] \in SampleData
                              /\ InRange(d) => InRange([d EXCEPT !.wifi = x])
         /\ \A x \in {"none", "card", "failed"} : [d EXCEPT !.gpu = x] \in SampleData
         /\ \A x \in {"none", "card", "failed"}, y \in {"none", "percent", "clock"} :
              [d EXCEPT !.gpu = x, !.vram = y] \in SampleData
         /\ \A x \in {"ok", "off", "nan"}, y \in {"ok", "off"}, z \in {"ok", "nan"} :
              [d EXCEPT !.usage = x, !.used = y, !.freq = z] \in SampleData
BY DEF SampleData, InRange

(* What is shown of a sample is one, with the values that were validated. *)
LEMMA ShownIsSample ==
  ASSUME NEW d \in SampleData, NEW b
  PROVE  Shown(b, d) \in SampleData /\ (InRange(d) => InRange(Shown(b, d)))
<1>1. [d EXCEPT !.gpu = "blank", !.vram = "blank"] \in SampleData
  BY DEF SampleData
<1>2. InRange(d) => InRange([d EXCEPT !.gpu = "blank", !.vram = "blank"])
  BY DEF SampleData, InRange
<1> QED
  BY <1>1, <1>2 DEF Shown

(* A part that is gathered leaves the invariant and fills its place in the sample. *)
LEMMA GatherSteps ==
  ASSUME SampleInv,
         \/ \E b \in BOOLEAN : \/ Turn!SystemInfoCached(b) \/ Turn!GpuMac(b) \/ Turn!GpuLinux(b)
                               \/ Turn!Looked(b)
         \/ \E found, nvml, throws \in BOOLEAN : Turn!GpuWindows(found, nvml, throws)
         \/ \E u \in {"ok", "off", "nan"}, m \in {"ok", "off"}, f \in {"ok", "nan"} :
              Turn!Snapshot(u, m, f)
         \/ Turn!Fill
  PROVE  SampleInv'
<1>1. SampleShape
  BY DEF SampleInv
<1>2. sample \in SampleData
  BY <1>1 DEF SampleShape
<1>3. ASSUME step # "end", step' = Turn!NextStep, UNCHANGED <<build, skipped, served, sinks>>,
             sample' \in SampleData, wifi' \in {0, 1},
             known' \in {"unset", "known", "unknown"}, gpuCache' \in {"unset", "none", "card"}
      PROVE  SampleShape'
  BY <1>1, <1>3, StepAfter DEF SampleShape
<1>4. ASSUME NEW b \in BOOLEAN, Turn!SystemInfoCached(b)
      PROVE  SampleInv'
  <2>1. known' \in {"known", "unknown"}
    BY <1>1, <1>4 DEF Turn!SystemInfoCached, SampleShape
  <2>2. sample' \in SampleData
    BY <1>2, <1>4, <2>1, SampleFilled DEF Turn!SystemInfoCached
  <2>3. SampleShape'
    BY <1>1, <1>3, <1>4, <2>1, <2>2 DEF Turn!SystemInfoCached, SampleShape
  <2> QED
    BY <1>4, <2>3, GathersKeep DEF Turn!SystemInfoCached
<1>5. ASSUME NEW b \in BOOLEAN, Turn!GpuMac(b) \/ Turn!GpuLinux(b)
      PROVE  SampleInv'
  <2>1. /\ step = "gpu" /\ step' = Turn!NextStep
        /\ UNCHANGED <<build, known, gpuCache, wifi, skipped, served, sinks>>
        /\ sample' = [sample EXCEPT !.gpu = IF b THEN "card" ELSE "none"]
    BY <1>5 DEF Turn!GpuMac, Turn!GpuLinux, Turn!Sampled
  <2>2. sample' \in SampleData
    BY <1>2, <2>1, SampleFilled
  <2>3. SampleShape'
    BY <1>1, <1>3, <2>1, <2>2 DEF SampleShape
  <2> QED
    BY <2>1, <2>3, GathersKeep
<1>6. ASSUME NEW b \in BOOLEAN, Turn!Looked(b)
      PROVE  SampleInv'
  <2>1. /\ step = "wifi" /\ step' = Turn!NextStep /\ wifi' \in {0, 1}
        /\ UNCHANGED <<build, known, gpuCache, skipped, served, sinks>>
        /\ sample' = [sample EXCEPT !.wifi = wifi']
    BY <1>1, <1>6 DEF Turn!Looked, SampleShape
  <2>2. sample' \in SampleData /\ (InRange(sample) => InRange(sample'))
    BY <1>2, <2>1, SampleFilled
  <2>3. SampleShape'
    BY <1>1, <1>3, <2>1, <2>2 DEF SampleShape
  <2> QED
    BY <2>1, <2>2, <2>3, GathersKeep
<1>7. ASSUME NEW found \in BOOLEAN, NEW nvml \in BOOLEAN, NEW throws \in BOOLEAN,
             Turn!GpuWindows(found, nvml, throws)
      PROVE  SampleInv'
  <2>1. /\ step = "gpu" /\ step' = Turn!NextStep /\ gpuCache' \in {"none", "card"}
        /\ UNCHANGED <<build, known, wifi, skipped, served, sinks>>
        /\ sample' = [sample EXCEPT
                        !.gpu = IF throws THEN "failed" ELSE gpuCache',
                        !.vram = IF throws THEN "none" ELSE IF nvml THEN "percent" ELSE "clock"]
    BY <1>1, <1>7 DEF Turn!GpuWindows, Turn!GpuCache, SampleShape
  <2>2. sample' \in SampleData
    BY <1>2, <2>1, SampleFilled
  <2>3. SampleShape'
    BY <1>1, <1>3, <2>1, <2>2 DEF SampleShape
  <2> QED
    BY <2>1, <2>3, GathersKeep
<1>8. ASSUME NEW u \in {"ok", "off", "nan"}, NEW m \in {"ok", "off"}, NEW f \in {"ok", "nan"},
             Turn!Snapshot(u, m, f)
      PROVE  SampleInv'
  <2>1. /\ step = "snapshot" /\ step' = Turn!NextStep
        /\ UNCHANGED <<build, known, gpuCache, wifi, skipped, served, sinks>>
        /\ sample' = [sample EXCEPT !.usage = u, !.used = m, !.freq = f]
    BY <1>8 DEF Turn!Snapshot, Turn!Sampled
  <2>2. sample' \in SampleData
    BY <1>2, <2>1, SampleFilled
  <2>3. SampleShape'
    BY <1>1, <1>3, <2>1, <2>2 DEF SampleShape
  <2> QED
    BY <2>1, <2>3, GathersKeep
<1>9. CASE Turn!Fill
  <2>1. SampleShape'
    BY <1>1, <1>3, <1>9 DEF Turn!Fill, SampleShape
  <2> QED
    BY <1>9, <2>1, GathersKeep DEF Turn!Fill
<1> QED
  BY <1>4, <1>5, <1>6, <1>7, <1>8, <1>9

(* Validation puts what it checks into its range, unless one of the checks throws. *)
LEMMA ValidateKeeps ==
  ASSUME SampleInv, NEW n \in {1, 2, 4}, Turn!Validate(n)
  PROVE  SampleInv'
<1>1. SampleShape /\ sample \in SampleData
  BY DEF SampleInv, SampleShape
<1>2. /\ step = "validate" /\ step' = Turn!NextStep
      /\ UNCHANGED <<build, known, gpuCache, wifi, served, sinks>>
      /\ skipped' = (n <= 3) /\ sample' = Turn!Corrected(n)
  BY DEF Turn!Validate
<1>11. (n <= 3) \in BOOLEAN
  OBVIOUS
<1>12. skipped' \in BOOLEAN
  BY <1>2, <1>11, Zenon
<1>13. ~skipped' => n = 4
  <2>1. n = 4 \/ n <= 3
    OBVIOUS
  <2> QED
    BY <1>2, <2>1, Zenon
<1> DEFINE usage == IF n > 1 /\ sample.usage = "off" THEN "ok" ELSE sample.usage
           used == IF n > 2 /\ sample.used = "off" THEN "ok" ELSE sample.used
           freq == IF n > 3 /\ sample.freq = "nan" THEN "ok" ELSE sample.freq
<1>3. sample' = [sample EXCEPT !.usage = usage, !.used = used, !.freq = freq]
  BY <1>2 DEF Turn!Corrected
<1>4. /\ usage \in {"ok", "off", "nan"} /\ used \in {"ok", "off"} /\ freq \in {"ok", "nan"}
      /\ n = 4 => usage # "off" /\ used # "off" /\ freq # "nan"
  BY <1>1 DEF SampleData
<1> HIDE DEF usage, used, freq
<1>5. sample' \in SampleData
  BY <1>1, <1>3, <1>4, SampleFilled
<1>6. sample'.usage = usage /\ sample'.used = used /\ sample'.freq = freq
  <2>1. {"usage", "used", "freq"} \subseteq DOMAIN sample
    BY <1>1 DEF SampleData
  <2> QED
    BY <1>3, <2>1
<1>7. ~skipped' => InRange(sample')
  BY <1>13, <1>4, <1>6 DEF InRange
<1>8. SampleShape'
  BY <1>1, <1>2, <1>5, <1>12, StepAfter DEF SampleShape
<1>9. SampleSound'
  BY <1>2, <1>7 DEF SampleInv, SampleSound
<1>10. step' \notin {"block", "history", "end"}
  BY <1>1, <1>2, StepAfter
<1> QED
  BY <1>8, <1>9, <1>10 DEF SampleInv, SampleShared

(* The sample, or what is shown of it, goes to a sink or, where there is no such  *)
(* sink, the turn is not one that serves them all.                                *)
LEMMA HandsKeep ==
  ASSUME SampleInv, UNCHANGED <<build, known, gpuCache, wifi, sample, skipped>>,
         step' = Turn!NextStep, step \in {"tui", "block", "history"}, served' \in BOOLEAN,
         NEW given, given = IF step = "tui" THEN Shown(build, sample) ELSE sample,
         \/ /\ sinks' = [sinks EXCEPT ![step] = [data |-> given, skipped |-> skipped]]
            /\ served' => served
         \/ UNCHANGED sinks /\ ~served'
  PROVE  SampleInv'
<1>1. SampleShape /\ sample \in SampleData /\ skipped \in BOOLEAN
      /\ sinks \in [{"tui", "block", "history"} -> [data : SampleData, skipped : BOOLEAN]]
  BY DEF SampleInv, SampleShape
<1>5. given \in SampleData /\ (InRange(sample) => InRange(given))
  BY <1>1, ShownIsSample
<1>2. [data |-> given, skipped |-> skipped] \in [data : SampleData, skipped : BOOLEAN]
  BY <1>1, <1>5
<1>3. CASE /\ sinks' = [sinks EXCEPT ![step] = [data |-> given, skipped |-> skipped]]
           /\ served' => served
  <2>2. sinks' \in [{"tui", "block", "history"} -> [data : SampleData, skipped : BOOLEAN]]
    BY <1>1, <1>2, <1>3
  <2>3. \A s \in {"tui", "block", "history"} :
          sinks'[s] = IF s = step THEN [data |-> given, skipped |-> skipped] ELSE sinks[s]
    BY <1>1, <1>3
  <2>4. SampleShape'
    BY <1>1, <2>2, StepAfter DEF SampleShape
  <2>5. SampleSound'
    <3>1. build = "windows" => skipped \/ (InRange(sample) /\ InRange(given))
      BY <1>5 DEF SampleInv, SampleSound, Validated
    <3> QED
      BY <2>3, <3>1 DEF SampleInv, SampleSound
  <2>7. Shown(build, sample)' = Shown(build, sample)
    BY DEF Shown
  <2>6. SampleShared'
    <3>1. CASE step = "tui"
      <4>1. sinks'["tui"].data = Shown(build, sample)
        BY <2>3, <3>1
      <4>2. /\ step' # "end" /\ (step' = "history" => build = "linux")
        BY <1>1, <3>1, StepAfter
      <4> QED
        BY <2>7, <4>1, <4>2 DEF SampleShared
    <3>2. CASE step = "block"
      <4>1. sinks'["block"].data = sample /\ sinks'["tui"] = sinks["tui"]
        BY <2>3, <3>2
      <4>2. step' \notin {"block", "end"}
        BY <1>1, <3>2, StepAfter
      <4>3. served => sinks["tui"].data = Shown(build, sample)
        BY <3>2 DEF SampleInv, SampleShared
      <4> QED
        BY <1>3, <2>7, <4>1, <4>2, <4>3 DEF SampleShared
    <3>3. CASE step = "history"
      <4>1. /\ sinks'["history"].data = sample /\ sinks'["tui"] = sinks["tui"]
            /\ sinks'["block"] = sinks["block"]
        BY <2>3, <3>3
      <4>2. step' \notin {"block", "history"}
        BY <1>1, <3>3, StepAfter
      <4>3. served => /\ sinks["tui"].data = Shown(build, sample)
                      /\ build # "linux" => sinks["block"].data = sample
        BY <3>3 DEF SampleInv, SampleShared
      <4>4. Shown(build, sinks["history"].data)' = Shown(build, sample)
        BY <4>1 DEF Shown
      <4> QED
        BY <1>3, <4>1, <4>2, <4>3, <4>4 DEF SampleShared
    <3> QED
      BY <3>1, <3>2, <3>3
  <2> QED
    BY <2>4, <2>5, <2>6 DEF SampleInv
<1>4. CASE UNCHANGED sinks /\ ~served'
  <2>1. SampleShape'
    BY <1>1, <1>4, StepAfter DEF SampleShape
  <2>2. SampleSound'
    BY <1>4 DEF SampleInv, SampleSound, Validated
  <2> QED
    BY <1>4, <2>1, <2>2 DEF SampleInv, SampleShared
<1> QED
  BY <1>3, <1>4

(* WiFi of Windows, written into the block past the sequence. *)
LEMMA RawKeeps ==
  ASSUME SampleInv, Turn!RawWireless
  PROVE  SampleInv'
<1>1. /\ SampleShape /\ sample \in SampleData /\ skipped \in BOOLEAN
      /\ sinks \in [{"tui", "block", "history"} -> [data : SampleData, skipped : BOOLEAN]]
  BY DEF SampleInv, SampleShape
<1>2. /\ step = "raw" /\ step' = Turn!NextStep
      /\ UNCHANGED <<build, known, gpuCache, wifi, sample, skipped, served>>
      /\ sinks' = [sinks EXCEPT !["block"].data.wifi = sample.wifi]
  BY DEF Turn!RawWireless
<1> DEFINE b == sinks["block"]
           d == [b.data EXCEPT !.wifi = sample.wifi]
<1>3. b \in [data : SampleData, skipped : BOOLEAN] /\ b.data \in SampleData
  BY <1>1
<1>4. sample.wifi \in {0, 1}
  BY <1>1 DEF SampleData
<1>5. d \in SampleData /\ (InRange(b.data) => InRange(d))
  BY <1>3, <1>4, SampleFilled
<1>6. sinks'["block"] = [b EXCEPT !.data = d]
  BY <1>1, <1>2
<1>7. sinks' = [sinks EXCEPT !["block"] = [b EXCEPT !.data = d]]
  BY <1>1, <1>2
<1> HIDE DEF b, d
<1>8. /\ [b EXCEPT !.data = d] \in [data : SampleData, skipped : BOOLEAN]
      /\ [b EXCEPT !.data = d].data = d /\ [b EXCEPT !.data = d].skipped = b.skipped
  BY <1>3, <1>5
<1>9. sinks' \in [{"tui", "block", "history"} -> [data : SampleData, skipped : BOOLEAN]]
  BY <1>1, <1>7, <1>8
<1>10. SampleShape'
  BY <1>1, <1>2, <1>9, StepAfter DEF SampleShape
<1>11. SampleSound'
  <2>1. build = "windows" => skipped \/ InRange(sample)
    BY <1>2 DEF SampleInv, SampleSound, Validated
  <2>2. build = "windows" => b.skipped \/ InRange(b.data)
    BY DEF SampleInv, SampleSound, b
  <2>3. build = "windows" => sinks'["block"].skipped \/ InRange(sinks'["block"].data)
    BY <1>5, <1>6, <1>8, <2>2
  <2>4. sinks'["tui"] = sinks["tui"] /\ sinks'["history"] = sinks["history"]
    BY <1>1, <1>7
  <2> QED
    BY <1>2, <2>1, <2>3, <2>4 DEF SampleInv, SampleSound
<1>12. step' \notin {"block", "history", "end"}
  BY <1>1, <1>2, StepAfter
<1> QED
  BY <1>10, <1>11, <1>12 DEF SampleInv, SampleShared

(* A turn that begins, after the last or after an exception. *)
LEMMA TurnBegins ==
  ASSUME SampleShape, UNCHANGED <<build, known, gpuCache, wifi>>,
         step' = Turn!First, sample' = Turn!NoData, skipped' = FALSE, served' = TRUE,
         sinks' = [s \in DOMAIN sinks |-> Turn!NoSink]
  PROVE  SampleInv'
<1>1. /\ Turn!NoData \in SampleData /\ InRange(Turn!NoData)
      /\ Turn!NoSink = [data |-> Turn!NoData, skipped |-> FALSE]
  BY DEF Turn!NoData, Turn!NoSink, SampleData, InRange
<1>2. sinks' = [s \in {"tui", "block", "history"} |-> Turn!NoSink]
  BY DEF SampleShape
<1>3. Turn!NoSink \in [data : SampleData, skipped : BOOLEAN] /\ Turn!NoSink.data = Turn!NoData
  BY <1>1
<1>4. sinks' \in [{"tui", "block", "history"} -> [data : SampleData, skipped : BOOLEAN]]
  BY <1>2, <1>3
<1>5. Turn!First \in StepsOf(build) /\ Turn!First \in {"snapshot", "facts"}
  BY DEF Turn!First, Turn!Steps, Turn!StepsMac, Turn!StepsLinux, Turn!StepsWindows, StepsOf,
         SampleShape
<1>6. SampleShape'
  BY <1>1, <1>4, <1>5 DEF SampleShape
<1>7. SampleSound'
  BY <1>1, <1>2, <1>3, <1>5 DEF SampleSound, Validated
<1>8. SampleShared'
  BY <1>5 DEF SampleShared
<1> QED
  BY <1>6, <1>7, <1>8 DEF SampleInv

(* An exception ends the turn or, of what serves two of the sinks on Windows, only that. *)
LEMMA ThrowsKeeps ==
  ASSUME SampleInv, Turn!Throws
  PROVE  SampleInv'
<1>1. CASE build = "windows" /\ step \in {"fill", "wifi", "raw", "tui"}
  <2>1. /\ step' = "history" /\ ~served' /\ served' \in BOOLEAN
        /\ UNCHANGED <<build, known, gpuCache, wifi, sample, skipped, sinks>>
    BY <1>1 DEF Turn!Throws
  <2>2. SampleShape'
    BY <1>1, <2>1 DEF SampleInv, SampleShape, StepsOf
  <2>3. SampleSound'
    BY <1>1, <2>1 DEF SampleInv, SampleSound, Validated
  <2> QED
    BY <2>1, <2>2, <2>3 DEF SampleInv, SampleShared
<1>2. CASE ~(build = "windows" /\ step \in {"fill", "wifi", "raw", "tui"})
  BY <1>2, TurnBegins DEF Turn!Throws, SampleInv
<1> QED
  BY <1>1, <1>2

(* Every step of a turn keeps the invariant. *)
LEMMA SampleStep ==
  ASSUME SampleInv, Turn!SampleNext
  PROVE  SampleInv'
<1>1. ASSUME NEW there \in BOOLEAN,
             \/ Turn!PublishMac(there) \/ Turn!PublishWindows(there) \/ Turn!Recorded(there)
      PROVE  SampleInv'
  <2>1. /\ UNCHANGED <<build, known, gpuCache, wifi, sample, skipped>>
        /\ step' = Turn!NextStep /\ step \in {"tui", "block", "history"}
        /\ IF there THEN Turn!Handed(step) ELSE UNCHANGED sinks
        /\ served' = (served /\ there)
    BY <1>1 DEF Turn!PublishMac, Turn!PublishWindows, Turn!Recorded
  <2>2. served \in BOOLEAN
    BY DEF SampleInv, SampleShape
  <2>3. step # "tui"
    BY <1>1 DEF Turn!PublishMac, Turn!PublishWindows, Turn!Recorded
  <2> QED
    BY <2>1, <2>2, <2>3, HandsKeep DEF Turn!Handed
<1>2. CASE Turn!UpdateData
  <2>1. served \in BOOLEAN
    BY DEF SampleInv, SampleShape
  <2>2. Turn!OnScreen = Shown(build, sample)
    BY DEF Turn!OnScreen, Shown
  <2> QED
    BY <1>2, <2>1, <2>2, HandsKeep DEF Turn!UpdateData
<1>3. CASE Turn!Again
  BY <1>3, TurnBegins DEF Turn!Again, SampleInv
<1>4. CASE Turn!Throws
  BY <1>4, ThrowsKeeps
<1>5. CASE Turn!RawWireless
  BY <1>5, RawKeeps
<1>6. ASSUME NEW n \in {1, 2, 4}, Turn!Validate(n)
      PROVE  SampleInv'
  BY <1>6, ValidateKeeps
<1> QED
  BY <1>1, <1>2, <1>3, <1>4, <1>5, <1>6, GatherSteps
     DEF Turn!SampleNext, Turn!WirelessMac, Turn!WirelessLinux, Turn!WirelessWindows,
         Turn!RecordMac, Turn!RecordLinux, Turn!RecordWindows

(* What is promised follows. *)
LEMMA SampleInvAgrees ==
  ASSUME SampleInv
  PROVE  SinksGetSample
<1>1. /\ sinks \in [{"tui", "block", "history"} -> [data : SampleData, skipped : BOOLEAN]]
      /\ DOMAIN sinks = {"tui", "block", "history"}
  BY DEF SampleInv, SampleShape
<1>2. PICK recorded, shown : recorded = sinks["history"].data /\ shown = sinks["tui"].data
  OBVIOUS
<1>3. recorded \in SampleData
      /\ DOMAIN recorded = {"usage", "used", "freq", "gpu", "vram", "wifi", "facts"}
  BY <1>1, <1>2 DEF SampleData
<1>4. step = "end" /\ served =>
        /\ shown = Shown(build, recorded)
        /\ build # "linux" => sinks["block"].data = recorded
  BY <1>2 DEF SampleInv, SampleShared
<1>5. CASE build = "windows" /\ recorded.gpu # "card"
  <2>1. step = "end" /\ served => shown = [recorded EXCEPT !.gpu = "blank", !.vram = "blank"]
    BY <1>4, <1>5 DEF Shown
  <2>2. step = "end" /\ served =>
          \A f \in DOMAIN recorded :
            IF f \in DOMAIN recorded \ {"gpu", "vram"} THEN shown[f] = recorded[f]
                                                       ELSE shown[f] = "blank"
    BY <1>3, <2>1
  <2> QED
    BY <1>1, <1>2, <1>4, <1>5, <2>2
    DEF SinksGetSample, Turn!SinksGetSample, SampleInv, SampleSound, InRange
<1>6. CASE ~(build = "windows" /\ recorded.gpu # "card")
  <2>1. step = "end" /\ served => shown = recorded
    BY <1>4, <1>6 DEF Shown
  <2> QED
    BY <1>1, <1>2, <1>4, <1>6, <2>1
    DEF SinksGetSample, Turn!SinksGetSample, SampleInv, SampleSound, InRange
<1> QED
  BY <1>5, <1>6

(* The terminal interface, the block and the history get one and the same sample   *)
(* in a turn that serves them all, but for the graphics card that Windows does not  *)
(* show; on Windows one whose checked values are in range unless a check threw (the *)
(* loops of the three mains).                                                       *)
THEOREM SinksAgree == ReadingsSpec => []SinksGetSample
<1>1. ReadingsInit => SampleInv
  <2> SUFFICES ASSUME ReadingsInit PROVE SampleInv
    OBVIOUS
  <2>1. Turn!SampleInit
    BY DEF ReadingsInit
  <2>2. /\ Turn!NoData \in SampleData /\ InRange(Turn!NoData)
        /\ Turn!NoSink = [data |-> Turn!NoData, skipped |-> FALSE]
    BY DEF Turn!NoData, Turn!NoSink, SampleData, InRange
  <2>3. Turn!NoSink \in [data : SampleData, skipped : BOOLEAN] /\ Turn!NoSink.data = Turn!NoData
    BY <2>2
  <2>4. sinks = [s \in {"tui", "block", "history"} |-> Turn!NoSink] /\ sample = Turn!NoData
    BY <2>1 DEF Turn!SampleInit
  <2>5. build \in {"mac", "linux", "windows"}
    BY <2>1, SampleAssumption DEF Turn!SampleInit
  <2>6. step \in StepsOf(build) /\ step \in {"snapshot", "facts"}
    BY <2>1, <2>5 DEF Turn!SampleInit, Turn!Steps, Turn!StepsMac, Turn!StepsLinux,
                      Turn!StepsWindows, StepsOf
  <2>7. SampleShape
    BY <2>1, <2>2, <2>3, <2>4, <2>5, <2>6 DEF Turn!SampleInit, SampleShape
  <2>8. SampleSound
    BY <2>2, <2>3, <2>4, <2>6 DEF SampleSound, Validated
  <2>9. SampleShared
    BY <2>6 DEF SampleShared
  <2> QED
    BY <2>7, <2>8, <2>9 DEF SampleInv
<1>2. SampleInv /\ [ReadingsNext]_allVars => SampleInv'
  <2> SUFFICES ASSUME SampleInv, [ReadingsNext]_allVars PROVE SampleInv'
    OBVIOUS
  <2>1. CASE SampleSteps
    BY <2>1, SampleStep DEF SampleSteps
  <2>2. CASE ~SampleSteps
    <3>1. UNCHANGED sampleVars
      BY <2>2 DEF ReadingsNext, allVars, LockSteps, McpSteps, ShotSteps, SchemaSteps, BlockSteps,
                  ScreenSteps, TempsSteps
    <3> QED
      BY <3>1 DEF sampleVars, SampleInv, SampleShape, SampleSound, SampleShared
  <2> QED
    BY <2>1, <2>2
<1> QED
  BY <1>1, <1>2, SampleInvAgrees, PTL DEF ReadingsSpec

-----------------------------------------------------------------------------
(* Schema: the tables of the fields, their types and what is asked for.    *)

\* The fields that are in no set of fields of Schema.
Singles ==
  {"cpu/sampleIntervalMs", "phys/*/health", "memory/swapUsed", "memory/swapTotal",
   "memory/ramSpeed", "phys/*/attrsJson", "phys/*/letterCount", "cpu/freq/base",
   "tpm/isEnabled", "tpm/isActive", "disk/*/letter", "phys/*/letter", "tpm/status",
   "tpm/selfTestStatus", "tpm/count", "wifi/band", "wifi/gen", "tpm/manufacturer",
   "tpm/firmwareVersion", ""}

(* A field is in one set of fields only. *)
LEMMA FieldsApart ==
  /\ \A n \in Declared!Reals : n \notin Declared!Cores
  /\ \A n \in Declared!Sizes : n \notin Declared!Cores \cup Declared!Reals
  /\ \A n \in Declared!Bools : n \notin Declared!Cores \cup Declared!Reals \cup Declared!Sizes
  /\ \A n \in Declared!Ints : n \notin Declared!Cores \cup Declared!Reals \cup Declared!Sizes
       \cup Declared!Bools
  /\ \A n \in Declared!Texts : n \notin Declared!Cores \cup Declared!Reals \cup Declared!Sizes
       \cup Declared!Bools \cup Declared!Ints
  /\ \A n \in Singles : n \notin Declared!Cores \cup Declared!Reals \cup Declared!Sizes \cup
       Declared!Bools \cup Declared!Ints \cup Declared!Texts
BY DEF Declared!Cores, Declared!Reals, Declared!Sizes, Declared!Bools, Declared!Ints,
       Declared!Texts, Singles

\* Table g is table f and the fields of S, with what is said of them.
Added(f, x, S, g) ==
  /\ DOMAIN g = DOMAIN f \cup S
  /\ \A n \in DOMAIN f : g[n] = f[n]
  /\ \A n \in S : n \in DOMAIN f \/ g[n] = x

(* Each and ++ add a set of fields to a table. *)
LEMMA Adds ==
  ASSUME NEW f, NEW x, NEW S
  PROVE  Added(f, x, S, Declared!++(f, Declared!Each(x, S)))
BY DEF Added, Declared!++, Declared!Each

\* The sets of fields in the tables.
MacReals == Declared!Reals \cup {"cpu/sampleIntervalMs", "phys/*/health"}
MacSizes == Declared!Sizes \cup {"memory/swapUsed", "memory/swapTotal"}
MacTexts == Declared!Texts \cup {"phys/*/attrsJson"}
WindowsInts == Declared!Cores \cup Declared!Ints \cup {"phys/*/letterCount"}
WindowsReals == Declared!Reals \cup {"cpu/freq/base"}
WindowsBools == Declared!Bools \cup {"tpm/isEnabled", "tpm/isActive"}
WindowsBytes == {"disk/*/letter", "phys/*/health", "phys/*/letter", "tpm/status",
                 "tpm/selfTestStatus", "tpm/count"}
WindowsTexts == Declared!Texts \cup {"wifi/band", "wifi/gen", "tpm/manufacturer",
                                    "tpm/firmwareVersion"}
AskedReals == (Declared!Reals \ {"phys/*/temperature"}) \cup {"cpu/freq/base"}
AskedBools == (Declared!Bools \ {"wifi/isConnected"}) \cup {"tpm/isEnabled", "tpm/isActive"}
AskedWide == {"disk/*/label", "disk/*/fs", "net/*/ip", "net/*/mac", "net/*/type",
              "sensor/*/name", "phys/*/model", "phys/*/serial", "phys/*/interface",
              "tpm/manufacturer", "tpm/firmwareVersion"}
AskedBytes == {"disk/*/letter", "phys/*/letter", "tpm/count", "tpm/status",
               "tpm/selfTestStatus"}
AskedInts == Declared!Ints \cup {"phys/*/letterCount"}
AskedBoth == {"cpu/name", "memory/ramType", "gpu/0/name", "gpu/0/brand", "net/*/name",
              "wifi/ssid", "wifi/security", "wifi/band", "wifi/gen"}
ToolCores == Declared!Cores \ {"cpu/cores/logical"}
ToolReals == {"cpu/usage", "cpu/freq/pCore", "cpu/freq/eCore", "cpu/temperature",
              "gpu/0/usage", "gpu/0/temperature"}
ToolSizes == {"memory/total", "memory/used", "memory/available", "memory/compressed",
              "gpu/0/memory"}
ToolTexts == {"cpu/name", "gpu/0/name", "disk/*/label", "disk/*/fs", "phys/*/model"}
ToolDisks == {"disk/*/total", "disk/*/used", "phys/*/capacity"}
OtherTexts == {"net/*/name", "net/*/ip", "net/*/mac", "net/*/type", "sensor/*/name",
               "os/version"}
ToolSpeeds == {"net/*/speed", "net/*/downloadSpeed", "net/*/uploadSpeed"}

(* The types macOS declares. *)
LEMMA MacTypes ==
  /\ DOMAIN Declared!MacSchema = Declared!Cores \cup MacReals \cup MacSizes \cup
       {"memory/ramSpeed"} \cup Declared!Bools \cup Declared!Ints \cup MacTexts
  /\ \A n \in Declared!Cores : Declared!MacSchema[n] = "UInt8"
  /\ \A n \in MacReals : Declared!MacSchema[n] = "Float32"
  /\ \A n \in MacSizes : Declared!MacSchema[n] = "UInt64"
  /\ \A n \in {"memory/ramSpeed"} : Declared!MacSchema[n] = "UInt32"
  /\ \A n \in Declared!Bools : Declared!MacSchema[n] = "Bool"
  /\ \A n \in Declared!Ints : Declared!MacSchema[n] = "Int32"
  /\ \A n \in MacTexts : Declared!MacSchema[n] = "String"
<1> DEFINE T1 == Declared!Each("UInt8", Declared!Cores)
           T2 == Declared!++(T1, Declared!Each("Float32", MacReals))
           T3 == Declared!++(T2, Declared!Each("UInt64", MacSizes))
           T4 == Declared!++(T3, Declared!Each("UInt32", {"memory/ramSpeed"}))
           T5 == Declared!++(T4, Declared!Each("Bool", Declared!Bools))
           T6 == Declared!++(T5, Declared!Each("Int32", Declared!Ints))
           T7 == Declared!++(T6, Declared!Each("String", MacTexts))
<1>1. Declared!MacSchema = T7
  BY DEF Declared!MacSchema, MacReals, MacSizes, MacTexts
<1>2. /\ DOMAIN T1 = Declared!Cores
      /\ \A n \in Declared!Cores : T1[n] = "UInt8"
  BY DEF Declared!Each
<1>3. /\ Added(T1, "Float32", MacReals, T2)
      /\ Added(T2, "UInt64", MacSizes, T3)
      /\ Added(T3, "UInt32", {"memory/ramSpeed"}, T4)
      /\ Added(T4, "Bool", Declared!Bools, T5)
      /\ Added(T5, "Int32", Declared!Ints, T6)
      /\ Added(T6, "String", MacTexts, T7)
  BY Adds
<1>4. /\ \A n \in MacReals : n \notin Declared!Cores
      /\ \A n \in MacSizes : n \notin Declared!Cores \cup MacReals
      /\ \A n \in {"memory/ramSpeed"} : n \notin Declared!Cores \cup MacReals \cup MacSizes
      /\ \A n \in Declared!Bools : n \notin Declared!Cores \cup MacReals \cup MacSizes \cup
            {"memory/ramSpeed"}
      /\ \A n \in Declared!Ints : n \notin Declared!Cores \cup MacReals \cup MacSizes \cup
            {"memory/ramSpeed"} \cup Declared!Bools
      /\ \A n \in MacTexts : n \notin Declared!Cores \cup MacReals \cup MacSizes \cup
            {"memory/ramSpeed"} \cup Declared!Bools \cup Declared!Ints
  BY FieldsApart DEF MacReals, MacSizes, MacTexts, Singles
<1> HIDE DEF T1, T2, T3, T4, T5, T6, T7
<1> QED
  BY <1>1, <1>2, <1>3, <1>4 DEF Added

(* The types Windows declares. *)
LEMMA WindowsTypes ==
  /\ DOMAIN Declared!WindowsSchema = WindowsInts \cup WindowsReals \cup Declared!Sizes \cup
       {"memory/ramSpeed"} \cup WindowsBools \cup WindowsBytes \cup WindowsTexts \cup
       {"phys/*/attrsJson"}
  /\ \A n \in WindowsInts : Declared!WindowsSchema[n] = "Int32"
  /\ \A n \in WindowsReals : Declared!WindowsSchema[n] = "Float64"
  /\ \A n \in Declared!Sizes : Declared!WindowsSchema[n] = "UInt64"
  /\ \A n \in {"memory/ramSpeed"} : Declared!WindowsSchema[n] = "UInt32"
  /\ \A n \in WindowsBools : Declared!WindowsSchema[n] = "Bool"
  /\ \A n \in WindowsBytes : Declared!WindowsSchema[n] = "UInt8"
  /\ \A n \in WindowsTexts : Declared!WindowsSchema[n] = "WString"
  /\ \A n \in {"phys/*/attrsJson"} : Declared!WindowsSchema[n] = "String"
<1> DEFINE T1 == Declared!Each("Int32", WindowsInts)
           T2 == Declared!++(T1, Declared!Each("Float64", WindowsReals))
           T3 == Declared!++(T2, Declared!Each("UInt64", Declared!Sizes))
           T4 == Declared!++(T3, Declared!Each("UInt32", {"memory/ramSpeed"}))
           T5 == Declared!++(T4, Declared!Each("Bool", WindowsBools))
           T6 == Declared!++(T5, Declared!Each("UInt8", WindowsBytes))
           T7 == Declared!++(T6, Declared!Each("WString", WindowsTexts))
           T8 == Declared!++(T7, Declared!Each("String", {"phys/*/attrsJson"}))
<1>1. Declared!WindowsSchema = T8
  BY DEF Declared!WindowsSchema, WindowsInts, WindowsReals, WindowsBools, WindowsBytes,
         WindowsTexts
<1>2. /\ DOMAIN T1 = WindowsInts
      /\ \A n \in WindowsInts : T1[n] = "Int32"
  BY DEF Declared!Each
<1>3. /\ Added(T1, "Float64", WindowsReals, T2)
      /\ Added(T2, "UInt64", Declared!Sizes, T3)
      /\ Added(T3, "UInt32", {"memory/ramSpeed"}, T4)
      /\ Added(T4, "Bool", WindowsBools, T5)
      /\ Added(T5, "UInt8", WindowsBytes, T6)
      /\ Added(T6, "WString", WindowsTexts, T7)
      /\ Added(T7, "String", {"phys/*/attrsJson"}, T8)
  BY Adds
<1>4. /\ \A n \in WindowsReals : n \notin WindowsInts
      /\ \A n \in Declared!Sizes : n \notin WindowsInts \cup WindowsReals
      /\ \A n \in {"memory/ramSpeed"} : n \notin WindowsInts \cup WindowsReals \cup
            Declared!Sizes
      /\ \A n \in WindowsBools : n \notin WindowsInts \cup WindowsReals \cup Declared!Sizes
            \cup {"memory/ramSpeed"}
      /\ \A n \in WindowsBytes : n \notin WindowsInts \cup WindowsReals \cup Declared!Sizes
            \cup {"memory/ramSpeed"} \cup WindowsBools
      /\ \A n \in WindowsTexts : n \notin WindowsInts \cup WindowsReals \cup Declared!Sizes
            \cup {"memory/ramSpeed"} \cup WindowsBools \cup WindowsBytes
      /\ \A n \in {"phys/*/attrsJson"} : n \notin WindowsInts \cup WindowsReals \cup
            Declared!Sizes \cup {"memory/ramSpeed"} \cup WindowsBools \cup WindowsBytes \cup
            WindowsTexts
  BY FieldsApart DEF WindowsInts, WindowsReals, WindowsBools, WindowsBytes, WindowsTexts,
         Singles
<1> HIDE DEF T1, T2, T3, T4, T5, T6, T7, T8
<1> QED
  BY <1>1, <1>2, <1>3, <1>4 DEF Added

(* What the mapper asks for: the fields that are there once. *)
LEMMA ScalarsAsked ==
  /\ DOMAIN Declared!AskedScalars = Declared!Cores \cup AskedReals \cup
       {"cpu/sampleIntervalMs", "phys/*/temperature"} \cup MacSizes \cup {"memory/ramSpeed"}
       \cup AskedBools \cup {"phys/*/health"}
  /\ \A n \in Declared!Cores : Declared!AskedScalars[n] = <<"Int32", "UInt8">>
  /\ \A n \in AskedReals : Declared!AskedScalars[n] = <<"Float64", "Float32">>
  /\ \A n \in {"cpu/sampleIntervalMs", "phys/*/temperature"} : Declared!AskedScalars[n] =
       <<"Float64">>
  /\ \A n \in MacSizes : Declared!AskedScalars[n] = <<"UInt64">>
  /\ \A n \in {"memory/ramSpeed"} : Declared!AskedScalars[n] = <<"UInt32">>
  /\ \A n \in AskedBools : Declared!AskedScalars[n] = <<"Bool">>
  /\ \A n \in {"phys/*/health"} : Declared!AskedScalars[n] = <<"Float32">>
<1> DEFINE T1 == Declared!Each(<<"Int32", "UInt8">>, Declared!Cores)
           T2 == Declared!++(T1, Declared!Each(<<"Float64", "Float32">>, AskedReals))
           T3 == Declared!++(T2, Declared!Each(<<"Float64">>, {"cpu/sampleIntervalMs",
                              "phys/*/temperature"}))
           T4 == Declared!++(T3, Declared!Each(<<"UInt64">>, MacSizes))
           T5 == Declared!++(T4, Declared!Each(<<"UInt32">>, {"memory/ramSpeed"}))
           T6 == Declared!++(T5, Declared!Each(<<"Bool">>, AskedBools))
           T7 == Declared!++(T6, Declared!Each(<<"Float32">>, {"phys/*/health"}))
<1>1. Declared!AskedScalars = T7
  BY DEF Declared!AskedScalars, AskedReals, MacSizes, AskedBools, Declared!Each
<1>2. /\ DOMAIN T1 = Declared!Cores
      /\ \A n \in Declared!Cores : T1[n] = <<"Int32", "UInt8">>
  BY DEF Declared!Each
<1>3. /\ Added(T1, <<"Float64", "Float32">>, AskedReals, T2)
      /\ Added(T2, <<"Float64">>, {"cpu/sampleIntervalMs", "phys/*/temperature"}, T3)
      /\ Added(T3, <<"UInt64">>, MacSizes, T4)
      /\ Added(T4, <<"UInt32">>, {"memory/ramSpeed"}, T5)
      /\ Added(T5, <<"Bool">>, AskedBools, T6)
      /\ Added(T6, <<"Float32">>, {"phys/*/health"}, T7)
  BY Adds
<1>5. "phys/*/temperature" \in Declared!Reals
  BY DEF Declared!Reals
<1>4. /\ \A n \in AskedReals : n \notin Declared!Cores
      /\ \A n \in {"cpu/sampleIntervalMs", "phys/*/temperature"} : n \notin Declared!Cores \cup
            AskedReals
      /\ \A n \in MacSizes : n \notin Declared!Cores \cup AskedReals \cup
            {"cpu/sampleIntervalMs", "phys/*/temperature"}
      /\ \A n \in {"memory/ramSpeed"} : n \notin Declared!Cores \cup AskedReals \cup
            {"cpu/sampleIntervalMs", "phys/*/temperature"} \cup MacSizes
      /\ \A n \in AskedBools : n \notin Declared!Cores \cup AskedReals \cup
            {"cpu/sampleIntervalMs", "phys/*/temperature"} \cup MacSizes \cup
            {"memory/ramSpeed"}
      /\ \A n \in {"phys/*/health"} : n \notin Declared!Cores \cup AskedReals \cup
            {"cpu/sampleIntervalMs", "phys/*/temperature"} \cup MacSizes \cup
            {"memory/ramSpeed"} \cup AskedBools
  BY FieldsApart, <1>5 DEF AskedReals, MacSizes, AskedBools, Singles
<1> HIDE DEF T1, T2, T3, T4, T5, T6, T7
<1> QED
  BY <1>1, <1>2, <1>3, <1>4 DEF Added

(* What the mapper asks for: those of lists, and the rest. *)
LEMMA ListsAsked ==
  /\ DOMAIN Declared!AskedLists = AskedWide \cup AskedBytes \cup AskedInts \cup {"os/version",
       "phys/*/attrsJson"} \cup AskedBoth
  /\ \A n \in AskedWide : Declared!AskedLists[n] = <<"WString">>
  /\ \A n \in AskedBytes : Declared!AskedLists[n] = <<"UInt8">>
  /\ \A n \in AskedInts : Declared!AskedLists[n] = <<"Int32">>
  /\ \A n \in {"os/version", "phys/*/attrsJson"} : Declared!AskedLists[n] = <<"String">>
  /\ \A n \in AskedBoth : Declared!AskedLists[n] = <<"WString", "String">>
<1> DEFINE T1 == Declared!Each(<<"WString">>, AskedWide)
           T2 == Declared!++(T1, Declared!Each(<<"UInt8">>, AskedBytes))
           T3 == Declared!++(T2, Declared!Each(<<"Int32">>, AskedInts))
           T4 == Declared!++(T3, Declared!Each(<<"String">>, {"os/version",
                              "phys/*/attrsJson"}))
           T5 == Declared!++(T4, Declared!Each(<<"WString", "String">>, AskedBoth))
<1>1. Declared!AskedLists = T5
  BY DEF Declared!AskedLists, AskedWide, AskedBytes, AskedInts, AskedBoth, Declared!Each
<1>2. /\ DOMAIN T1 = AskedWide
      /\ \A n \in AskedWide : T1[n] = <<"WString">>
  BY DEF Declared!Each
<1>3. /\ Added(T1, <<"UInt8">>, AskedBytes, T2)
      /\ Added(T2, <<"Int32">>, AskedInts, T3)
      /\ Added(T3, <<"String">>, {"os/version", "phys/*/attrsJson"}, T4)
      /\ Added(T4, <<"WString", "String">>, AskedBoth, T5)
  BY Adds
<1>4. /\ \A n \in AskedBytes : n \notin AskedWide
      /\ \A n \in AskedInts : n \notin AskedWide \cup AskedBytes
      /\ \A n \in {"os/version", "phys/*/attrsJson"} : n \notin AskedWide \cup AskedBytes \cup
            AskedInts
      /\ \A n \in AskedBoth : n \notin AskedWide \cup AskedBytes \cup AskedInts \cup
            {"os/version", "phys/*/attrsJson"}
  BY DEF AskedWide, AskedBytes, AskedInts, AskedBoth, Declared!Ints
<1> HIDE DEF T1, T2, T3, T4, T5
<1> QED
  BY <1>1, <1>2, <1>3, <1>4 DEF Added

(* What the tools of macOS ask for. *)
LEMMA CpuToolsAsk ==
  /\ DOMAIN Declared!CpuTools = ToolCores \cup ToolReals \cup ToolSizes \cup ToolTexts \cup
       ToolDisks
  /\ \A n \in ToolCores : Declared!CpuTools[n] = "Int32"
  /\ \A n \in ToolReals : Declared!CpuTools[n] = "Float64"
  /\ \A n \in ToolSizes : Declared!CpuTools[n] = "UInt64"
  /\ \A n \in ToolTexts : Declared!CpuTools[n] = "String"
  /\ \A n \in ToolDisks : Declared!CpuTools[n] = "UInt64"
<1> DEFINE T1 == Declared!Each("Int32", ToolCores)
           T2 == Declared!++(T1, Declared!Each("Float64", ToolReals))
           T3 == Declared!++(T2, Declared!Each("UInt64", ToolSizes))
           T4 == Declared!++(T3, Declared!Each("String", ToolTexts))
           T5 == Declared!++(T4, Declared!Each("UInt64", ToolDisks))
<1>1. Declared!CpuTools = T5
  BY DEF Declared!CpuTools, ToolCores, ToolReals, ToolSizes, ToolTexts, ToolDisks, Declared!Each
<1>2. /\ DOMAIN T1 = ToolCores
      /\ \A n \in ToolCores : T1[n] = "Int32"
  BY DEF Declared!Each
<1>3. /\ Added(T1, "Float64", ToolReals, T2)
      /\ Added(T2, "UInt64", ToolSizes, T3)
      /\ Added(T3, "String", ToolTexts, T4)
      /\ Added(T4, "UInt64", ToolDisks, T5)
  BY Adds
<1>4. /\ \A n \in ToolReals : n \notin ToolCores
      /\ \A n \in ToolSizes : n \notin ToolCores \cup ToolReals
      /\ \A n \in ToolTexts : n \notin ToolCores \cup ToolReals \cup ToolSizes
      /\ \A n \in ToolDisks : n \notin ToolCores \cup ToolReals \cup ToolSizes \cup ToolTexts
  BY DEF ToolCores, ToolReals, ToolSizes, ToolTexts, ToolDisks, Declared!Cores
<1> HIDE DEF T1, T2, T3, T4, T5
<1> QED
  BY <1>1, <1>2, <1>3, <1>4 DEF Added

(* And the rest of them. *)
LEMMA OtherToolsAsk ==
  /\ DOMAIN Declared!OtherTools = {"phys/*/smartSupported", "battery/acOnline"} \cup
       {"battery/percent"} \cup OtherTexts \cup ToolSpeeds \cup {"sensor/*/value"}
  /\ \A n \in {"phys/*/smartSupported", "battery/acOnline"} : Declared!OtherTools[n] = "Bool"
  /\ \A n \in {"battery/percent"} : Declared!OtherTools[n] = "Int32"
  /\ \A n \in OtherTexts : Declared!OtherTools[n] = "String"
  /\ \A n \in ToolSpeeds : Declared!OtherTools[n] = "UInt64"
  /\ \A n \in {"sensor/*/value"} : Declared!OtherTools[n] = "Float32"
<1> DEFINE T1 == Declared!Each("Bool", {"phys/*/smartSupported", "battery/acOnline"})
           T2 == Declared!++(T1, Declared!Each("Int32", {"battery/percent"}))
           T3 == Declared!++(T2, Declared!Each("String", OtherTexts))
           T4 == Declared!++(T3, Declared!Each("UInt64", ToolSpeeds))
           T5 == Declared!++(T4, Declared!Each("Float32", {"sensor/*/value"}))
<1>1. Declared!OtherTools = T5
  BY DEF Declared!OtherTools, OtherTexts, ToolSpeeds, Declared!Each
<1>2. /\ DOMAIN T1 = {"phys/*/smartSupported", "battery/acOnline"}
      /\ \A n \in {"phys/*/smartSupported", "battery/acOnline"} : T1[n] = "Bool"
  BY DEF Declared!Each
<1>3. /\ Added(T1, "Int32", {"battery/percent"}, T2)
      /\ Added(T2, "String", OtherTexts, T3)
      /\ Added(T3, "UInt64", ToolSpeeds, T4)
      /\ Added(T4, "Float32", {"sensor/*/value"}, T5)
  BY Adds
<1>4. /\ \A n \in {"battery/percent"} : n \notin {"phys/*/smartSupported", "battery/acOnline"}
      /\ \A n \in OtherTexts : n \notin {"phys/*/smartSupported", "battery/acOnline"} \cup
            {"battery/percent"}
      /\ \A n \in ToolSpeeds : n \notin {"phys/*/smartSupported", "battery/acOnline"} \cup
            {"battery/percent"} \cup OtherTexts
      /\ \A n \in {"sensor/*/value"} : n \notin {"phys/*/smartSupported", "battery/acOnline"}
            \cup {"battery/percent"} \cup OtherTexts \cup ToolSpeeds
  BY DEF OtherTexts, ToolSpeeds
<1> HIDE DEF T1, T2, T3, T4, T5
<1> QED
  BY <1>1, <1>2, <1>3, <1>4 DEF Added

-----------------------------------------------------------------------------
(* Schema: what comes of a field that is read.                             *)

SchemaInv == schemaOf \in {"mac", "windows"} /\ Declared!MappedAsWritten

Numbers == {"UInt8", "Bool", "Int32", "UInt32", "Float32", "UInt64", "Float64"}

(* A field of the type it is asked for in comes through. *)
LEMMA ReadEqual ==
  ASSUME NEW n, NEW x \in Numbers \cup {"String", "WString"},
         Declared!HasField(n), Declared!Schema[n] = x
  PROVE  Declared!ReadAs(n, x) = "value"
<1>1. CASE x \in Numbers
  <2>1. ~(Declared!Width[x] < Declared!Width[x])
    BY <1>1 DEF Declared!Width, Numbers
  <2> QED
    BY <1>1, <2>1 DEF Declared!ReadAs, Declared!ReadNumber, Declared!Alike, Numbers
<1>2. CASE x \in {"String", "WString"}
  BY <1>2 DEF Declared!ReadAs, Declared!ReadText
<1> QED
  BY <1>1, <1>2

(* One that is narrower than that is not read. *)
LEMMA ReadNarrower ==
  ASSUME NEW n, NEW x, Declared!HasField(n),
         \/ Declared!Schema[n] = "UInt8" /\ x = "Int32"
         \/ Declared!Schema[n] = "Float32" /\ x = "Float64"
  PROVE  Declared!ReadAs(n, x) = "nothing"
BY DEF Declared!ReadAs, Declared!ReadNumber, Declared!Width

(* macOS writes its texts in narrow characters, and ReadWString takes them. *)
LEMMA ReadMacText ==
  ASSUME NEW n, schemaOf = "mac", Declared!HasField(n), Declared!Schema[n] = "String"
  PROVE  Declared!ReadAs(n, "WString") = "value"
BY DEF Declared!ReadAs, Declared!ReadText

(* The mapper asks for one type, or for a second if the first gives nothing. *)
LEMMA MapOne ==
  ASSUME NEW n, NEW x, Declared!Asked[n] = <<x>>
  PROVE  Declared!MapField(n) = Declared!ReadAs(n, x)
<1> DEFINE found == {i \in DOMAIN Declared!Asked[n] :
                       Declared!ReadAs(n, Declared!Asked[n][i]) # "nothing"}
           c == CHOOSE i \in found : \A j \in found : i <= j
<1>1. DOMAIN Declared!Asked[n] = {1} /\ Declared!Asked[n][1] = x
  OBVIOUS
<1>2. found = IF Declared!ReadAs(n, x) = "nothing" THEN {} ELSE {1}
  BY <1>1
<1>3. Declared!ReadAs(n, x) # "nothing" => c = 1
  BY <1>2
<1>4. Declared!MapField(n) =
        IF found = {} THEN "nothing" ELSE Declared!ReadAs(n, Declared!Asked[n][c])
  BY DEF Declared!MapField
<1> HIDE DEF found, c
<1> QED
  BY <1>1, <1>2, <1>3, <1>4

(* The second type is used exactly when the first gives nothing. *)
LEMMA MapTwo ==
  ASSUME NEW n, NEW x, NEW y, Declared!Asked[n] = <<x, y>>
  PROVE  Declared!MapField(n) = IF Declared!ReadAs(n, x) # "nothing" THEN Declared!ReadAs(n, x)
                                ELSE Declared!ReadAs(n, y)
<1> DEFINE found == {i \in DOMAIN Declared!Asked[n] :
                       Declared!ReadAs(n, Declared!Asked[n][i]) # "nothing"}
           c == CHOOSE i \in found : \A j \in found : i <= j
<1>1. /\ DOMAIN Declared!Asked[n] = {1, 2}
      /\ Declared!Asked[n][1] = x /\ Declared!Asked[n][2] = y
  OBVIOUS
<1>2. Declared!MapField(n) =
        IF found = {} THEN "nothing" ELSE Declared!ReadAs(n, Declared!Asked[n][c])
  BY DEF Declared!MapField
<1>3. CASE Declared!ReadAs(n, x) # "nothing"
  <2>1. 1 \in found /\ \A j \in found : j = 1 \/ j = 2
    BY <1>1, <1>3
  <2>2. c \in found /\ \A j \in found : c <= j
    <3>1. \A j \in found : 1 <= j
      BY <2>1
    <3> QED
      BY <2>1, <3>1
  <2>3. c = 1
    BY <2>1, <2>2
  <2> HIDE DEF found, c
  <2> QED
    BY <1>1, <1>2, <1>3, <2>1, <2>3
<1>4. CASE Declared!ReadAs(n, x) = "nothing" /\ Declared!ReadAs(n, y) # "nothing"
  <2>1. found = {2}
    BY <1>1, <1>4
  <2>2. c = 2
    BY <2>1
  <2> HIDE DEF found, c
  <2> QED
    BY <1>1, <1>2, <1>4, <2>1, <2>2
<1>5. CASE Declared!ReadAs(n, x) = "nothing" /\ Declared!ReadAs(n, y) = "nothing"
  <2>1. found = {}
    BY <1>1, <1>5
  <2> QED
    BY <1>2, <1>5, <2>1
<1> QED
  BY <1>3, <1>4, <1>5

(* Fields that only the other build declares. *)
LEMMA NotDeclared ==
  /\ \A n \in {"cpu/freq/base", "phys/*/letterCount", "tpm/isEnabled", "tpm/isActive",
               "disk/*/letter", "phys/*/letter", "tpm/status", "tpm/selfTestStatus",
               "tpm/count", "wifi/band", "wifi/gen", "tpm/manufacturer",
               "tpm/firmwareVersion", ""} : n \notin DOMAIN Declared!MacSchema
  /\ \A n \in {"cpu/sampleIntervalMs", "memory/swapUsed", "memory/swapTotal", ""} :
       n \notin DOMAIN Declared!WindowsSchema
<1>1. \A n \in Singles : n \notin Declared!Cores \cup Declared!Reals \cup Declared!Sizes \cup
        Declared!Bools \cup Declared!Ints \cup Declared!Texts
  BY FieldsApart
<1>2. ASSUME NEW n \in {"cpu/freq/base", "phys/*/letterCount", "tpm/isEnabled", "tpm/isActive",
                        "disk/*/letter", "phys/*/letter", "tpm/status", "tpm/selfTestStatus",
                        "tpm/count", "wifi/band", "wifi/gen", "tpm/manufacturer",
                        "tpm/firmwareVersion", ""}
      PROVE  n \notin DOMAIN Declared!MacSchema
  <2>1. n \in Singles
    BY DEF Singles
  <2>2. n \notin MacReals /\ n \notin MacSizes /\ n \notin MacTexts /\ n # "memory/ramSpeed"
    BY <1>1, <2>1 DEF MacReals, MacSizes, MacTexts
  <2> QED
    BY <1>1, <2>1, <2>2, MacTypes
<1>3. ASSUME NEW n \in {"cpu/sampleIntervalMs", "memory/swapUsed", "memory/swapTotal", ""}
      PROVE  n \notin DOMAIN Declared!WindowsSchema
  <2>1. n \in Singles
    BY DEF Singles
  <2>2. /\ n \notin WindowsInts /\ n \notin WindowsReals /\ n \notin WindowsBools
        /\ n \notin WindowsBytes /\ n \notin WindowsTexts
        /\ n \notin {"memory/ramSpeed", "phys/*/attrsJson"}
    BY <1>1, <2>1 DEF WindowsInts, WindowsReals, WindowsBools, WindowsBytes, WindowsTexts
  <2> QED
    BY <1>1, <2>1, <2>2, WindowsTypes
<1> QED
  BY <1>2, <1>3

(* The fields asked for, by the types they are asked for in. *)
LEMMA AskedIs ==
  ASSUME NEW n \in DOMAIN Declared!Asked
  PROVE  \/ n \in Declared!Cores /\ Declared!Asked[n] = <<"Int32", "UInt8">>
         \/ n \in AskedReals /\ Declared!Asked[n] = <<"Float64", "Float32">>
         \/ /\ n \in {"cpu/sampleIntervalMs", "phys/*/temperature"}
            /\ Declared!Asked[n] = <<"Float64">>
         \/ n \in MacSizes /\ Declared!Asked[n] = <<"UInt64">>
         \/ n = "memory/ramSpeed" /\ Declared!Asked[n] = <<"UInt32">>
         \/ n \in AskedBools /\ Declared!Asked[n] = <<"Bool">>
         \/ n = "phys/*/health" /\ Declared!Asked[n] = <<"Float32">>
         \/ n \in AskedWide /\ Declared!Asked[n] = <<"WString">>
         \/ n \in AskedBytes /\ Declared!Asked[n] = <<"UInt8">>
         \/ n \in AskedInts /\ Declared!Asked[n] = <<"Int32">>
         \/ n \in {"os/version", "phys/*/attrsJson"} /\ Declared!Asked[n] = <<"String">>
         \/ n \in AskedBoth /\ Declared!Asked[n] = <<"WString", "String">>
<1>1. \/ n \in DOMAIN Declared!AskedScalars /\ Declared!Asked[n] = Declared!AskedScalars[n]
      \/ n \in DOMAIN Declared!AskedLists /\ Declared!Asked[n] = Declared!AskedLists[n]
  BY DEF Declared!Asked, Declared!++
<1>2. CASE n \in DOMAIN Declared!AskedScalars /\ Declared!Asked[n] = Declared!AskedScalars[n]
  BY <1>2, ScalarsAsked
<1>3. CASE n \in DOMAIN Declared!AskedLists /\ Declared!Asked[n] = Declared!AskedLists[n]
  BY <1>3, ListsAsked
<1> QED
  BY <1>1, <1>2, <1>3

(* Every field that macOS declares, but for its two, comes through to the mapper. *)
LEMMA MacMapped ==
  ASSUME schemaOf = "mac", NEW n \in DOMAIN Declared!Asked, Declared!HasField(n)
  PROVE  n \in Declared!Unread["mac"] \/ Declared!MapField(n) = "value"
<1>1. Declared!Schema = Declared!MacSchema /\ n \in DOMAIN Declared!MacSchema
  BY DEF Declared!Schema, Declared!HasField
<1>2. ASSUME NEW x \in Numbers \cup {"String", "WString"}, Declared!MacSchema[n] = x
      PROVE  Declared!ReadAs(n, x) = "value"
  BY <1>1, <1>2, ReadEqual
<1>3. CASE n \in Declared!Cores /\ Declared!Asked[n] = <<"Int32", "UInt8">>
  <2>1. Declared!MacSchema[n] = "UInt8"
    BY <1>3, MacTypes
  <2> QED
    BY <1>1, <1>2, <1>3, <2>1, MapTwo, ReadNarrower DEF Numbers
<1>4. CASE n \in AskedReals /\ Declared!Asked[n] = <<"Float64", "Float32">>
  <2>1. n # "cpu/freq/base"
    BY <1>1, NotDeclared
  <2>2. n \in MacReals
    BY <1>4, <2>1 DEF AskedReals, MacReals
  <2>3. Declared!MacSchema[n] = "Float32"
    BY <2>2, MacTypes
  <2> QED
    BY <1>1, <1>2, <1>4, <2>3, MapTwo, ReadNarrower DEF Numbers
<1>5. CASE n \in {"cpu/sampleIntervalMs", "phys/*/temperature"}
  BY <1>5 DEF Declared!Unread
<1>6. CASE n \in MacSizes /\ Declared!Asked[n] = <<"UInt64">>
  <2>1. Declared!MacSchema[n] = "UInt64"
    BY <1>6, MacTypes
  <2> QED
    BY <1>2, <1>6, <2>1, MapOne DEF Numbers
<1>7. CASE n = "memory/ramSpeed" /\ Declared!Asked[n] = <<"UInt32">>
  <2>1. Declared!MacSchema[n] = "UInt32"
    BY <1>7, MacTypes
  <2> QED
    BY <1>2, <1>7, <2>1, MapOne DEF Numbers
<1>8. CASE n \in AskedBools /\ Declared!Asked[n] = <<"Bool">>
  <2>1. Declared!MacSchema[n] = "Bool"
    BY <1>1, <1>8, MacTypes, NotDeclared DEF AskedBools
  <2> QED
    BY <1>2, <1>8, <2>1, MapOne DEF Numbers
<1>9. CASE n = "phys/*/health" /\ Declared!Asked[n] = <<"Float32">>
  <2>1. Declared!MacSchema[n] = "Float32"
    BY <1>9, MacTypes DEF MacReals
  <2> QED
    BY <1>2, <1>9, <2>1, MapOne DEF Numbers
<1>10. CASE n \in AskedWide /\ Declared!Asked[n] = <<"WString">>
  <2>1. n \in Declared!Texts
    BY <1>1, <1>10, NotDeclared DEF AskedWide, Declared!Texts
  <2>2. Declared!MacSchema[n] = "String"
    BY <2>1, MacTypes DEF MacTexts
  <2> QED
    BY <1>1, <1>10, <2>2, MapOne, ReadMacText
<1>11. CASE n \in AskedBytes
  BY <1>1, <1>11, NotDeclared DEF AskedBytes
<1>12. CASE n \in AskedInts /\ Declared!Asked[n] = <<"Int32">>
  <2>1. Declared!MacSchema[n] = "Int32"
    BY <1>1, <1>12, MacTypes, NotDeclared DEF AskedInts
  <2> QED
    BY <1>2, <1>12, <2>1, MapOne DEF Numbers
<1>13. CASE n \in {"os/version", "phys/*/attrsJson"} /\ Declared!Asked[n] = <<"String">>
  <2>1. Declared!MacSchema[n] = "String"
    BY <1>13, MacTypes DEF MacTexts, Declared!Texts
  <2> QED
    BY <1>2, <1>13, <2>1, MapOne
<1>14. CASE n \in AskedBoth /\ Declared!Asked[n] = <<"WString", "String">>
  <2>1. n \in Declared!Texts
    BY <1>1, <1>14, NotDeclared DEF AskedBoth, Declared!Texts
  <2>2. Declared!MacSchema[n] = "String"
    BY <2>1, MacTypes DEF MacTexts
  <2> QED
    BY <1>1, <1>14, <2>2, MapTwo, ReadMacText
<1> QED
  BY <1>3, <1>4, <1>5, <1>6, <1>7, <1>8, <1>9, <1>10, <1>11, <1>12, <1>13, <1>14, AskedIs

(* And every field that Windows declares, but for its two. *)
LEMMA WindowsMapped ==
  ASSUME schemaOf = "windows", NEW n \in DOMAIN Declared!Asked, Declared!HasField(n)
  PROVE  n \in Declared!Unread["windows"] \/ Declared!MapField(n) = "value"
<1>1. Declared!Schema = Declared!WindowsSchema /\ n \in DOMAIN Declared!WindowsSchema
  BY DEF Declared!Schema, Declared!HasField
<1>2. ASSUME NEW x \in Numbers \cup {"String", "WString"}, Declared!WindowsSchema[n] = x
      PROVE  Declared!ReadAs(n, x) = "value"
  BY <1>1, <1>2, ReadEqual
<1>3. ASSUME NEW x \in Numbers \cup {"String", "WString"}, Declared!WindowsSchema[n] = x,
             \/ Declared!Asked[n] = <<x>>
             \/ \E y : Declared!Asked[n] = <<x, y>>
      PROVE  Declared!MapField(n) = "value"
  BY <1>2, <1>3, MapOne, MapTwo
<1>4. CASE n \in Declared!Cores /\ Declared!Asked[n] = <<"Int32", "UInt8">>
  BY <1>3, <1>4, WindowsTypes DEF WindowsInts, Numbers
<1>5. CASE n \in AskedReals /\ Declared!Asked[n] = <<"Float64", "Float32">>
  BY <1>3, <1>5, WindowsTypes DEF WindowsReals, AskedReals, Numbers
<1>6. CASE /\ n \in {"cpu/sampleIntervalMs", "phys/*/temperature"}
           /\ Declared!Asked[n] = <<"Float64">>
  <2>1. n \in WindowsReals
    BY <1>1, <1>6, NotDeclared DEF WindowsReals, Declared!Reals
  <2> QED
    BY <1>3, <1>6, <2>1, WindowsTypes DEF Numbers
<1>7. CASE n \in MacSizes /\ Declared!Asked[n] = <<"UInt64">>
  BY <1>1, <1>3, <1>7, WindowsTypes, NotDeclared DEF MacSizes, Numbers
<1>8. CASE n = "memory/ramSpeed" /\ Declared!Asked[n] = <<"UInt32">>
  BY <1>3, <1>8, WindowsTypes DEF Numbers
<1>9. CASE n \in AskedBools /\ Declared!Asked[n] = <<"Bool">>
  BY <1>3, <1>9, WindowsTypes DEF WindowsBools, AskedBools, Numbers
<1>10. CASE n = "phys/*/health"
  BY <1>10 DEF Declared!Unread
<1>11. CASE n \in AskedWide /\ Declared!Asked[n] = <<"WString">>
  <2>1. n \in WindowsTexts
    BY <1>11 DEF AskedWide, WindowsTexts, Declared!Texts
  <2> QED
    BY <1>3, <1>11, <2>1, WindowsTypes
<1>12. CASE n \in AskedBytes /\ Declared!Asked[n] = <<"UInt8">>
  <2>1. n \in WindowsBytes
    BY <1>12 DEF AskedBytes, WindowsBytes
  <2> QED
    BY <1>3, <1>12, <2>1, WindowsTypes DEF Numbers
<1>13. CASE n \in AskedInts /\ Declared!Asked[n] = <<"Int32">>
  BY <1>3, <1>13, WindowsTypes DEF WindowsInts, AskedInts, Numbers
<1>14. CASE n \in {"os/version", "phys/*/attrsJson"} /\ Declared!Asked[n] = <<"String">>
  BY <1>3, <1>14, WindowsTypes DEF Declared!Unread
<1>15. CASE n \in AskedBoth /\ Declared!Asked[n] = <<"WString", "String">>
  <2>1. n \in WindowsTexts
    BY <1>15 DEF AskedBoth, WindowsTexts, Declared!Texts
  <2> QED
    BY <1>3, <1>15, <2>1, WindowsTypes
<1> QED
  BY <1>4, <1>5, <1>6, <1>7, <1>8, <1>9, <1>10, <1>11, <1>12, <1>13, <1>14, <1>15, AskedIs

(* What an MCP tool asks for comes through, unless it asks for a real in twice its width. *)
LEMMA ToolsRead ==
  ASSUME schemaOf = "mac", NEW n \in DOMAIN Declared!Tools, Declared!HasField(n)
  PROVE  n \in Declared!HalfRead \/ Declared!ReadTool(n) = "value"
<1>1. Declared!Schema = Declared!MacSchema /\ n \in DOMAIN Declared!MacSchema
  BY DEF Declared!Schema, Declared!HasField
<1>2. \/ n \in DOMAIN Declared!CpuTools /\ Declared!Tools[n] = Declared!CpuTools[n]
      \/ n \in DOMAIN Declared!OtherTools /\ Declared!Tools[n] = Declared!OtherTools[n]
  BY DEF Declared!Tools, Declared!++
<1>3. \/ n \in Declared!Cores /\ Declared!Tools[n] = "Int32"
      \/ n \in ToolReals /\ Declared!Tools[n] = "Float64"
      \/ n \in ToolSizes \cup ToolDisks \cup ToolSpeeds /\ Declared!Tools[n] = "UInt64"
      \/ n \in ToolTexts \cup OtherTexts /\ Declared!Tools[n] = "String"
      \/ n \in {"phys/*/smartSupported", "battery/acOnline"} /\ Declared!Tools[n] = "Bool"
      \/ n = "battery/percent" /\ Declared!Tools[n] = "Int32"
      \/ n = "sensor/*/value" /\ Declared!Tools[n] = "Float32"
  <2>1. CASE n \in DOMAIN Declared!CpuTools /\ Declared!Tools[n] = Declared!CpuTools[n]
    BY <2>1, CpuToolsAsk DEF ToolCores
  <2>2. CASE n \in DOMAIN Declared!OtherTools /\ Declared!Tools[n] = Declared!OtherTools[n]
    BY <2>2, OtherToolsAsk
  <2> QED
    BY <1>2, <2>1, <2>2
<1>4. ASSUME Declared!Tools[n] = Declared!MacSchema[n]
      PROVE  Declared!ReadTool(n) = "value"
  BY <1>1, <1>4 DEF Declared!ReadTool, Declared!ReadBytes, Declared!ReadNumeric, Declared!Alike
<1>5. CASE n \in Declared!Cores /\ Declared!Tools[n] = "Int32"
  <2>1. Declared!MacSchema[n] = "UInt8"
    BY <1>5, MacTypes
  <2> QED
    BY <1>1, <1>5, <2>1 DEF Declared!ReadTool, Declared!ReadNumeric
<1>6. CASE n \in ToolReals /\ Declared!Tools[n] = "Float64"
  <2>1. Declared!MacSchema[n] = "Float32"
    BY <1>6, MacTypes DEF ToolReals, MacReals, Declared!Reals
  <2> QED
    BY <1>1, <1>6, <2>1 DEF Declared!HalfRead
<1>7. CASE n \in ToolSizes \cup ToolDisks \cup ToolSpeeds /\ Declared!Tools[n] = "UInt64"
  <2>1. n \in MacSizes
    BY <1>7 DEF ToolSizes, ToolDisks, ToolSpeeds, MacSizes, Declared!Sizes
  <2> QED
    BY <1>4, <1>7, <2>1, MacTypes
<1>8. CASE n \in ToolTexts \cup OtherTexts /\ Declared!Tools[n] = "String"
  <2>1. n \in MacTexts
    BY <1>8 DEF ToolTexts, OtherTexts, MacTexts, Declared!Texts
  <2> QED
    BY <1>4, <1>8, <2>1, MacTypes
<1>9. CASE n \in {"phys/*/smartSupported", "battery/acOnline"} /\ Declared!Tools[n] = "Bool"
  <2>1. n \in Declared!Bools
    BY <1>9 DEF Declared!Bools
  <2> QED
    BY <1>4, <1>9, <2>1, MacTypes
<1>10. CASE n = "battery/percent" /\ Declared!Tools[n] = "Int32"
  <2>1. n \in Declared!Ints
    BY <1>10 DEF Declared!Ints
  <2> QED
    BY <1>4, <1>10, <2>1, MacTypes
<1>11. CASE n = "sensor/*/value" /\ Declared!Tools[n] = "Float32"
  <2>1. n \in MacReals
    BY <1>11 DEF MacReals, Declared!Reals
  <2> QED
    BY <1>4, <1>11, <2>1, MacTypes
<1> QED
  BY <1>3, <1>5, <1>6, <1>7, <1>8, <1>9, <1>10, <1>11

(* Each read of a client leaves a field that came through, or one of the exceptions. *)
LEMMA SchemaStep ==
  ASSUME SchemaInv, Declared!SchemaNext
  PROVE  SchemaInv'
<1>1. schemaOf \in {"mac", "windows"} /\ schemaOf' = schemaOf
  BY DEF SchemaInv, Declared!SchemaNext, Declared!AvaloniaReads, Declared!McpReads
<1>2. /\ \A n : Declared!HasField(n)' = Declared!HasField(n)
      /\ Declared!HalfRead' = Declared!HalfRead
  BY <1>1 DEF Declared!HasField, Declared!HalfRead, Declared!Schema
<1>3. ASSUME NEW n \in DOMAIN Declared!Asked, Declared!AvaloniaReads(n)
      PROVE  Declared!MappedAsWritten'
  <2>1. lookup' = [by |-> "avalonia", field |-> n, got |-> Declared!MapField(n)]
    BY <1>3 DEF Declared!AvaloniaReads
  <2>2. Declared!HasField(n) => n \in Declared!Unread[schemaOf] \/ Declared!MapField(n) = "value"
    BY <1>1, MacMapped, WindowsMapped
  <2> QED
    BY <1>1, <1>2, <2>1, <2>2 DEF Declared!MappedAsWritten
<1>4. ASSUME NEW n \in DOMAIN Declared!Tools, schemaOf = "mac", Declared!McpReads(n)
      PROVE  Declared!MappedAsWritten'
  <2>1. lookup' = [by |-> "mcp", field |-> n, got |-> Declared!ReadTool(n)]
    BY <1>4 DEF Declared!McpReads
  <2>2. Declared!HasField(n) => n \in Declared!HalfRead \/ Declared!ReadTool(n) = "value"
    BY <1>4, ToolsRead
  <2> QED
    BY <1>1, <1>2, <2>1, <2>2 DEF Declared!MappedAsWritten
<1> QED
  BY <1>1, <1>3, <1>4 DEF Declared!SchemaNext, SchemaInv

(* What a server declares and a client asks for comes through as it was written, to   *)
(* the Avalonia client and to the MCP tools, but for the fields named in the property *)
(* (BuildIPCDataBlockSchema, IPCMemoryReader, IPCSystemInfoMapper, ReadNumeric).      *)
THEOREM FieldsMapped == ReadingsSpec => []MappedAsWritten
<1>1. ReadingsInit => SchemaInv
  <2> SUFFICES ASSUME ReadingsInit PROVE SchemaInv
    OBVIOUS
  <2>1. schemaOf \in {"mac", "windows"} /\ lookup.field = ""
    BY SchemaAssumption DEF ReadingsInit, Declared!SchemaInit
  <2>2. ~Declared!HasField("")
    BY <2>1, NotDeclared DEF Declared!HasField, Declared!Schema
  <2> QED
    BY <2>1, <2>2 DEF SchemaInv, Declared!MappedAsWritten
<1>2. SchemaInv /\ [ReadingsNext]_allVars => SchemaInv'
  <2> SUFFICES ASSUME SchemaInv, [ReadingsNext]_allVars PROVE SchemaInv'
    OBVIOUS
  <2>1. CASE SchemaSteps
    BY <2>1, SchemaStep DEF SchemaSteps
  <2>2. CASE ~SchemaSteps
    <3>1. UNCHANGED schemaVars
      BY <2>2 DEF ReadingsNext, allVars, LockSteps, McpSteps, ShotSteps, BlockSteps, SampleSteps,
                  ScreenSteps, TempsSteps
    <3> QED
      BY <3>1 DEF schemaVars, SchemaInv, Declared!MappedAsWritten, Declared!HasField,
                  Declared!HalfRead, Declared!Schema
  <2> QED
    BY <2>1, <2>2
<1>3. SchemaInv => MappedAsWritten
  BY DEF SchemaInv, MappedAsWritten
<1> QED
  BY <1>1, <1>2, <1>3, PTL DEF ReadingsSpec
================================================================================
