-------------------------- MODULE WebConsoleProofs --------------------------
(***************************************************************************)
(* Proofs about WebConsole: confirming the dialog for limits without       *)
(* editing keeps the limit, whatever the numbers; a busy button awaits one *)
(* answer; the page shows the server's list.  All of it for any number of  *)
(* requests, in any order of processing, answers and failures.             *)
(***************************************************************************)
EXTENDS WebConsole, FiniteSetTheorems, TLAPS

-----------------------------------------------------------------------------
(***************************************************************************)
(* The numbers.                                                            *)
(***************************************************************************)
\* The quotient of two positive numbers, by its defining inequalities.
LEMMA DivBounds ==
    ASSUME NEW a \in Nat, NEW b \in Nat \ {0}
    PROVE  /\ a \div b \in Nat
           /\ (a \div b) * b <= a
           /\ a < (a \div b) * b + b
  BY Z3

\* q <= a \div b says q * b <= a.
LEMMA DivGalois ==
    ASSUME NEW a \in Nat, NEW b \in Nat \ {0}, NEW q \in Nat
    PROVE  q <= a \div b <=> q * b <= a
<1> DEFINE d == a \div b
<1>1. d \in Nat /\ d * b <= a /\ a < d * b + b
  BY DivBounds
<1> HIDE DEF d
<1>2. ASSUME q <= d PROVE q * b <= a
  <2>1. q * b <= d * b
    BY <1>1, <1>2, Z3
  <2> QED
    BY <2>1, <1>1
<1>3. ASSUME q >= d + 1 PROVE ~(q * b <= a)
  <2>1. (d + 1) * b <= q * b
    BY <1>1, <1>3, Z3
  <2>2. (d + 1) * b = d * b + b
    BY <1>1, Z3
  <2> QED
    BY <2>1, <2>2, <1>1
<1>4. q <= d \/ q >= d + 1
  BY <1>1
<1> QED
  BY <1>2, <1>3, <1>4, <1>1 DEF d

\* A speed, its interval, the speed that is shown, and its interval again.
LEMMA IntervalAgain ==
    ASSUME NEW S \in Nat \ {0}, NEW s \in 1 .. S
    PROVE  LET i == S \div s
               q == S \div i
           IN  i \in 1 .. S /\ q \in 1 .. S /\ S \div q = i
<1> DEFINE i == S \div s
<1>1. i \in Nat /\ i * s <= S
  BY DivBounds
<1>2. 1 <= i
  <2>1. 1 <= i <=> 1 * s <= S
    BY DivGalois
  <2> QED
    BY <2>1
<1>3. i <= S
  <2>1. i * 1 <= i * s
    <3> HIDE DEF i
    <3> QED
      BY <1>1, Z3
  <2> QED
    BY <2>1, <1>1
<1> DEFINE q == S \div i
<1>4. q \in Nat /\ q * i <= S
  BY <1>1, <1>2, DivBounds
<1>5. s <= q
  <2>1. s <= q <=> s * i <= S
    BY <1>1, <1>2, DivGalois
  <2>2. s * i = i * s
    BY <1>1, Z3
  <2> QED
    BY <2>1, <2>2, <1>1
<1>6. q <= S
  <2>1. q * 1 <= q * i
    <3> HIDE DEF i, q
    <3> QED
      BY <1>1, <1>2, <1>4, Z3
  <2> QED
    BY <2>1, <1>4
<1> DEFINE j == S \div q
<1>7. j \in Nat /\ j * q <= S
  BY <1>4, <1>5, DivBounds
<1>8. i <= j
  <2>1. i <= j <=> i * q <= S
    BY <1>1, <1>4, <1>5, DivGalois
  <2>2. i * q = q * i
    <3> HIDE DEF i, q
    <3> QED
      BY <1>1, <1>4, Z3
  <2> QED
    BY <2>1, <2>2, <1>4
<1>9. j <= i
  <2>1. j <= i <=> j * s <= S
    BY <1>7, DivGalois
  <2>2. j * s <= j * q
    <3> HIDE DEF j, q
    <3> QED
      BY <1>4, <1>5, <1>7, Z3
  <2>3. j * s \in Nat /\ j * q \in Nat
    BY <1>4, <1>7
  <2> QED
    BY <2>1, <2>2, <2>3, <1>7
<1>10. j = i
  <2> HIDE DEF i, j
  <2> QED
    BY <1>1, <1>7, <1>8, <1>9
<1> HIDE DEF i, q, j
<1>11. i \in 1 .. S /\ q \in 1 .. S /\ j = i
  BY <1>1, <1>2, <1>3, <1>4, <1>5, <1>6, <1>10
<1> QED
  BY <1>11 DEF i, q, j

\* A number of milliseconds survives the way through nanoseconds.
LEMMA TimeoutAgain ==
    ASSUME NEW t \in Int
    PROVE  Milliseconds(t * Millisecond) = t
<1>1. Millisecond \in Nat \ {0}
  BY QpsLimiterAssumption
<1>2. ASSUME NEW a \in Nat
      PROVE  (a * Millisecond) \div Millisecond = a
  <2> DEFINE d == (a * Millisecond) \div Millisecond
             n == a * Millisecond
  <2>0. n \in Nat
    BY <1>1, Z3
  <2>1. a <= d
    BY <1>1, <2>0, DivGalois, n <= n
  <2>2. ~(a + 1 <= d)
    <3>1. a + 1 <= d <=> (a + 1) * Millisecond <= n
      BY <1>1, <2>0, DivGalois
    <3>2. (a + 1) * Millisecond = n + Millisecond
      BY <1>1, Z3
    <3> QED
      BY <3>1, <3>2, <1>1, <2>0
  <2>3. d \in Nat
    BY <1>1, <2>0, DivBounds
  <2> HIDE DEF d
  <2>4. d = a
    BY <2>1, <2>2, <2>3
  <2> QED
    BY <2>4 DEF d
<1>3. CASE t >= 0
  <2>1. ~(t * Millisecond < 0)
    BY <1>1, <1>3, Z3
  <2> QED
    BY <2>1, <1>2, <1>3 DEF Milliseconds
<1>4. CASE t < 0
  <2>1. t * Millisecond < 0 /\ -(t * Millisecond) = (-t) * Millisecond /\ -t \in Nat
    BY <1>1, <1>4, Z3
  <2>2. ((-t) * Millisecond) \div Millisecond = -t
    BY <2>1, <1>2
  <2> QED
    BY <2>1, <2>2 DEF Milliseconds
<1> QED
  BY <1>3, <1>4

\* The interval of a limiter is 0 or that of a speed in range.
LEMMA IntervalOf ==
    ASSUME NEW info \in Form
    PROVE  LET l == SetRateLimiter(info)
           IN  l.interval = 0 \/ (info.speed \in 1 .. Second /\ l.interval = Second \div info.speed)
  BY DEF SetRateLimiter, NewQpsRateLimiter, Interval, Form

\* SetRateLimiter makes limiters.
LEMMA SetRateLimiterType ==
    ASSUME NEW info \in Form
    PROVE  SetRateLimiter(info) \in Limiter
<1> DEFINE l == SetRateLimiter(info)
<1>1. l.interval \in 0 .. Second
  <2>1. Second \in Nat \ {0}
    BY QpsLimiterAssumption
  <2>2. ASSUME info.speed \in 1 .. Second PROVE Second \div info.speed \in 1 .. Second
    BY <2>1, <2>2, IntervalAgain
  <2> QED
    BY <2>1, <2>2, IntervalOf
<1>2. l.burst \in Int
  BY DEF SetRateLimiter, NewQpsRateLimiter, Form
<1>3. l.timeout \in Int
  BY QpsLimiterAssumption DEF SetRateLimiter, NewQpsRateLimiter, Form
<1>4. l = [interval |-> l.interval, burst |-> l.burst, timeout |-> l.timeout]
  BY DEF SetRateLimiter
<1> HIDE DEF l
<1>5. l \in Limiter
  BY <1>1, <1>2, <1>3, <1>4 DEF Limiter
<1> QED
  BY <1>5 DEF l

\* The limiters there are: the one of a first request, and those that were set.
Reachable == {NewQpsRateLimiter} \cup {SetRateLimiter(info) : info \in Form}

(***************************************************************************)
(* The way to the browser and back (SetRate, GetSpeed, GetTimeout,         *)
(* doGetMehtodLimiter, SetRateModal, SetRateLimiter): for every length of  *)
(* a second and a millisecond, setting what the dialog shows of a limiter  *)
(* gives the same limit again, unless its speed is one that float64 rounds *)
(* down.  No sequence of unedited confirmations makes a limit drift.       *)
(***************************************************************************)
THEOREM ShownLimitIsKept ==
    ASSUME NEW l \in Reachable, NEW v \in MethodInfo(l), ~ Inexact(l)
    PROVE  v \in Form /\ SameLimit(l, SetRateLimiter(v))
<1>0. Second \in Nat \ {0} /\ Millisecond \in 1 .. Second /\ HugeSpeed \in Nat /\ HugeSpeed > Second
  BY QpsLimiterAssumption
<1>1. PICK s \in GetSpeed(l) :
        v = [speed |-> IF s <= 0 THEN 0 ELSE s, volumn |-> l.burst, timeout |-> GetTimeout(l)]
  BY DEF MethodInfo
<1>2. /\ v.speed = (IF s <= 0 THEN 0 ELSE s) /\ v.volumn = l.burst /\ v.timeout = GetTimeout(l)
      /\ v = [speed |-> v.speed, volumn |-> v.volumn, timeout |-> v.timeout]
  BY <1>1
<1>3. l.burst \in Int /\ l.timeout \in Int
      /\ (l.interval = 0 \/ \E r \in 1 .. Second : l.interval = Second \div r)
  <2>1. CASE l = NewQpsRateLimiter
    BY <2>1 DEF NewQpsRateLimiter
  <2>2. ASSUME NEW info \in Form, l = SetRateLimiter(info)
        PROVE  <1>3
    <3>1. SetRateLimiter(info) \in Limiter
      BY SetRateLimiterType
    <3> QED
      BY <2>2, <3>1, IntervalOf DEF Limiter
  <2> QED
    BY <2>1, <2>2 DEF Reachable
<1>4. v.speed \in Int /\ SetRateLimiter(v).interval = l.interval
      /\ (l.interval # 0 => v.speed # 0)
  <2>1. CASE l.interval = 0
    <3>1. s \in {-1, HugeSpeed}
      BY <2>1, <1>1 DEF GetSpeed
    <3>2. v.speed = 0 \/ v.speed = HugeSpeed
      BY <3>1, <1>2, <1>0
    <3> QED
      BY <3>2, <2>1, <1>0 DEF SetRateLimiter, NewQpsRateLimiter, Interval
  <2>2. ASSUME NEW r \in 1 .. Second, l.interval = Second \div r
        PROVE  <1>4
    <3> DEFINE i == Second \div r
               q == Second \div i
    <3>1. i \in 1 .. Second /\ q \in 1 .. Second /\ Second \div q = i
      BY <1>0, IntervalAgain
    <3> HIDE DEF i
    <3>2. l.interval = i
      BY <2>2 DEF i
    <3> HIDE DEF q
    <3>3. s = q
      BY <1>1, <3>1, <3>2 DEF GetSpeed, Inexact, q
    <3>4. v.speed = q
      BY <3>1, <3>3, <1>2
    <3> QED
      BY <3>1, <3>2, <3>4, <1>0 DEF SetRateLimiter, Interval
  <2> QED
    BY <2>1, <2>2, <1>3
<1>5. v.timeout \in Int /\ SetRateLimiter(v).timeout = l.timeout
  <2>1. ASSUME l.timeout = -1
        PROVE  <1>5
    <3>1. Milliseconds(-1) = -(1 \div Millisecond)
      BY DEF Milliseconds
    <3>2. CASE Millisecond = 1
      <4>1. 1 \div Millisecond = 1
        BY <3>2
      <4>2. v.timeout = -1
        BY <4>1, <3>1, <2>1, <1>2 DEF GetTimeout
      <4> QED
        BY <4>2, <3>2, <2>1 DEF SetRateLimiter
    <3>3. CASE Millisecond > 1
      <4>0. Millisecond \in Nat \ {0}
        BY <1>0
      <4>1. 1 \div Millisecond = 0
        <5>1. ~(1 <= 1 \div Millisecond)
          BY <4>0, <3>3, DivGalois
        <5> QED
          BY <5>1, <4>0, DivBounds
      <4>2. v.timeout = 0
        BY <4>1, <3>1, <2>1, <1>2 DEF GetTimeout
      <4> QED
        BY <4>2, <2>1 DEF SetRateLimiter, NewQpsRateLimiter
    <3> QED
      BY <3>2, <3>3, <1>0
  <2>2. ASSUME NEW t \in Int \ {0}, l.timeout = t * Millisecond
        PROVE  <1>5
    <3>1. v.timeout = t
      BY <2>2, <1>2, TimeoutAgain DEF GetTimeout
    <3> QED
      BY <3>1, <2>2 DEF SetRateLimiter
  <2>3. l.timeout = -1 \/ \E t \in Int \ {0} : l.timeout = t * Millisecond
    BY DEF Reachable, SetRateLimiter, NewQpsRateLimiter, Form
  <2> QED
    BY <2>1, <2>2, <2>3
<1>6. l.interval # 0 => SetRateLimiter(v).burst = l.burst
  BY <1>2, <1>4 DEF SetRateLimiter
<1>7. v \in Form
  BY <1>2, <1>3, <1>4, <1>5 DEF Form
<1> QED
  BY <1>4, <1>5, <1>6, <1>7 DEF SameLimit

-----------------------------------------------------------------------------
(***************************************************************************)
(* The dialog.  Fields that are as an answer gave them show the limiter    *)
(* there was then.                                                         *)
(***************************************************************************)
Shows(f) == f.of \in Methods /\ f.seen \in Reachable /\ f.val \in MethodInfo(f.seen)

\* Request i with the record r, when request q was the dialog's last for path t.
RequestOK(i, r, q, t) ==
    /\ r.kind = "add" => r.item \in Items
    /\ r.kind = "methodInfo" =>
         /\ r.item \in Methods
         /\ i = q => r.item = t
         /\ r.answered => Shows(r.fields) /\ r.fields.ask = i /\ r.fields.of = r.item
    /\ r.kind = "limiter" /\ r.own => Shows(r.fields) /\ r.fields.of = r.item

\* The fields of the dialog.
FormOK(f, q, t) ==
    /\ f.ask # 0 => Shows(f)
    /\ f.ask # 0 /\ f.ask = q => f.of = t

\* What is needed of the types.
ConsoleTypes ==
    /\ page \in Pages /\ sent \in Nat
    /\ DOMAIN net \subseteq 1 .. sent /\ \A i \in DOMAIN net : net[i] \in Request
    /\ visible \in [Dialogs -> BOOLEAN] /\ bubble \subseteq Items
    /\ target \in Items \cup Methods \cup {None}
    /\ form \in Fields /\ form.ask <= sent /\ asked \in 0 .. sent
    /\ server \subseteq Items \cup Methods
    /\ limits \in [Methods -> Reachable]

ConsoleInv ==
    /\ ConsoleTypes
    /\ \A i \in DOMAIN net : RequestOK(i, net[i], asked, target)
    /\ FormOK(form, asked, target)
    /\ visible["setRate"] => asked # 0
    /\ page = "rate" => bubble = {}
    /\ page # "rate" => asked = 0

\* Every limiter there can be is one by its type.
LEMMA ReachableType == Reachable \subseteq Limiter
<1>1. NewQpsRateLimiter \in Limiter
  BY QpsLimiterAssumption DEF NewQpsRateLimiter, Limiter
<1> QED
  BY <1>1, SetRateLimiterType DEF Reachable

\* What the dialog shows of a limiter is a value of its fields.
LEMMA MethodInfoType ==
    ASSUME NEW l \in Reachable, NEW v \in MethodInfo(l)
    PROVE  v \in Form
<1>0. Second \in Nat \ {0} /\ Millisecond \in Nat \ {0} /\ HugeSpeed \in Nat
  BY QpsLimiterAssumption
<1>1. l \in Limiter
  BY ReachableType
<1>2. l.burst \in Int /\ l.timeout \in Int /\ l.interval \in 0 .. Second
  BY <1>1 DEF Limiter
<1>3. ASSUME NEW s \in GetSpeed(l) PROVE s \in Int
  <2>1. CASE l.interval = 0
    BY <2>1, <1>0 DEF GetSpeed
  <2>2. CASE l.interval # 0
    <3>1. Second \div l.interval \in Nat
      BY <2>2, <1>0, <1>2, DivBounds
    <3> HIDE DEF GetSpeed
    <3>2. s = Second \div l.interval \/ s = (Second \div l.interval) - 1
      BY <2>2 DEF GetSpeed
    <3> QED
      BY <3>1, <3>2
  <2> QED
    BY <2>1, <2>2
<1>4. GetTimeout(l) \in Int
  <2>1. ASSUME NEW k \in Nat PROVE k \div Millisecond \in Nat
    BY <1>0, DivBounds
  <2>2. CASE l.timeout < 0
    <3>1. (-l.timeout) \div Millisecond \in Nat
      BY <2>1, <2>2, <1>2
    <3> QED
      BY <2>2, <3>1 DEF GetTimeout, Milliseconds
  <2>3. CASE ~(l.timeout < 0)
    <3>1. l.timeout \div Millisecond \in Nat
      BY <2>1, <2>3, <1>2
    <3> QED
      BY <2>3, <3>1 DEF GetTimeout, Milliseconds
  <2> QED
    BY <2>2, <2>3
<1> QED
  BY <1>2, <1>3, <1>4 DEF MethodInfo, Form

\* Empty fields are fields.
LEMMA EmptyFieldsType ==
    EmptyFields \in Fields /\ EmptyFields.ask = 0 /\ EmptyFields.val \in Form
<1>1. NewQpsRateLimiter \in Limiter
  BY QpsLimiterAssumption DEF NewQpsRateLimiter, Limiter
<1>2. [speed |-> 0, volumn |-> 0, timeout |-> 0] \in Form
  BY DEF Form
<1> QED
  BY <1>1, <1>2 DEF EmptyFields, Fields

\* A new request as it is sent.
LEMMA NewRequestType ==
    ASSUME page \in Pages, NEW kind \in {"info", "list", "methodInfo"} \cup Posts,
           NEW from \in Dialogs \cup {"row", "bubble", "page"},
           NEW item \in Items \cup Methods \cup {None}
    PROVE  LET r == NewRequest(kind, from, item)
           IN  r \in Request /\ r.kind = kind /\ r.item = item /\ ~r.own /\ ~r.answered
  BY EmptyFieldsType DEF NewRequest, Request

\* Send adds its requests under new numbers and leaves the others.
LEMMA SendOne ==
    ASSUME sent \in Nat, NEW n, DOMAIN n \subseteq 1 .. sent, NEW r, Send(n, <<r>>)
    PROVE  /\ sent' = sent + 1
           /\ DOMAIN net' = DOMAIN n \cup {sent'}
           /\ net'[sent'] = r
           /\ \A i \in DOMAIN n : net'[i] = n[i]
<1>1. sent' = sent + 1
  BY DEF Send
<1>2. sent + 1 .. sent' = {sent'}
  BY <1>1
<1>3. net' = [i \in DOMAIN n \cup {sent'} |-> IF i <= sent THEN n[i] ELSE <<r>>[i - sent]]
  BY <1>2 DEF Send
<1>4. net'[sent'] = r
  BY <1>1, <1>3
<1> QED
  BY <1>1, <1>3, <1>4

\* Send with several requests.
LEMMA SendAll ==
    ASSUME sent \in Nat, NEW n, DOMAIN n \subseteq 1 .. sent, NEW rs \in Seq(Request), Send(n, rs)
    PROVE  /\ sent' \in Nat /\ sent <= sent'
           /\ DOMAIN net' \subseteq 1 .. sent'
           /\ \A i \in DOMAIN net' : \/ i \in DOMAIN n /\ net'[i] = n[i]
                                     \/ \E k \in 1 .. Len(rs) : net'[i] = rs[k]
<1>0. Len(rs) \in Nat
  OBVIOUS
<1>1. sent' = sent + Len(rs)
  BY DEF Send
<1>2. net' = [i \in DOMAIN n \cup (sent + 1 .. sent') |-> IF i <= sent THEN n[i] ELSE rs[i - sent]]
  BY DEF Send
<1>3. ASSUME NEW i \in DOMAIN net'
      PROVE  \/ i \in DOMAIN n /\ net'[i] = n[i]
             \/ \E k \in 1 .. Len(rs) : net'[i] = rs[k]
  <2>1. CASE i \in DOMAIN n
    BY <2>1, <1>2
  <2>2. CASE i \in sent + 1 .. sent'
    <3>1. net'[i] = rs[i - sent] /\ i - sent \in 1 .. Len(rs)
      BY <2>2, <1>0, <1>1, <1>2
    <3> QED
      BY <3>1
  <2> QED
    BY <2>1, <2>2, <1>2
<1>4. DOMAIN net' \subseteq 1 .. sent'
  BY <1>0, <1>1, <1>2
<1> QED
  BY <1>0, <1>1, <1>3, <1>4

\* A page that is mounted asks for its info and its list.
LEMMA MountRequestsType ==
    ASSUME page \in Pages, NEW p \in Pages
    PROVE  /\ MountRequests(p) \in Seq(Request) /\ Len(MountRequests(p)) \in Nat \ {0}
           /\ \A k \in 1 .. Len(MountRequests(p)) : MountRequests(p)[k].kind \in {"info", "list"}
<1> DEFINE r == NewRequest("list", "page", None)
           list == [r EXCEPT !.page = p]
           info == [list EXCEPT !.kind = "info"]
<1>1. r \in Request /\ r.kind = "list"
  BY NewRequestType DEF Posts
<1> HIDE DEF r
<1>2. list \in Request /\ list.kind = "list"
  BY <1>1 DEF Request
<1> HIDE DEF list
<1>3. info \in Request /\ info.kind = "info"
  BY <1>2 DEF Request
<1> HIDE DEF info
<1>4. MountRequests(p) = IF p = "index" THEN <<info, list>> ELSE <<list>>
  BY DEF MountRequests, r, list, info
<1> QED
  BY <1>2, <1>3, <1>4

\* Limiters as a page finds them.
LEMMA LimitsOfType ==
    ASSUME NEW p, NEW f \in LimitsOf(p)
    PROVE  f \in [Methods -> Reachable]
  BY WebConsoleAssumption DEF LimitsOf, Reachable

-----------------------------------------------------------------------------
(***************************************************************************)
(* The inductive invariant.                                                *)
(***************************************************************************)
\* Requests that are not the dialog's for limits are no concern of it.
LEMMA OtherRequestOK ==
    ASSUME NEW i, NEW r, NEW q, NEW t, r.kind \notin {"add", "methodInfo", "limiter"}
    PROVE  RequestOK(i, r, q, t)
  BY DEF RequestOK

LEMMA ConsoleInit == Init => ConsoleInv
<1> SUFFICES ASSUME Init PROVE ConsoleInv
  OBVIOUS
<1>1. page \in Pages
  BY DEF Init
<1>2. /\ net \in Seq(Request) /\ sent = Len(net) /\ sent \in Nat
      /\ \A k \in 1 .. sent : net[k].kind \in {"info", "list"}
  BY <1>1, MountRequestsType DEF Init
<1>3. DOMAIN net = 1 .. sent /\ \A i \in DOMAIN net : net[i] \in Request
  BY <1>2
<1>4. \A i \in DOMAIN net : RequestOK(i, net[i], asked, target)
  BY <1>2, <1>3, OtherRequestOK
<1>5. form = EmptyFields /\ form \in Fields /\ form.ask = 0 /\ asked = 0
  BY EmptyFieldsType DEF Init
<1>6. limits \in [Methods -> Reachable]
  BY LimitsOfType DEF Init
<1>7. server \subseteq Items \cup Methods
  BY DEF Init, ItemsOf
<1>8. visible \in [Dialogs -> BOOLEAN] /\ ~visible["setRate"] /\ bubble = {} /\ target = None
  BY DEF Init, Dialogs
<1>9. ConsoleTypes
  BY <1>1, <1>2, <1>3, <1>5, <1>6, <1>7, <1>8 DEF ConsoleTypes
<1> QED
  BY <1>4, <1>5, <1>8, <1>9 DEF ConsoleInv, FormOK

\* Steps that leave the page, the dialog's fields and its path alone.
LEMMA ConsoleKept ==
    ASSUME ConsoleInv, UNCHANGED <<page, target, form, asked>>,
           sent' \in Nat, sent <= sent', DOMAIN net' \subseteq 1 .. sent',
           \A i \in DOMAIN net' : net'[i] \in Request /\ RequestOK(i, net'[i], asked, target),
           visible' \in [Dialogs -> BOOLEAN], visible'["setRate"] => visible["setRate"],
           bubble' \subseteq bubble, server' \subseteq Items \cup Methods,
           limits' \in [Methods -> Reachable]
    PROVE  ConsoleInv'
<1>1. ConsoleTypes'
  <2>1. form.ask \in Nat /\ form.ask <= sent /\ asked \in 0 .. sent /\ sent \in Nat
    BY DEF ConsoleInv, ConsoleTypes, Fields
  <2>2. form.ask <= sent' /\ asked \in 0 .. sent'
    BY <2>1
  <2> QED
    BY <2>2 DEF ConsoleInv, ConsoleTypes
<1>2. \A i \in DOMAIN net' : RequestOK(i, net'[i], asked', target')
  OBVIOUS
<1>3. FormOK(form', asked', target')
  BY DEF ConsoleInv
<1> QED
  BY <1>1, <1>2, <1>3 DEF ConsoleInv

\* The same, when the server and the dialogs are left alone too.
LEMMA ConsoleKeptNet ==
    ASSUME ConsoleInv, UNCHANGED <<page, target, form, asked, server, limits>>,
           sent' \in Nat, sent <= sent', DOMAIN net' \subseteq 1 .. sent',
           \A i \in DOMAIN net' : net'[i] \in Request /\ RequestOK(i, net'[i], asked, target),
           visible' \in [Dialogs -> BOOLEAN], visible'["setRate"] => visible["setRate"],
           bubble' \subseteq bubble
    PROVE  ConsoleInv'
<1>1. server' \subseteq Items \cup Methods /\ limits' \in [Methods -> Reachable]
  BY DEF ConsoleInv, ConsoleTypes
<1> QED
  BY <1>1, ConsoleKept

\* Without a request the others are as they were.
LEMMA WithoutKeeps ==
    ASSUME ConsoleInv, NEW i, net' = Without(i), sent' = sent
    PROVE  /\ sent' \in Nat /\ sent <= sent' /\ DOMAIN net' \subseteq 1 .. sent'
           /\ \A j \in DOMAIN net' : net'[j] \in Request /\ RequestOK(j, net'[j], asked, target)
<1>1. DOMAIN net' = DOMAIN net \ {i} /\ \A j \in DOMAIN net' : net'[j] = net[j]
  BY DEF Without
<1> QED
  BY <1>1 DEF ConsoleInv, ConsoleTypes

\* An answer is written into its own request only.
LEMMA AnswerKeeps ==
    ASSUME ConsoleInv, NEW i \in DOMAIN net, NEW r \in Request, Answer(i, r),
           RequestOK(i, [r EXCEPT !.answered = TRUE], asked, target)
    PROVE  /\ sent' \in Nat /\ sent <= sent' /\ DOMAIN net' \subseteq 1 .. sent'
           /\ \A j \in DOMAIN net' : net'[j] \in Request /\ RequestOK(j, net'[j], asked, target)
           /\ UNCHANGED <<page, target, form, asked, visible, bubble>>
           /\ visible \in [Dialogs -> BOOLEAN]
<1>1. sent' = sent /\ UNCHANGED <<page, target, form, asked, visible, bubble>>
  BY DEF Answer, dialogVars, pageVars
<1>2. CASE r.mounted
  <2> DEFINE q == [r EXCEPT !.answered = TRUE]
  <2>1. q \in Request
    BY DEF Request
  <2>2. net' = [net EXCEPT ![i] = q]
    BY <1>2 DEF Answer
  <2> HIDE DEF q
  <2>3. DOMAIN net' = DOMAIN net
        /\ \A j \in DOMAIN net : net'[j] = IF j = i THEN q ELSE net[j]
    BY <2>2
  <2>4. RequestOK(i, q, asked, target)
    BY DEF q
  <2> QED
    BY <1>1, <2>1, <2>3, <2>4 DEF ConsoleInv, ConsoleTypes
<1>3. CASE ~r.mounted
  <2>1. net' = Without(i)
    BY <1>3 DEF Answer
  <2> QED
    BY <1>1, <2>1, WithoutKeeps DEF ConsoleInv, ConsoleTypes
<1> QED
  BY <1>2, <1>3

\* So is a request that is sent.
LEMMA SendKeeps ==
    ASSUME ConsoleInv, NEW n, DOMAIN n \subseteq DOMAIN net, \A i \in DOMAIN n : n[i] = net[i],
           NEW r \in Request, Send(n, <<r>>), RequestOK(sent + 1, r, asked, target)
    PROVE  /\ sent' \in Nat /\ sent <= sent' /\ DOMAIN net' \subseteq 1 .. sent'
           /\ \A j \in DOMAIN net' : net'[j] \in Request /\ RequestOK(j, net'[j], asked, target)
<1>1. sent \in Nat /\ DOMAIN n \subseteq 1 .. sent
  BY DEF ConsoleInv, ConsoleTypes
<1>2. /\ sent' = sent + 1 /\ DOMAIN net' = DOMAIN n \cup {sent'}
      /\ net'[sent'] = r /\ \A i \in DOMAIN n : net'[i] = n[i]
  BY <1>1, SendOne
<1>3. ASSUME NEW j \in DOMAIN net'
      PROVE  net'[j] \in Request /\ RequestOK(j, net'[j], asked, target)
  <2>1. CASE j = sent'
    BY <2>1, <1>2
  <2>2. CASE j \in DOMAIN n
    BY <2>2, <1>2 DEF ConsoleInv, ConsoleTypes
  <2> QED
    BY <2>1, <2>2, <1>2
<1> QED
  BY <1>1, <1>2, <1>3

\* The steps of the admin.
LEMMA ConsoleAdmin == ConsoleInv /\ Admin => ConsoleInv'
<1> SUFFICES ASSUME ConsoleInv, Admin PROVE ConsoleInv'
  OBVIOUS
<1>0. /\ page \in Pages /\ sent \in Nat /\ DOMAIN net \subseteq 1 .. sent
      /\ visible \in [Dialogs -> BOOLEAN] /\ bubble \subseteq Items
      /\ target \in Items \cup Methods \cup {None} /\ form \in Fields
      /\ form.ask \in Nat /\ form.val \in Form /\ form.ask <= sent /\ asked \in 0 .. sent
  BY DEF ConsoleInv, ConsoleTypes, Fields
<1>page. page \in Pages
  BY <1>0
<1>same. /\ \A i \in DOMAIN net : net[i] \in Request /\ RequestOK(i, net[i], asked, target)
         /\ sent <= sent
  BY <1>0 DEF ConsoleInv, ConsoleTypes
<1>1. ASSUME NEW p \in Pages, Navigate(p) PROVE ConsoleInv'
  <2> DEFINE posted == {i \in DOMAIN net : net[i].kind \in Posts /\ ~net[i].answered}
             n == [i \in posted |-> [net[i] EXCEPT !.mounted = FALSE]]
             rs == MountRequests(p)
  <2>1. DOMAIN n \subseteq 1 .. sent
    BY <1>0
  <2>2. rs \in Seq(Request) /\ \A k \in 1 .. Len(rs) : rs[k] \in Request /\ rs[k].kind \in {"info", "list"}
    BY <1>0, MountRequestsType
  <2>3. Send(n, rs)
    BY <1>1 DEF Navigate
  <2>4. /\ page' = p /\ visible' = [d \in Dialogs |-> FALSE] /\ bubble' = {} /\ target' = None
        /\ form' = EmptyFields /\ asked' = 0
        /\ server' \subseteq Items \cup Methods /\ limits' \in [Methods -> Reachable]
    BY <1>1, LimitsOfType DEF Navigate, Mounted, ItemsOf
  <2>5. ASSUME NEW i \in posted
        PROVE  n[i] \in Request /\ RequestOK(i, n[i], 0, None)
    <3>1. net[i] \in Request /\ RequestOK(i, net[i], asked, target) /\ net[i].kind \in Posts
      BY <1>same
    <3>2. n[i] = [net[i] EXCEPT !.mounted = FALSE]
      OBVIOUS
    <3> DEFINE r == net[i]
    <3> HIDE DEF n, r
    <3>3. n[i] \in Request /\ n[i].kind = r.kind /\ n[i].item = r.item
          /\ n[i].own = r.own /\ n[i].fields = r.fields
      BY <3>1, <3>2 DEF Request, r
    <3> QED
      BY <3>1, <3>3 DEF RequestOK, Posts, r
  <2> HIDE DEF n, rs
  <2>6. /\ sent' \in Nat /\ sent <= sent' /\ DOMAIN net' \subseteq 1 .. sent'
        /\ \A i \in DOMAIN net' : \/ i \in DOMAIN n /\ net'[i] = n[i]
                                  \/ \E k \in 1 .. Len(rs) : net'[i] = rs[k]
    BY <1>0, <2>1, <2>2, <2>3, SendAll
  <2>7. ASSUME NEW i \in DOMAIN net'
        PROVE  net'[i] \in Request /\ RequestOK(i, net'[i], asked', target')
    <3>1. CASE i \in DOMAIN n /\ net'[i] = n[i]
      BY <3>1, <2>4, <2>5 DEF n
    <3>2. ASSUME NEW k \in 1 .. Len(rs), net'[i] = rs[k]
          PROVE  <2>7!2
      BY <3>2, <2>2, OtherRequestOK
    <3> QED
      BY <3>1, <3>2, <2>6
  <2>8. ConsoleTypes'
    BY <2>4, <2>6, <2>7, EmptyFieldsType DEF ConsoleTypes
  <2>9. FormOK(form', asked', target') /\ ~visible'["setRate"]
    BY <2>4, EmptyFieldsType DEF FormOK, Dialogs
  <2> QED
    BY <2>4, <2>7, <2>8, <2>9 DEF ConsoleInv
<1>2. ASSUME NEW d \in Dialogs, ShowModal(d) PROVE ConsoleInv'
  <2>1. /\ UNCHANGED <<page, target, form, asked, server, limits, net, sent, bubble>>
        /\ visible' = [visible EXCEPT ![d] = TRUE] /\ d # "setRate"
    BY <1>2 DEF ShowModal, pageVars, serverVars
  <2> QED
    BY <2>1, <1>0, <1>same, ConsoleKeptNet DEF Dialogs
<1>3. ASSUME NEW d \in Dialogs, HandleCancel(d) PROVE ConsoleInv'
  <2>1. /\ UNCHANGED <<page, target, form, asked, server, limits, net, sent, bubble>>
        /\ visible' = [visible EXCEPT ![d] = FALSE]
    BY <1>3 DEF HandleCancel, pageVars, serverVars
  <2> QED
    BY <2>1, <1>0, <1>same, ConsoleKeptNet DEF Dialogs
<1>4. ASSUME NEW d \in Dialogs, NEW x \in Items, HandleOk(d, x) PROVE ConsoleInv'
  <2> DEFINE r == Submission(d, x)
  <2>1. /\ UNCHANGED <<page, target, form, asked, server, limits, visible, bubble>>
        /\ visible[d] /\ Send(net, <<r>>)
    BY <1>4 DEF HandleOk, pageVars, serverVars
  <2>2. r \in Request /\ RequestOK(sent + 1, r, asked, target)
    <3>1. CASE d \in {"addProxy", "insert"}
      <4>1. r = NewRequest("add", d, x)
        BY <3>1 DEF Submission
      <4> QED
        BY <4>1, <1>0, NewRequestType DEF RequestOK, Posts
    <3>2. CASE d = "delete"
      <4>1. r = NewRequest("remove", d, x)
        BY <3>2 DEF Submission
      <4> QED
        BY <4>1, <1>0, NewRequestType DEF RequestOK, Posts
    <3>3. CASE d = "addHost"
      <4>1. r = NewRequest("addHost", d, target)
        BY <3>3 DEF Submission
      <4> QED
        BY <4>1, <1>0, NewRequestType DEF RequestOK, Posts
    <3>4. CASE d = "setRate"
      <4> DEFINE q == NewRequest("limiter", d, target)
      <4>1. r = [q EXCEPT !.fields = form, !.own = (form.ask = asked)]
        BY <3>4 DEF Submission
      <4>2. q \in Request /\ q.kind = "limiter" /\ q.item = target
        BY <1>0, NewRequestType DEF Posts
      <4> HIDE DEF r, q
      <4>3. /\ r \in Request /\ r.kind = "limiter" /\ r.item = target
            /\ r.fields = form /\ r.own = (form.ask = asked)
        BY <4>1, <4>2, <1>0 DEF Request
      <4>4. asked # 0
        BY <2>1, <3>4 DEF ConsoleInv
      <4>5. r.own => Shows(form) /\ form.of = target
        BY <4>3, <4>4 DEF ConsoleInv, FormOK
      <4> QED
        BY <4>3, <4>5 DEF RequestOK
    <3> QED
      BY <3>1, <3>2, <3>3, <3>4 DEF Dialogs
  <2> HIDE DEF r
  <2> QED
    BY <2>1, <2>2, <1>0, SendKeeps, ConsoleKeptNet
<1>5. ASSUME NEW x \in Items, ProxyClick(x) PROVE ConsoleInv'
  <2>1. /\ UNCHANGED <<page, target, form, asked, server, limits, net, sent, visible>>
        /\ page = "index" /\ bubble' = {x}
    BY <1>5 DEF ProxyClick, pageVars, serverVars
  <2>2. ConsoleTypes'
    BY <2>1 DEF ConsoleInv, ConsoleTypes
  <2> QED
    BY <2>1, <2>2 DEF ConsoleInv
<1>6. ASSUME NEW x \in Items, ShowAddHost(x) PROVE ConsoleInv'
  <2>1. /\ UNCHANGED <<page, form, asked, server, limits, net, sent, bubble>>
        /\ visible' = [visible EXCEPT !["addHost"] = TRUE] /\ target' = x /\ bubble # {}
    BY <1>6 DEF ShowAddHost, pageVars, serverVars
  <2>2. ConsoleTypes'
    BY <2>1 DEF ConsoleInv, ConsoleTypes
  <2>3. asked = 0
    BY <2>1 DEF ConsoleInv
  <2>4. ASSUME NEW i \in DOMAIN net PROVE RequestOK(i, net[i], 0, x)
    <3>1. i # 0 /\ RequestOK(i, net[i], asked, target)
      BY <1>0, <1>same
    <3> QED
      BY <3>1 DEF RequestOK
  <2>5. FormOK(form, 0, x)
    BY DEF ConsoleInv, FormOK
  <2>6. visible'["setRate"] => visible["setRate"]
    BY <2>1, <1>0 DEF Dialogs
  <2> QED
    BY <2>1, <2>2, <2>3, <2>4, <2>5, <2>6 DEF ConsoleInv
<1>7. ASSUME NEW x \in Items, DeleteRow(x) PROVE ConsoleInv'
  <2> DEFINE r == NewRequest("remove", "row", x)
  <2>1. /\ UNCHANGED <<page, target, form, asked, server, limits, visible, bubble>>
        /\ Send(net, <<r>>)
    BY <1>7 DEF DeleteRow, dialogVars, pageVars, serverVars
  <2>2. r \in Request /\ r.kind = "remove"
    BY <1>page, "remove" \in Posts, NewRequestType DEF Posts
  <2> HIDE DEF r
  <2> QED
    BY <2>1, <2>2, <1>0, OtherRequestOK, SendKeeps, ConsoleKeptNet
<1>8. ASSUME NEW x \in Items, DeleteProxy(x) PROVE ConsoleInv'
  <2> DEFINE r == NewRequest("remove", "bubble", x)
  <2>1. /\ UNCHANGED <<page, target, form, asked, server, limits, visible, bubble>>
        /\ Send(net, <<r>>)
    BY <1>8 DEF DeleteProxy, dialogVars, pageVars, serverVars
  <2>2. r \in Request /\ r.kind = "remove"
    BY <1>page, "remove" \in Posts, NewRequestType DEF Posts
  <2> HIDE DEF r
  <2> QED
    BY <2>1, <2>2, <1>0, OtherRequestOK, SendKeeps, ConsoleKeptNet
<1>9. ASSUME CloseBubble PROVE ConsoleInv'
  <2>1. UNCHANGED <<page, target, form, asked, server, limits, net, sent, visible>> /\ bubble' = {}
    BY <1>9 DEF CloseBubble, pageVars, serverVars
  <2> QED
    BY <2>1, <1>0, <1>same, ConsoleKeptNet
<1>10. ASSUME NEW m \in Methods, ShowSetRate(m) PROVE ConsoleInv'
  <2> DEFINE r == NewRequest("methodInfo", "page", m)
  <2>1. /\ UNCHANGED <<page, form, server, limits, bubble>> /\ page = "rate"
        /\ visible' = [visible EXCEPT !["setRate"] = TRUE] /\ target' = m
        /\ Send(net, <<r>>) /\ asked' = sent'
    BY <1>10 DEF ShowSetRate, pageVars, serverVars
  <2>2. r \in Request /\ r.kind = "methodInfo" /\ r.item = m /\ ~r.answered
    BY <1>page, NewRequestType
  <2> HIDE DEF r
  <2>3. /\ sent' = sent + 1 /\ DOMAIN net' = DOMAIN net \cup {sent'}
        /\ net'[sent'] = r /\ \A i \in DOMAIN net : net'[i] = net[i]
    BY <2>1, <1>0, SendOne
  <2>4. ASSUME NEW i \in DOMAIN net'
        PROVE  net'[i] \in Request /\ RequestOK(i, net'[i], asked', target')
    <3>1. CASE i = sent'
      BY <3>1, <2>1, <2>2, <2>3 DEF RequestOK
    <3>2. CASE i \in DOMAIN net
      <4>1. i # asked' /\ net'[i] = net[i]
        BY <3>2, <1>0, <2>1, <2>3
      <4> QED
        BY <3>2, <4>1, <1>same DEF RequestOK
    <3> QED
      BY <3>1, <3>2, <2>3
  <2>5. /\ sent' \in Nat /\ DOMAIN net' \subseteq 1 .. sent' /\ form.ask < sent'
        /\ asked' \in 0 .. sent' /\ asked' # 0
    BY <1>0, <2>1, <2>3
  <2>6. FormOK(form', asked', target')
    BY <2>1, <2>5, <1>0 DEF ConsoleInv, FormOK
  <2>7. ConsoleTypes'
    <3>1. visible' \in [Dialogs -> BOOLEAN] /\ target' \in Items \cup Methods \cup {None}
      BY <2>1, <1>0
    <3>2. form' \in Fields /\ form'.ask <= sent'
      BY <2>1, <2>5, <1>0
    <3> QED
      BY <2>1, <2>4, <2>5, <3>1, <3>2 DEF ConsoleInv, ConsoleTypes
  <2> QED
    BY <2>1, <2>4, <2>5, <2>6, <2>7 DEF ConsoleInv
<1>11. ASSUME NEW typ \in {"unset", "qps", "concurrent"}, NEW val \in Form, Edit(typ, val) PROVE ConsoleInv'
  <2>1. /\ UNCHANGED <<page, target, asked, server, limits, net, sent, visible, bubble>>
        /\ form' = [EmptyFields EXCEPT !.typ = typ, !.val = val]
    BY <1>11 DEF Edit, pageVars, serverVars
  <2>2. form' \in Fields /\ form'.ask = 0 /\ form'.ask <= sent
    <3>1. form' \in Fields /\ form'.ask = 0
      BY <2>1, EmptyFieldsType DEF Fields
    <3>2. sent \in Nat
      BY <1>0
    <3> QED
      BY <3>1, <3>2
  <2>3. ConsoleTypes'
    BY <2>1, <2>2 DEF ConsoleInv, ConsoleTypes
  <2>4. FormOK(form', asked', target')
    BY <2>2 DEF FormOK
  <2> QED
    BY <2>1, <2>3, <2>4 DEF ConsoleInv
<1>12. form.typ \in {"unset", "qps", "concurrent"} /\ Typed \subseteq Form
  BY <1>0, WebConsoleAssumption DEF Fields
<1> QED
  BY <1>0, <1>1, <1>2, <1>3, <1>4, <1>5, <1>6, <1>7, <1>8, <1>9, <1>10, <1>11, <1>12 DEF Admin

\* What the server may answer to a change, and make of its list.
LEMMA OutcomesType ==
    ASSUME NEW r \in Request, r.kind \in {"add", "remove", "addHost"}, NEW L, NEW o \in Outcomes(r, L)
    PROVE  /\ o.ok \in BOOLEAN /\ o.list \subseteq L \cup {r.item}
           /\ r.kind # "add" => o.list \subseteq L
           /\ r.kind = "addHost" => o.list = L
<1>0. ASSUME NEW b \in BOOLEAN, NEW l, o = [ok |-> b, list |-> l]
      PROVE  o.ok \in BOOLEAN /\ o.list = l
  BY <1>0
<1>1. CASE r.kind = "add" /\ r.page = "index"
  <2>1. \E b \in BOOLEAN, l \in {L, L \cup {r.item}} : o = [ok |-> b, list |-> l]
    BY <1>1 DEF Outcomes
  <2> QED
    BY <1>0, <1>1, <2>1
<1>2. CASE r.kind = "add" /\ r.page # "index"
  <2>1. \E b \in BOOLEAN, l \in {L, L \cup {r.item}} : o = [ok |-> b, list |-> l]
    BY <1>2 DEF Outcomes
  <2> QED
    BY <1>0, <1>2, <2>1
<1>3. CASE r.kind = "remove"
  <2>1. \E b \in BOOLEAN, l \in {L, L \ {r.item}} : o = [ok |-> b, list |-> l]
    BY <1>3 DEF Outcomes
  <2> QED
    BY <1>0, <1>3, <2>1
<1>4. CASE r.kind = "addHost"
  <2> DEFINE b == r.item \in L
  <2>1. o = [ok |-> FALSE, list |-> L] \/ o = [ok |-> b, list |-> L]
    BY <1>4, Zenon DEF Outcomes
  <2>2. b \in BOOLEAN
    OBVIOUS
  <2> HIDE DEF b
  <2> QED
    BY <1>0, <1>4, <2>1, <2>2
<1> QED
  BY <1>1, <1>2, <1>3, <1>4

\* The steps of the server.
LEMMA ConsoleServer == ConsoleInv /\ Server => ConsoleInv'
<1> SUFFICES ASSUME ConsoleInv, Server PROVE ConsoleInv'
  OBVIOUS
<1>0. /\ server \subseteq Items \cup Methods /\ limits \in [Methods -> Reachable]
      /\ page \in Pages /\ sent \in Nat /\ DOMAIN net \subseteq 1 .. sent
      /\ visible \in [Dialogs -> BOOLEAN]
      /\ \A i \in DOMAIN net : net[i] \in Request /\ RequestOK(i, net[i], asked, target)
  BY DEF ConsoleInv, ConsoleTypes
<1>1. ASSUME NEW i \in DOMAIN net, ServeList(i) PROVE ConsoleInv'
  <2> DEFINE r == [net[i] EXCEPT !.ok = TRUE, !.list = server]
             q == [r EXCEPT !.answered = TRUE]
  <2>1. net[i] \in Request /\ net[i].kind \in {"info", "list"} /\ Answer(i, r)
        /\ UNCHANGED <<server, limits>>
    BY <1>0, <1>1 DEF ServeList
  <2>2. r \in Request /\ r.kind = net[i].kind
    BY <2>1, <1>0 DEF Request
  <2> HIDE DEF r
  <2>3. q.kind = r.kind
    BY <2>2 DEF Request
  <2>4. RequestOK(i, q, asked, target)
    BY <2>1, <2>2, <2>3, OtherRequestOK
  <2> QED
    BY <2>1, <2>2, <2>4, AnswerKeeps, ConsoleKeptNet
<1>2. ASSUME NEW i \in DOMAIN net, ServeMethodInfo(i) PROVE ConsoleInv'
  <2> DEFINE m == net[i].item
  <2>1. /\ net[i] \in Request /\ net[i].kind = "methodInfo" /\ m \in Methods
        /\ i = asked => m = target /\ i \in Nat
    BY <1>0, <1>2 DEF ServeMethodInfo, RequestOK
  <2>2. limits[m] \in Reachable /\ limits[m] \in Limiter
    BY <1>0, <2>1, ReachableType
  <2>3. PICK v \in MethodInfo(limits[m]) :
          Answer(i, [net[i] EXCEPT !.ok = m \in server, !.fields =
                  [typ |-> "qps", val |-> v, ask |-> i, of |-> m, seen |-> limits[m]]])
    BY <1>2 DEF ServeMethodInfo
  <2>4. v \in Form
    BY <2>2, MethodInfoType
  <2> DEFINE f == [typ |-> "qps", val |-> v, ask |-> i, of |-> m, seen |-> limits[m]]
             r == [net[i] EXCEPT !.ok = m \in server, !.fields = f]
             q == [r EXCEPT !.answered = TRUE]
  <2>5. f \in Fields /\ Shows(f) /\ f.ask = i /\ f.of = m
    <3>1. i \in Nat
      BY <1>0
    <3> QED
      BY <3>1, <2>1, <2>2, <2>3, <2>4 DEF Fields, Shows
  <2> HIDE DEF f
  <2>6. r \in Request /\ r.kind = "methodInfo" /\ r.item = m /\ r.fields = f
    <3> DEFINE b == m \in server
    <3>1. b \in BOOLEAN
      OBVIOUS
    <3> HIDE DEF b
    <3>2. LET s == [net[i] EXCEPT !.ok = b, !.fields = f]
          IN  s \in Request /\ s.kind = "methodInfo" /\ s.item = m /\ s.fields = f
      BY <2>1, <2>5, <3>1 DEF Request
    <3> QED
      BY <3>2 DEF b
  <2>7. Answer(i, r)
    BY <2>3 DEF f
  <2> HIDE DEF r, m
  <2>8. q.kind = "methodInfo" /\ q.item = m /\ q.fields = f
    BY <2>6 DEF Request
  <2>9. RequestOK(i, q, asked, target)
    BY <2>1, <2>5, <2>8 DEF RequestOK
  <2>10. UNCHANGED <<server, limits>>
    BY <1>2 DEF ServeMethodInfo, serverVars
  <2> QED
    BY <2>6, <2>7, <2>9, <2>10, AnswerKeeps, ConsoleKeptNet
<1>3. ASSUME NEW i \in DOMAIN net, ServeChange(i) PROVE ConsoleInv'
  <2> DEFINE r == net[i]
  <2>1. r \in Request /\ r.kind \in {"add", "remove", "addHost"} /\ RequestOK(i, r, asked, target)
    BY <1>0, <1>3 DEF ServeChange
  <2>2. ASSUME NEW b \in BOOLEAN
        PROVE  LET s == [r EXCEPT !.ok = b]
               IN  s \in Request /\ RequestOK(i, [s EXCEPT !.answered = TRUE], asked, target)
    <3> HIDE DEF r
    <3> DEFINE s == [r EXCEPT !.ok = b]
               q == [s EXCEPT !.answered = TRUE]
    <3>1. s \in Request /\ s.kind = r.kind /\ s.item = r.item
      BY <2>1 DEF Request
    <3> HIDE DEF s
    <3>2. q.kind = r.kind /\ q.item = r.item
      BY <3>1 DEF Request
    <3> HIDE DEF q
    <3>3. RequestOK(i, q, asked, target)
      BY <2>1, <3>2 DEF RequestOK
    <3> QED
      BY <3>1, <3>3 DEF s, q
  <2>3. CASE r.page = page
    <3>1. PICK o \in Outcomes(r, server) : server' = o.list /\ Answer(i, [r EXCEPT !.ok = o.ok])
      BY <1>3, <2>3 DEF ServeChange
    <3>2. o.ok \in BOOLEAN /\ o.list \subseteq server \cup {r.item}
          /\ (r.kind # "add" => o.list \subseteq server)
      <4> HIDE DEF r
      <4> QED
        BY <2>1, <3>1, OutcomesType
    <3>3. r.kind = "add" => r.item \in Items
      BY <2>1 DEF RequestOK
    <3>4. server' \subseteq Items \cup Methods
      BY <3>1, <3>2, <3>3, <1>0
    <3>5. limits' = limits
      BY <1>3 DEF ServeChange
    <3> DEFINE s == [r EXCEPT !.ok = o.ok]
    <3>6. s \in Request /\ RequestOK(i, [s EXCEPT !.answered = TRUE], asked, target) /\ Answer(i, s)
      BY <2>2, <3>1, <3>2
    <3> HIDE DEF r, s
    <3> QED
      BY <3>4, <3>5, <3>6, <1>0, AnswerKeeps, ConsoleKept
  <2>4. CASE r.page # page
    <3>1. Answer(i, r) /\ UNCHANGED <<server, limits>>
      BY <1>3, <2>4 DEF ServeChange
    <3>2. RequestOK(i, [r EXCEPT !.answered = TRUE], asked, target)
      <4> DEFINE q == [r EXCEPT !.answered = TRUE]
      <4>1. q.kind = r.kind /\ q.item = r.item
        BY <2>1 DEF Request
      <4> HIDE DEF q
      <4>2. RequestOK(i, q, asked, target)
        BY <2>1, <4>1 DEF RequestOK
      <4> QED
        BY <4>2 DEF q
    <3> HIDE DEF r
    <3> QED
      BY <2>1, <3>1, <3>2, AnswerKeeps, ConsoleKeptNet
  <2> QED
    BY <2>3, <2>4
<1>4. ASSUME NEW i \in DOMAIN net, ServeLimiter(i) PROVE ConsoleInv'
  <2> DEFINE r == net[i]
  <2>1. r \in Request /\ r.kind = "limiter" /\ RequestOK(i, r, asked, target)
    BY <1>0, <1>4 DEF ServeLimiter
  <2>2. ASSUME NEW b \in BOOLEAN, Answer(i, [r EXCEPT !.ok = b]),
               limits' \in [Methods -> Reachable], server' = server
        PROVE  ConsoleInv'
    <3> HIDE DEF r
    <3> DEFINE s == [r EXCEPT !.ok = b]
               q == [s EXCEPT !.answered = TRUE]
    <3>1. s \in Request /\ s.kind = r.kind /\ s.item = r.item /\ s.own = r.own /\ s.fields = r.fields
      BY <2>1 DEF Request
    <3>2. Answer(i, s)
      BY <2>2
    <3> HIDE DEF s
    <3>3. q.kind = r.kind /\ q.item = r.item /\ q.own = r.own /\ q.fields = r.fields
      BY <3>1 DEF Request
    <3> HIDE DEF q
    <3>4. RequestOK(i, q, asked, target)
      BY <2>1, <3>3 DEF RequestOK
    <3>5. RequestOK(i, [s EXCEPT !.answered = TRUE], asked, target)
      BY <3>4 DEF q
    <3> QED
      BY <2>2, <3>1, <3>2, <3>5, <1>0, AnswerKeeps, ConsoleKept
  <2>3. r.fields.val \in Form
    <3>1. r.fields \in Fields
      BY <2>1 DEF Request
    <3> QED
      BY <3>1 DEF Fields
  <2>4. SetRateLimiter(r.fields.val) \in Reachable
    BY <2>3 DEF Reachable
  <2>5. server' = server
    BY <1>4 DEF ServeLimiter
  <2>6. CASE Answer(i, [r EXCEPT !.ok = FALSE]) /\ UNCHANGED limits
    BY <2>2, <2>5, <2>6, <1>0
  <2>7. ASSUME NEW b \in BOOLEAN, Answer(i, [r EXCEPT !.ok = b]),
               limits' = [limits EXCEPT ![r.item] = SetRateLimiter(r.fields.val)]
        PROVE  ConsoleInv'
    <3>1. limits' \in [Methods -> Reachable]
      BY <1>0, <2>4, <2>7
    <3> QED
      BY <3>1, <2>2, <2>5, <2>7
  <2> QED
    BY <1>4, <2>6, <2>7 DEF ServeLimiter
<1>5. ASSUME NEW x \in ItemsOf(page), Elsewhere(x) PROVE ConsoleInv'
  <2>1. UNCHANGED <<page, target, form, asked, net, sent, visible, bubble>>
    BY <1>5 DEF Elsewhere, dialogVars, pageVars
  <2>2. server' \subseteq Items \cup Methods
    BY <1>0, <1>5 DEF Elsewhere, ItemsOf
  <2>3. limits' \in [Methods -> Reachable]
    BY <1>0, <1>5 DEF Elsewhere, Reachable
  <2>4. sent <= sent
    BY <1>0
  <2> QED
    BY <2>1, <2>2, <2>3, <2>4, <1>0, ConsoleKept
<1> QED
  BY <1>1, <1>2, <1>3, <1>4, <1>5 DEF Server

\* The steps that deliver an answer or lose it.
LEMMA ConsoleAnswers == ConsoleInv /\ Answers => ConsoleInv'
<1> SUFFICES ASSUME ConsoleInv, Answers PROVE ConsoleInv'
  OBVIOUS
<1>0. /\ page \in Pages /\ sent \in Nat /\ DOMAIN net \subseteq 1 .. sent
      /\ visible \in [Dialogs -> BOOLEAN]
      /\ \A i \in DOMAIN net : net[i] \in Request /\ RequestOK(i, net[i], asked, target)
  BY DEF ConsoleInv, ConsoleTypes
<1>closed. ASSUME NEW d, Closed(d)
           PROVE  visible' \in [Dialogs -> BOOLEAN] /\ (visible'["setRate"] => visible["setRate"])
  BY <1>0, <1>closed DEF Closed, Dialogs
<1>1. ASSUME NEW i \in DOMAIN net, DeliverInfo(i) PROVE ConsoleInv'
  <2>1. UNCHANGED <<page, target, form, asked, server, limits, sent, visible, bubble>> /\ net' = Without(i)
    BY <1>1 DEF DeliverInfo, dialogVars, serverVars
  <2> QED
    BY <2>1, <1>0, WithoutKeeps, ConsoleKeptNet
<1>2. ASSUME NEW i \in DOMAIN net, DeliverList(i) PROVE ConsoleInv'
  <2>1. UNCHANGED <<page, target, form, asked, server, limits, sent, visible, bubble>> /\ net' = Without(i)
    BY <1>2 DEF DeliverList, dialogVars, serverVars
  <2> QED
    BY <2>1, <1>0, WithoutKeeps, ConsoleKeptNet
<1>3. ASSUME NEW i \in DOMAIN net, DeliverMethodInfo(i) PROVE ConsoleInv'
  <2>1. /\ UNCHANGED <<page, target, asked, server, limits, sent, visible, bubble>> /\ net' = Without(i)
        /\ form' = (IF net[i].ok THEN net[i].fields ELSE form)
        /\ net[i].kind = "methodInfo" /\ net[i].answered
    BY <1>3 DEF DeliverMethodInfo, Answered, pageVars, serverVars
  <2>2. /\ sent' \in Nat /\ DOMAIN net' \subseteq 1 .. sent'
        /\ \A j \in DOMAIN net' : net'[j] \in Request /\ RequestOK(j, net'[j], asked, target)
    BY <2>1, WithoutKeeps
  <2> DEFINE f == net[i].fields
  <2>3. /\ f \in Fields /\ Shows(f) /\ f.ask = i /\ f.of = net[i].item
        /\ i = asked => net[i].item = target
    BY <2>1, <1>0 DEF RequestOK, Request
  <2>4. i <= sent
    BY <1>0
  <2> HIDE DEF f
  <2>5. f.ask <= sent /\ FormOK(f, asked, target)
    BY <2>3, <2>4 DEF FormOK
  <2>6. form' \in Fields /\ form'.ask <= sent /\ FormOK(form', asked, target)
    <3>1. form \in Fields /\ form.ask <= sent /\ FormOK(form, asked, target)
      BY DEF ConsoleInv, ConsoleTypes
    <3>2. form' = f \/ form' = form
      BY <2>1 DEF f
    <3> QED
      BY <2>3, <2>5, <3>1, <3>2
  <2>7. ConsoleTypes'
    BY <2>1, <2>2, <2>6 DEF ConsoleInv, ConsoleTypes
  <2> QED
    BY <2>1, <2>2, <2>6, <2>7 DEF ConsoleInv
<1>4. ASSUME NEW i \in DOMAIN net, DeliverChange(i) PROVE ConsoleInv'
  <2> DEFINE r == NewRequest("list", "page", None)
  <2>1. UNCHANGED <<page, target, form, asked, server, limits>> /\ bubble' \subseteq bubble
    BY <1>4 DEF DeliverChange, serverVars
  <2>2. visible' \in [Dialogs -> BOOLEAN] /\ (visible'["setRate"] => visible["setRate"])
    BY <1>4, <1>closed DEF DeliverChange
  <2>3. CASE Send(Without(i), <<r>>)
    <3>1. DOMAIN Without(i) \subseteq DOMAIN net /\ \A j \in DOMAIN Without(i) : Without(i)[j] = net[j]
      BY DEF Without
    <3>2. page \in Pages
      BY <1>0
    <3>3. r \in Request /\ r.kind = "list"
      BY <3>2, NewRequestType
    <3> HIDE DEF r
    <3>4. RequestOK(sent + 1, r, asked, target)
      BY <3>3, OtherRequestOK
    <3> QED
      BY <2>1, <2>2, <2>3, <3>1, <3>3, <3>4, SendKeeps, ConsoleKeptNet
  <2>4. CASE net' = Without(i) /\ sent' = sent
    BY <2>1, <2>2, <2>4, WithoutKeeps, ConsoleKeptNet
  <2> QED
    BY <1>4, <2>3, <2>4 DEF DeliverChange
<1>5. ASSUME NEW i \in DOMAIN net, DeliverLimiter(i) PROVE ConsoleInv'
  <2>1. UNCHANGED <<page, target, form, asked, server, limits, sent, bubble>> /\ net' = Without(i)
    BY <1>5 DEF DeliverLimiter, pageVars, serverVars
  <2>2. visible' \in [Dialogs -> BOOLEAN] /\ (visible'["setRate"] => visible["setRate"])
    BY <1>5, <1>closed DEF DeliverLimiter
  <2> QED
    BY <2>1, <2>2, WithoutKeeps, ConsoleKeptNet
<1>6. ASSUME NEW i \in DOMAIN net, Fail(i) PROVE ConsoleInv'
  <2>1. UNCHANGED <<page, target, form, asked, server, limits, sent>> /\ net' = Without(i)
    BY <1>6 DEF Fail, pageVars
  <2>2. /\ visible' \in [Dialogs -> BOOLEAN] /\ (visible'["setRate"] => visible["setRate"])
        /\ bubble' \subseteq bubble
    BY <1>0, <1>6, <1>closed DEF Fail
  <2> QED
    BY <2>1, <2>2, WithoutKeeps, ConsoleKeptNet
<1> QED
  BY <1>1, <1>2, <1>3, <1>4, <1>5, <1>6 DEF Answers

\* Every step.
LEMMA ConsoleNext == ConsoleInv /\ [Next]_vars => ConsoleInv'
<1>1. CASE UNCHANGED vars
  <2>1. ASSUME ConsoleInv PROVE ConsoleInv'
    <3>1. UNCHANGED <<page, target, form, asked, server, limits, net, sent, visible, bubble>>
      BY <1>1 DEF vars, dialogVars, pageVars, serverVars
    <3>2. ConsoleTypes'
      BY <2>1, <3>1 DEF ConsoleInv, ConsoleTypes
    <3> QED
      BY <2>1, <3>1, <3>2 DEF ConsoleInv
  <2> QED
    BY <2>1
<1> QED
  BY <1>1, ConsoleAdmin, ConsoleServer, ConsoleAnswers DEF Next

\* What UneditedConfirmKeepsLimit says of one step.
LEMMA ConfirmStep ==
    ASSUME ConsoleInv, Next, NEW i \in DOMAIN net, net[i].kind = "limiter", net[i].own,
           page' = page, i \notin DOMAIN net' \/ net'[i] # net[i]
    PROVE  /\ net[i].fields.of = net[i].item
           /\ \/ SameLimit(limits[net[i].item], limits'[net[i].item])
              \/ limits[net[i].item] # net[i].fields.seen
              \/ Inexact(net[i].fields.seen)
<1> DEFINE m == net[i].item
           f == net[i].fields
<1>1. /\ m \in Methods /\ f.of = m /\ f.seen \in Reachable /\ f.val \in MethodInfo(f.seen)
      /\ limits \in [Methods -> Reachable]
  BY DEF ConsoleInv, ConsoleTypes, RequestOK, Shows
<1>2. ASSUME limits' = limits PROVE SameLimit(limits[m], limits'[m])
  BY <1>2 DEF SameLimit
<1>3. CASE Admin
  <2>1. \A p \in Pages : ~Navigate(p)
    BY DEF Navigate, Mounted
  <2>2. limits' = limits
    BY <1>3, <2>1 DEF Admin, ShowModal, HandleCancel, HandleOk, ProxyClick, ShowAddHost, DeleteRow,
       DeleteProxy, CloseBubble, ShowSetRate, Edit, serverVars
  <2> QED
    BY <1>1, <1>2, <2>2
<1>4. CASE Server
  <2>1. ASSUME NEW j \in DOMAIN net, ServeLimiter(j) PROVE j = i
    <3>1. ASSUME NEW r, Answer(j, r), j # i PROVE i \in DOMAIN net' /\ net'[i] = net[i]
      BY <3>1 DEF Answer, Without
    <3> QED
      BY <2>1, <3>1 DEF ServeLimiter
  <2>2. ASSUME ServeLimiter(i)
        PROVE  SameLimit(limits[m], limits'[m]) \/ limits[m] # f.seen \/ Inexact(f.seen)
    <3>1. limits' = limits \/ limits' = [limits EXCEPT ![m] = SetRateLimiter(f.val)]
      BY <2>2 DEF ServeLimiter
    <3>2. CASE limits' = [limits EXCEPT ![m] = SetRateLimiter(f.val)]
      <4> HIDE DEF m, f
      <4>1. limits'[m] = SetRateLimiter(f.val)
        BY <3>2, <1>1
      <4> QED
        BY <4>1, <1>1, ShownLimitIsKept
    <3> QED
      BY <3>1, <3>2, <1>2
  <2>3. ASSUME NEW x \in ItemsOf(page), Elsewhere(x) PROVE FALSE
    BY <2>3 DEF Elsewhere
  <2>4. ASSUME NEW j \in DOMAIN net, ServeList(j) \/ ServeMethodInfo(j) \/ ServeChange(j)
        PROVE  limits' = limits
    BY <2>4 DEF ServeList, ServeMethodInfo, ServeChange, serverVars
  <2> QED
    BY <1>1, <1>2, <1>4, <2>1, <2>2, <2>3, <2>4 DEF Server
<1>5. CASE Answers
  <2>1. limits' = limits
    BY <1>5 DEF Answers, DeliverInfo, DeliverList, DeliverMethodInfo, DeliverChange, DeliverLimiter,
       Fail, serverVars
  <2> QED
    BY <1>1, <1>2, <2>1
<1> QED
  BY <1>3, <1>4, <1>5 DEF Next

(***************************************************************************)
(* Confirming SetRateModal without editing keeps the limit of the path in  *)
(* its title, however its requests and answers, those of earlier visits to *)
(* the dialog and of other pages interleave, for any paths, limits and     *)
(* number of requests.                                                     *)
(***************************************************************************)
THEOREM ConfirmKeepsLimit == Spec => UneditedConfirmKeepsLimit
<1>1. ConsoleInv /\ [Next]_vars =>
        [\A i \in DOMAIN net :
            (/\ net[i].kind = "limiter" /\ net[i].own
             /\ page' = page /\ (i \notin DOMAIN net' \/ net'[i] # net[i]))
            => /\ net[i].fields.of = net[i].item
               /\ \/ SameLimit(limits[net[i].item], limits'[net[i].item])
                  \/ limits[net[i].item] # net[i].fields.seen
                  \/ Inexact(net[i].fields.seen)]_vars
  BY ConfirmStep
<1> QED
  BY <1>1, ConsoleInit, ConsoleNext, PTL DEF Spec, UneditedConfirmKeepsLimit

-----------------------------------------------------------------------------
(***************************************************************************)
(* The requests in flight: who sent them, and what a step does with them.  *)
(***************************************************************************)
\* What the sender of a request says of its kind, and its page of its answer.
RequestShape(r, p) ==
    /\ r.kind \in {"info", "list", "methodInfo"} => r.from = "page" /\ r.mounted
    /\ r.kind = "limiter" => r.from = "setRate"
    /\ r.kind \in {"add", "remove", "addHost"} =>
         r.from \in (Dialogs \ {"setRate"}) \cup {"row", "bubble"}
    /\ r.kind = "add" => r.page # "rate"
    /\ r.kind = "list" => r.list \subseteq ItemsOf(p)
    /\ r.answered => r.mounted

\* A request as its sender makes it.
Fresh(r, p) ==
    r \in Request /\ RequestShape(r, p) /\ r.mounted /\ ~r.answered

\* The step answers request i and leaves the others.
OnlyAnswers(i) ==
    /\ DOMAIN net' = DOMAIN net
    /\ \A j \in DOMAIN net \ {i} : net'[j] = net[j]
    /\ net'[i].kind = net[i].kind /\ net'[i].from = net[i].from /\ net'[i].page = net[i].page
    /\ net'[i].mounted /\ net'[i].answered

\* The step processes request i, whose answer nobody hears if its page is gone.
Serves(i) ==
    /\ net[i] \in Request /\ ~net[i].answered
    /\ \/ net[i].mounted /\ OnlyAnswers(i)
       \/ ~net[i].mounted /\ net' = Without(i)
    /\ UNCHANGED <<sent, dialogVars, pageVars>>

\* The step takes request i out of flight.
Takes(i) ==
    DOMAIN net' = DOMAIN net \ {i} /\ \A j \in DOMAIN net \ {i} : net'[j] = net[j]

LEMMA WithoutTakes == ASSUME NEW i, net' = Without(i) PROVE Takes(i)
  BY DEF Without, Takes

\* The console's requests are fresh.
LEMMA NewRequestFresh ==
    ASSUME page \in Pages, NEW kind \in {"info", "list", "methodInfo"} \cup Posts,
           NEW from \in Dialogs \cup {"row", "bubble", "page"},
           NEW item \in Items \cup Methods \cup {None},
           kind \in {"info", "list", "methodInfo"} => from = "page",
           kind = "limiter" => from = "setRate",
           kind \in {"add", "remove", "addHost"} => from \in (Dialogs \ {"setRate"}) \cup {"row", "bubble"},
           kind = "add" => page # "rate"
    PROVE  LET r == NewRequest(kind, from, item)
           IN  Fresh(r, page) /\ r.kind = kind /\ r.from = from
<1> DEFINE r == NewRequest(kind, from, item)
<1>1. r \in Request
  BY NewRequestType
<1>2. r.kind = kind /\ r.from = from /\ r.page = page /\ r.mounted /\ ~r.answered /\ r.list = {}
  BY DEF NewRequest
<1> HIDE DEF r
<1>3. RequestShape(r, page)
  BY <1>2 DEF RequestShape
<1>4. Fresh(r, page) /\ r.kind = kind /\ r.from = from
  BY <1>1, <1>2, <1>3 DEF Fresh
<1> QED
  BY <1>4 DEF r

LEMMA SubmissionFresh ==
    ASSUME ConsoleInv, NEW d \in Dialogs, page = PageOf[d], NEW x \in Items
    PROVE  Fresh(Submission(d, x), page) /\ Submission(d, x).from = d
<1>0. /\ page \in Pages /\ target \in Items \cup Methods \cup {None} /\ form \in Fields
      /\ x \in Items \cup Methods \cup {None}
  BY DEF ConsoleInv, ConsoleTypes
<1>1. CASE d \in {"addProxy", "insert"}
  <2>1. Submission(d, x) = NewRequest("add", d, x) /\ page # "rate"
    BY <1>1 DEF Submission, PageOf, Dialogs
  <2> QED
    BY <1>0, <1>1, <2>1, NewRequestFresh DEF Dialogs, Posts
<1>2. CASE d = "delete"
  <2>1. Submission(d, x) = NewRequest("remove", d, x)
    BY <1>2 DEF Submission
  <2> QED
    BY <1>0, <1>2, <2>1, NewRequestFresh DEF Dialogs, Posts
<1>3. CASE d = "addHost"
  <2>1. Submission(d, x) = NewRequest("addHost", d, target)
    BY <1>3 DEF Submission
  <2> QED
    BY <1>0, <1>3, <2>1, NewRequestFresh DEF Dialogs, Posts
<1>4. CASE d = "setRate"
  <2> DEFINE q == NewRequest("limiter", d, target)
             r == [q EXCEPT !.fields = form, !.own = (form.ask = asked)]
  <2>1. Submission(d, x) = r
    BY <1>4 DEF Submission
  <2>2. Fresh(q, page) /\ q.kind = "limiter" /\ q.from = d
    BY <1>0, <1>4, NewRequestFresh DEF Dialogs, Posts
  <2> HIDE DEF q
  <2>3. /\ r \in Request /\ r.kind = "limiter" /\ r.from = d
        /\ (r.mounted <=> q.mounted) /\ (r.answered <=> q.answered)
    BY <1>0, <2>2 DEF Fresh, Request
  <2> HIDE DEF r
  <2>4. Fresh(r, page) /\ r.from = d
    BY <1>4, <2>2, <2>3 DEF Fresh, RequestShape
  <2> QED
    BY <2>1, <2>4
<1> QED
  BY <1>1, <1>2, <1>3, <1>4 DEF Dialogs

\* A page that is mounted ends its requests with one for its list.
LEMMA MountRequestsFresh ==
    ASSUME page \in Pages, NEW p \in Pages
    PROVE  /\ MountRequests(p) \in Seq(Request) /\ Len(MountRequests(p)) \in Nat \ {0}
           /\ \A k \in 1 .. Len(MountRequests(p)) :
                 Fresh(MountRequests(p)[k], p) /\ MountRequests(p)[k].kind \in {"info", "list"}
           /\ MountRequests(p)[Len(MountRequests(p))].kind = "list"
<1> DEFINE r == NewRequest("list", "page", None)
           list == [r EXCEPT !.page = p]
           info == [list EXCEPT !.kind = "info"]
<1>1. r \in Request /\ r.kind = "list" /\ r.from = "page" /\ r.mounted /\ ~r.answered /\ r.list = {}
  <2>1. r \in Request
    BY NewRequestType DEF Posts
  <2> QED
    BY <2>1 DEF NewRequest
<1> HIDE DEF r
<1>2. /\ list \in Request /\ list.kind = "list" /\ list.from = "page" /\ list.mounted
      /\ ~list.answered /\ list.list = {}
  BY <1>1 DEF Request
<1> HIDE DEF list
<1>3. /\ info \in Request /\ info.kind = "info" /\ info.from = "page" /\ info.mounted
      /\ ~info.answered /\ info.list = {}
  BY <1>2 DEF Request
<1> HIDE DEF info
<1>4. Fresh(list, p) /\ Fresh(info, p)
  BY <1>2, <1>3 DEF Fresh, RequestShape
<1>5. MountRequests(p) = IF p = "index" THEN <<info, list>> ELSE <<list>>
  BY DEF MountRequests, r, list, info
<1> QED
  BY <1>2, <1>3, <1>4, <1>5

\* An answer that changes only ok, the fields or the list.
LEMMA AnswerServes ==
    ASSUME ConsoleInv, NEW i \in DOMAIN net, ~net[i].answered, NEW s \in Request, Answer(i, s),
           s.kind = net[i].kind, s.from = net[i].from, s.page = net[i].page,
           s.mounted <=> net[i].mounted
    PROVE  /\ Serves(i)
           /\ net[i].mounted => (net'[i].ok <=> s.ok) /\ net'[i].list = s.list
<1>0. net[i] \in Request
  BY DEF ConsoleInv, ConsoleTypes
<1>1. UNCHANGED <<sent, dialogVars, pageVars>>
  BY DEF Answer
<1>2. CASE net[i].mounted
  <2> DEFINE q == [s EXCEPT !.answered = TRUE]
  <2>1. /\ q.kind = s.kind /\ q.from = s.from /\ q.page = s.page /\ (q.mounted <=> s.mounted)
        /\ q.answered /\ (q.ok <=> s.ok) /\ q.list = s.list
    BY DEF Request
  <2>2. net' = [net EXCEPT ![i] = q]
    BY <1>2 DEF Answer
  <2> HIDE DEF q
  <2>3. DOMAIN net' = DOMAIN net /\ net'[i] = q /\ \A j \in DOMAIN net \ {i} : net'[j] = net[j]
    BY <2>2
  <2> QED
    BY <1>0, <1>1, <1>2, <2>1, <2>3 DEF Serves, OnlyAnswers
<1>3. CASE ~net[i].mounted
  <2>1. net' = Without(i)
    BY <1>3 DEF Answer
  <2> QED
    BY <1>0, <1>1, <1>3, <2>1 DEF Serves
<1> QED
  BY <1>2, <1>3

\* doGetInfo and the lists: the list as it is now.
LEMMA ListServed ==
    ASSUME ConsoleInv, NEW i \in DOMAIN net, ServeList(i)
    PROVE  /\ Serves(i) /\ net[i].kind \in {"info", "list"} /\ server' = server
           /\ net[i].mounted => net'[i].list = server
           /\ silent' = (silent /\ i # last)
<1>0. net[i] \in Request /\ server \subseteq Items \cup Methods
  BY DEF ConsoleInv, ConsoleTypes
<1> DEFINE s == [net[i] EXCEPT !.ok = TRUE, !.list = server]
<1>1. /\ s \in Request /\ s.kind = net[i].kind /\ s.from = net[i].from /\ s.page = net[i].page
      /\ (s.mounted <=> net[i].mounted) /\ s.list = server
  BY <1>0 DEF Request
<1>2. /\ Answer(i, s) /\ ~net[i].answered /\ net[i].kind \in {"info", "list"} /\ server' = server
      /\ silent' = (silent /\ i # last)
  BY DEF ServeList
<1> HIDE DEF s
<1> QED
  BY <1>1, <1>2, AnswerServes

\* doGetMehtodLimiter.
LEMMA MethodInfoServed ==
    ASSUME ConsoleInv, NEW i \in DOMAIN net, ServeMethodInfo(i)
    PROVE  Serves(i) /\ net[i].kind = "methodInfo" /\ UNCHANGED <<server, silent>>
<1> DEFINE m == net[i].item
<1>0. /\ net[i] \in Request /\ m \in Methods /\ i \in Nat /\ limits[m] \in Reachable
      /\ net[i].kind = "methodInfo" /\ ~net[i].answered /\ UNCHANGED <<server, silent>>
  BY DEF ConsoleInv, ConsoleTypes, ServeMethodInfo, RequestOK, serverVars
<1>1. PICK v \in MethodInfo(limits[m]) :
        Answer(i, [net[i] EXCEPT !.ok = m \in server, !.fields =
                [typ |-> "qps", val |-> v, ask |-> i, of |-> m, seen |-> limits[m]]])
  BY DEF ServeMethodInfo
<1> DEFINE f == [typ |-> "qps", val |-> v, ask |-> i, of |-> m, seen |-> limits[m]]
           b == m \in server
           s == [net[i] EXCEPT !.ok = b, !.fields = f]
<1>2. f \in Fields
  <2>1. v \in Form /\ limits[m] \in Limiter
    BY <1>0, MethodInfoType, ReachableType
  <2> QED
    BY <1>0, <2>1 DEF Fields
<1>3. b \in BOOLEAN /\ Answer(i, s)
  BY <1>1
<1> HIDE DEF f, b, m
<1>4. /\ s \in Request /\ s.kind = net[i].kind /\ s.from = net[i].from /\ s.page = net[i].page
      /\ (s.mounted <=> net[i].mounted)
  BY <1>0, <1>2, <1>3 DEF Request
<1> HIDE DEF s
<1> QED
  BY <1>0, <1>3, <1>4, AnswerServes

\* An answer that changes only ok.
LEMMA OkServes ==
    ASSUME ConsoleInv, NEW i \in DOMAIN net, ~net[i].answered, NEW b \in BOOLEAN,
           Answer(i, [net[i] EXCEPT !.ok = b])
    PROVE  Serves(i) /\ (net[i].mounted => (net'[i].ok <=> b) /\ net'[i].list = net[i].list)
<1>0. net[i] \in Request
  BY DEF ConsoleInv, ConsoleTypes
<1> DEFINE s == [net[i] EXCEPT !.ok = b]
<1>1. /\ s \in Request /\ s.kind = net[i].kind /\ s.from = net[i].from /\ s.page = net[i].page
      /\ (s.mounted <=> net[i].mounted) /\ (s.ok <=> b) /\ s.list = net[i].list
  BY <1>0 DEF Request
<1>2. Answer(i, s)
  OBVIOUS
<1> HIDE DEF s
<1> QED
  BY <1>1, <1>2, AnswerServes

\* doSetRateLimiter.
LEMMA LimiterServed ==
    ASSUME ConsoleInv, NEW i \in DOMAIN net, ServeLimiter(i)
    PROVE  Serves(i) /\ net[i].kind = "limiter" /\ UNCHANGED <<server, silent>>
<1>1. net[i].kind = "limiter" /\ ~net[i].answered /\ UNCHANGED <<server, silent>>
  BY DEF ServeLimiter
<1>2. \E b \in BOOLEAN : Answer(i, [net[i] EXCEPT !.ok = b])
  BY DEF ServeLimiter
<1> QED
  BY <1>1, <1>2, OkServes

\* The handlers of changes: a list that is not as it was is announced to the
\* page by an answer, or it has changed silently.
LEMMA ChangeServed ==
    ASSUME ConsoleInv, NEW i \in DOMAIN net, ServeChange(i), silent \in BOOLEAN
    PROVE  /\ Serves(i) /\ net[i].kind \in {"add", "remove", "addHost"}
           /\ server' \subseteq server \cup {net[i].item}
           /\ server' \subseteq server \/ (net[i].kind = "add" /\ net[i].page = page)
           /\ silent' \in BOOLEAN /\ (silent => silent')
           /\ \/ server' = server
              \/ silent'
              \/ net[i].kind \in {"add", "remove"} /\ net[i].mounted /\ net'[i].ok
<1> DEFINE r == net[i]
<1>0. r \in Request /\ r.kind \in {"add", "remove", "addHost"} /\ ~r.answered
  BY DEF ConsoleInv, ConsoleTypes, ServeChange
<1>1. CASE r.page = page
  <2>1. PICK o \in Outcomes(r, server) :
          /\ server' = o.list
          /\ Answer(i, [r EXCEPT !.ok = o.ok])
          /\ silent' = (silent \/ (server' # server /\ ~(r.mounted /\ o.ok)))
    BY <1>1 DEF ServeChange
  <2>2. /\ o.ok \in BOOLEAN /\ o.list \subseteq server \cup {r.item}
        /\ (r.kind # "add" => o.list \subseteq server)
        /\ (r.kind = "addHost" => o.list = server)
    <3> HIDE DEF r
    <3> QED
      BY <1>0, <2>1, OutcomesType
  <2>3. Serves(i) /\ (r.mounted => (net'[i].ok <=> o.ok))
    BY <1>0, <2>1, <2>2, OkServes
  <2> HIDE DEF r
  <2> QED
    BY <1>0, <1>1, <2>1, <2>2, <2>3 DEF r
<1>2. CASE r.page # page
  <2>1. Answer(i, r) /\ UNCHANGED <<server, silent>>
    BY <1>2 DEF ServeChange
  <2>2. Serves(i)
    BY <1>0, <2>1, AnswerServes
  <2> QED
    BY <1>0, <2>1, <2>2
<1> QED
  BY <1>1, <1>2

-----------------------------------------------------------------------------
(***************************************************************************)
(* The page: a dialog and the bubble are open on their own page only, and  *)
(* what the page shows and the server has are items of that page.          *)
(***************************************************************************)
PageInv ==
    /\ loading \in [Dialogs -> BOOLEAN]
    /\ ready \in BOOLEAN /\ silent \in BOOLEAN /\ dropped \in BOOLEAN
    /\ shown \subseteq ItemsOf(page) /\ server \subseteq ItemsOf(page)
    /\ last \in 0 .. sent /\ current \in 0 .. sent
    /\ \A d \in Dialogs : visible[d] => page = PageOf[d]
    /\ bubble # {} => page = "index"
    /\ \A i \in DOMAIN net : RequestShape(net[i], page)

LEMMA PageInit == Init => PageInv
<1> SUFFICES ASSUME Init PROVE PageInv
  OBVIOUS
<1>1. page \in Pages
  BY DEF Init
<1>2. net = MountRequests(page) /\ sent = Len(net)
  BY DEF Init
<1>3. /\ net \in Seq(Request) /\ sent \in Nat
      /\ \A k \in 1 .. sent : Fresh(net[k], page)
  BY <1>1, <1>2, MountRequestsFresh
<1>4. \A i \in DOMAIN net : RequestShape(net[i], page)
  BY <1>2, <1>3 DEF Fresh
<1>5. /\ loading \in [Dialogs -> BOOLEAN] /\ ~ready /\ ~silent /\ ~dropped
      /\ shown = {} /\ bubble = {} /\ server \subseteq ItemsOf(page) /\ last = sent /\ current = 0
      /\ \A d \in Dialogs : ~visible[d]
  BY DEF Init
<1>6. ready \in BOOLEAN /\ silent \in BOOLEAN /\ dropped \in BOOLEAN
  BY DEF Init
<1> QED
  BY <1>3, <1>4, <1>5, <1>6 DEF PageInv

\* Steps on a page that open nothing.
LEMMA PageKept ==
    ASSUME PageInv, page' = page, sent \in Nat, sent' \in Nat, sent <= sent',
           loading' \in [Dialogs -> BOOLEAN],
           ready' \in BOOLEAN, silent' \in BOOLEAN, dropped' \in BOOLEAN,
           shown' \subseteq ItemsOf(page), server' \subseteq ItemsOf(page),
           last' \in {last, sent'}, current' \in 0 .. sent,
           \A d \in Dialogs : visible'[d] => visible[d], bubble' \subseteq bubble,
           \A i \in DOMAIN net' : RequestShape(net'[i], page)
    PROVE  PageInv'
<1>1. last' \in 0 .. sent' /\ current' \in 0 .. sent'
  BY DEF PageInv
<1> QED
  BY <1>1 DEF PageInv

\* What a step makes of the requests' shapes.
LEMMA SentShape ==
    ASSUME PageInv, sent \in Nat, NEW n, DOMAIN n \subseteq 1 .. sent,
           \A i \in DOMAIN n : RequestShape(n[i], page), NEW r, Fresh(r, page), Send(n, <<r>>)
    PROVE  /\ sent' = sent + 1
           /\ \A i \in DOMAIN net' : RequestShape(net'[i], page)
<1>1. /\ sent' = sent + 1 /\ DOMAIN net' = DOMAIN n \cup {sent'} /\ net'[sent'] = r
      /\ \A i \in DOMAIN n : net'[i] = n[i]
  BY SendOne
<1> QED
  BY <1>1 DEF Fresh

LEMMA ServedShape ==
    ASSUME PageInv, NEW i \in DOMAIN net, Serves(i),
           net[i].kind = "list" => net'[i].list \subseteq ItemsOf(page)
    PROVE  \A j \in DOMAIN net' : RequestShape(net'[j], page)
<1>1. CASE ~net[i].mounted
  <2>1. Takes(i)
    BY <1>1, WithoutTakes DEF Serves
  <2> QED
    BY <2>1 DEF Takes, PageInv
<1>2. CASE OnlyAnswers(i)
  <2>1. RequestShape(net'[i], page)
    <3>1. RequestShape(net[i], page)
      BY DEF PageInv
    <3> QED
      BY <1>2, <3>1 DEF OnlyAnswers, RequestShape
  <2> QED
    BY <1>2, <2>1 DEF OnlyAnswers, PageInv
<1> QED
  BY <1>1, <1>2 DEF Serves

LEMMA TakenShape ==
    ASSUME PageInv, NEW i, Takes(i)
    PROVE  \A j \in DOMAIN net' : RequestShape(net'[j], page)
  BY DEF Takes, PageInv

\* The admin's steps on a page.
LEMMA PageAdmin == ConsoleInv /\ PageInv /\ Admin => PageInv'
<1> SUFFICES ASSUME ConsoleInv, PageInv, Admin PROVE PageInv'
  OBVIOUS
<1>0. /\ page \in Pages /\ sent \in Nat /\ DOMAIN net \subseteq 1 .. sent
      /\ visible \in [Dialogs -> BOOLEAN] /\ loading \in [Dialogs -> BOOLEAN]
  BY DEF ConsoleInv, ConsoleTypes, PageInv
<1>kept. /\ ready \in BOOLEAN /\ silent \in BOOLEAN /\ dropped \in BOOLEAN
         /\ shown \subseteq ItemsOf(page) /\ server \subseteq ItemsOf(page)
         /\ current \in 0 .. sent /\ sent <= sent /\ sent <= sent + 1 /\ sent + 1 \in Nat
         /\ \A i \in DOMAIN net : RequestShape(net[i], page)
  BY <1>0 DEF PageInv
<1>send. ASSUME NEW r, Fresh(r, page), Send(net, <<r>>), UNCHANGED <<pageVars, serverVars, dropped, bubble>>,
                loading' \in [Dialogs -> BOOLEAN], \A d \in Dialogs : visible'[d] => visible[d]
         PROVE  PageInv'
  <2>1. sent' = sent + 1 /\ \A i \in DOMAIN net' : RequestShape(net'[i], page)
    BY <1>send, <1>0, <1>kept, SentShape
  <2>2. UNCHANGED <<page, ready, shown, last, current, server, silent>>
    BY <1>send DEF pageVars, serverVars
  <2> QED
    BY <1>send, <1>0, <1>kept, <2>1, <2>2, PageKept
<1>1. ASSUME NEW p \in Pages, Navigate(p) PROVE PageInv'
  <2> DEFINE posted == {i \in DOMAIN net : net[i].kind \in Posts /\ ~net[i].answered}
             n == [i \in posted |-> [net[i] EXCEPT !.mounted = FALSE]]
             rs == MountRequests(p)
  <2>1. DOMAIN n \subseteq 1 .. sent
    BY <1>0
  <2>2. /\ rs \in Seq(Request)
        /\ \A k \in 1 .. Len(rs) : RequestShape(rs[k], p)
    BY <1>0, MountRequestsFresh DEF Fresh
  <2>3. Send(n, rs)
    BY <1>1 DEF Navigate
  <2>4. ASSUME NEW i \in DOMAIN n PROVE RequestShape(n[i], p)
    <3> DEFINE r == net[i]
               q == [r EXCEPT !.mounted = FALSE]
    <3>1. r \in Request /\ RequestShape(r, page) /\ r.kind \in Posts /\ ~r.answered /\ n[i] = q
      BY DEF ConsoleInv, ConsoleTypes, PageInv
    <3> HIDE DEF r, n
    <3>2. q.kind = r.kind /\ q.from = r.from /\ q.page = r.page /\ (q.answered <=> r.answered)
      BY <3>1 DEF Request
    <3> HIDE DEF q
    <3>3. q.kind \in {"add", "remove", "addHost", "limiter"}
      BY <3>1, <3>2 DEF Posts
    <3>4. RequestShape(q, p)
      BY <3>1, <3>2, <3>3 DEF RequestShape
    <3> QED
      BY <3>1, <3>4
  <2> HIDE DEF n, rs
  <2>5. /\ sent' \in Nat
        /\ \A i \in DOMAIN net' : \/ i \in DOMAIN n /\ net'[i] = n[i]
                                  \/ \E k \in 1 .. Len(rs) : net'[i] = rs[k]
    BY <1>0, <2>1, <2>2, <2>3, SendAll
  <2>6. \A i \in DOMAIN net' : RequestShape(net'[i], p)
    BY <2>2, <2>4, <2>5
  <2>7. /\ page' = p /\ ready' = FALSE /\ shown' = {} /\ last' = sent' /\ current' = 0 /\ silent' = FALSE
        /\ visible' = [d \in Dialogs |-> FALSE] /\ loading' = [d \in Dialogs |-> FALSE]
        /\ bubble' = {} /\ dropped' = FALSE /\ server' \subseteq ItemsOf(p)
    BY <1>1 DEF Navigate, Mounted
  <2>8. \A d \in Dialogs : ~visible'[d]
    BY <2>7
  <2>9. /\ loading' \in [Dialogs -> BOOLEAN] /\ ready' \in BOOLEAN /\ silent' \in BOOLEAN
        /\ dropped' \in BOOLEAN
    BY <2>7
  <2>10. last' \in 0 .. sent' /\ current' \in 0 .. sent' /\ shown' \subseteq ItemsOf(p)
    BY <2>5, <2>7
  <2>11. page' = p /\ bubble' = {} /\ server' \subseteq ItemsOf(p)
    BY <2>7
  <2> QED
    BY <2>6, <2>8, <2>9, <2>10, <2>11 DEF PageInv
<1>2. ASSUME NEW d \in Dialogs, ShowModal(d) PROVE PageInv'
  <2>1. /\ UNCHANGED <<net, sent, loading, bubble, dropped, page, ready, shown, last, current, server, silent>>
        /\ page = PageOf[d] /\ visible' = [visible EXCEPT ![d] = TRUE]
    BY <1>2 DEF ShowModal, pageVars, serverVars
  <2>2. \A e \in Dialogs : visible'[e] => page = PageOf[e]
    BY <1>0, <2>1 DEF PageInv
  <2> QED
    BY <2>1, <2>2 DEF PageInv
<1>3. ASSUME NEW d \in Dialogs, HandleCancel(d) PROVE PageInv'
  <2>1. /\ UNCHANGED <<net, sent, loading, bubble, dropped, page, ready, shown, last, current, server, silent>>
        /\ visible' = [visible EXCEPT ![d] = FALSE]
    BY <1>3 DEF HandleCancel, pageVars, serverVars
  <2>2. \A e \in Dialogs : visible'[e] => page = PageOf[e]
    BY <1>0, <2>1 DEF PageInv
  <2> QED
    BY <2>1, <2>2 DEF PageInv
<1>4. ASSUME NEW d \in Dialogs, NEW x \in Items, HandleOk(d, x) PROVE PageInv'
  <2>1. /\ UNCHANGED <<visible, bubble, dropped, pageVars, serverVars>>
        /\ loading' = [loading EXCEPT ![d] = TRUE] /\ visible[d] /\ Send(net, <<Submission(d, x)>>)
    BY <1>4 DEF HandleOk
  <2>2. Fresh(Submission(d, x), page)
    BY <2>1, SubmissionFresh DEF PageInv
  <2>3. loading' \in [Dialogs -> BOOLEAN]
    BY <1>0, <2>1
  <2> QED
    BY <1>send, <2>1, <2>2, <2>3
<1>5. ASSUME NEW x \in Items, ProxyClick(x) PROVE PageInv'
  BY <1>5 DEF ProxyClick, PageInv, pageVars, serverVars
<1>6. ASSUME NEW x \in Items, ShowAddHost(x) PROVE PageInv'
  <2>1. /\ UNCHANGED <<net, sent, loading, bubble, dropped, page, ready, shown, last, current, server, silent>>
        /\ bubble # {} /\ visible' = [visible EXCEPT !["addHost"] = TRUE]
    BY <1>6 DEF ShowAddHost, pageVars, serverVars
  <2>2. page = PageOf["addHost"]
    BY <2>1 DEF PageInv, PageOf, Dialogs
  <2>3. \A e \in Dialogs : visible'[e] => page = PageOf[e]
    BY <1>0, <2>1, <2>2 DEF PageInv
  <2> QED
    BY <2>1, <2>3 DEF PageInv
<1>7. ASSUME NEW x \in Items, NEW from \in {"row", "bubble"}, Send(net, <<NewRequest("remove", from, x)>>),
             UNCHANGED <<dialogVars, pageVars, serverVars>>
      PROVE  PageInv'
  <2>1. Fresh(NewRequest("remove", from, x), page)
    BY <1>0, NewRequestFresh DEF Posts
  <2> QED
    BY <1>0, <1>7, <1>send, <2>1 DEF dialogVars
<1>8. CASE CloseBubble
  BY <1>8 DEF CloseBubble, PageInv, pageVars, serverVars
<1>9. ASSUME NEW m \in Methods, ShowSetRate(m) PROVE PageInv'
  <2> DEFINE r == NewRequest("methodInfo", "page", m)
  <2>1. /\ UNCHANGED <<loading, bubble, dropped, page, ready, shown, last, current, server, silent>>
        /\ page = "rate" /\ visible' = [visible EXCEPT !["setRate"] = TRUE] /\ Send(net, <<r>>)
    BY <1>9 DEF ShowSetRate, pageVars, serverVars
  <2>2. Fresh(r, page)
    BY <1>0, NewRequestFresh
  <2> HIDE DEF r
  <2>3. sent' = sent + 1 /\ \A i \in DOMAIN net' : RequestShape(net'[i], page)
    BY <1>0, <1>kept, <2>1, <2>2, SentShape
  <2>4. page = PageOf["setRate"]
    BY <2>1 DEF PageOf, Dialogs
  <2>5. \A e \in Dialogs : visible'[e] => page = PageOf[e]
    BY <1>0, <2>1, <2>4 DEF PageInv
  <2>6. last \in 0 .. sent' /\ current \in 0 .. sent'
    BY <1>0, <2>3 DEF PageInv
  <2> QED
    BY <2>1, <2>3, <2>5, <2>6 DEF PageInv
<1>10. ASSUME NEW typ, NEW val, Edit(typ, val) PROVE PageInv'
  BY <1>10 DEF Edit, PageInv, pageVars, serverVars
<1> QED
  BY <1>1, <1>2, <1>3, <1>4, <1>5, <1>6, <1>7, <1>8, <1>9, <1>10 DEF Admin, DeleteRow, DeleteProxy

\* The server's.
LEMMA PageServer == ConsoleInv /\ PageInv /\ Server => PageInv'
<1> SUFFICES ASSUME ConsoleInv, PageInv, Server PROVE PageInv'
  OBVIOUS
<1>0. /\ page \in Pages /\ sent \in Nat /\ sent <= sent /\ current \in 0 .. sent
      /\ silent \in BOOLEAN /\ server \subseteq ItemsOf(page)
  BY DEF ConsoleInv, ConsoleTypes, PageInv
<1>kept. ASSUME UNCHANGED <<sent, dialogVars, pageVars>>, server' \subseteq ItemsOf(page),
                silent' \in BOOLEAN, \A j \in DOMAIN net' : RequestShape(net'[j], page)
         PROVE  PageInv'
  BY <1>kept DEF PageInv, dialogVars, pageVars
<1>served. ASSUME NEW i \in DOMAIN net, Serves(i), server' \subseteq ItemsOf(page), silent' \in BOOLEAN,
                  net[i].kind = "list" => net'[i].list \subseteq ItemsOf(page)
           PROVE  PageInv'
  <2>1. UNCHANGED <<sent, dialogVars, pageVars>> /\ \A j \in DOMAIN net' : RequestShape(net'[j], page)
    BY <1>served, ServedShape DEF Serves
  <2> QED
    BY <1>served, <1>kept, <2>1
<1>1. ASSUME NEW i \in DOMAIN net, ServeList(i) PROVE PageInv'
  <2>1. /\ Serves(i) /\ server' = server /\ silent' \in BOOLEAN
        /\ net[i].mounted => net'[i].list = server
    BY <1>1, ListServed
  <2>2. net[i].kind = "list" => net[i].mounted
    BY DEF PageInv, RequestShape
  <2> QED
    BY <1>0, <1>served, <2>1, <2>2
<1>2. ASSUME NEW i \in DOMAIN net, ServeMethodInfo(i) \/ ServeLimiter(i) PROVE PageInv'
  BY <1>0, <1>2, <1>served, MethodInfoServed, LimiterServed
<1>3. ASSUME NEW i \in DOMAIN net, ServeChange(i) PROVE PageInv'
  <2>1. /\ Serves(i) /\ net[i].kind \in {"add", "remove", "addHost"}
        /\ server' \subseteq server \cup {net[i].item}
        /\ server' \subseteq server \/ (net[i].kind = "add" /\ net[i].page = page)
        /\ silent' \in BOOLEAN
    BY <1>0, <1>3, ChangeServed
  <2>2. net[i].kind = "add" => net[i].item \in Items /\ net[i].page # "rate"
    BY DEF ConsoleInv, RequestOK, PageInv, RequestShape
  <2>3. server' \subseteq ItemsOf(page)
    BY <1>0, <2>1, <2>2 DEF ItemsOf
  <2> QED
    BY <1>served, <2>1, <2>3
<1>4. ASSUME NEW x \in ItemsOf(page), Elsewhere(x) PROVE PageInv'
  <2>1. /\ UNCHANGED <<net, sent, dialogVars, pageVars>> /\ silent' \in BOOLEAN
        /\ server' \subseteq ItemsOf(page)
    BY <1>0, <1>4 DEF Elsewhere
  <2>2. \A j \in DOMAIN net' : RequestShape(net'[j], page)
    BY <2>1 DEF PageInv
  <2> QED
    BY <1>kept, <2>1, <2>2
<1> QED
  BY <1>1, <1>2, <1>3, <1>4 DEF Server

\* A dialog that an answer closes.
LEMMA ClosedType ==
    ASSUME loading \in [Dialogs -> BOOLEAN], visible \in [Dialogs -> BOOLEAN], NEW e, Closed(e)
    PROVE  /\ loading' \in [Dialogs -> BOOLEAN]
           /\ \A d \in Dialogs : visible'[d] => visible[d]
           /\ \A d \in Dialogs : loading'[d] <=> (loading[d] /\ (d # e \/ d = "addHost"))
<1>1. CASE e \in Dialogs \ {"addHost"}
  BY <1>1 DEF Closed
<1>2. CASE e = "addHost"
  BY <1>2 DEF Closed, Dialogs
<1>3. CASE e \notin Dialogs
  BY <1>3 DEF Closed
<1> QED
  BY <1>1, <1>2, <1>3

\* The answers'.
LEMMA PageAnswers == ConsoleInv /\ PageInv /\ Answers => PageInv'
<1> SUFFICES ASSUME ConsoleInv, PageInv, Answers PROVE PageInv'
  OBVIOUS
<1>0. /\ page \in Pages /\ sent \in Nat /\ DOMAIN net \subseteq 1 .. sent /\ sent <= sent
      /\ visible \in [Dialogs -> BOOLEAN] /\ loading \in [Dialogs -> BOOLEAN]
      /\ ready \in BOOLEAN /\ silent \in BOOLEAN /\ dropped \in BOOLEAN
      /\ shown \subseteq ItemsOf(page) /\ server \subseteq ItemsOf(page) /\ current \in 0 .. sent
      /\ \A i \in DOMAIN net : RequestShape(net[i], page)
  BY DEF ConsoleInv, ConsoleTypes, PageInv
<1>without. ASSUME NEW i, net' = Without(i)
            PROVE  \A j \in DOMAIN net' : RequestShape(net'[j], page)
  BY <1>without, WithoutTakes, TakenShape
<1>1. ASSUME NEW i \in DOMAIN net, DeliverInfo(i) PROVE PageInv'
  <2>1. /\ net' = Without(i) /\ ready' = TRUE
        /\ UNCHANGED <<sent, page, shown, last, current, visible, loading, bubble, dropped, server, silent>>
    BY <1>1 DEF DeliverInfo, dialogVars, serverVars
  <2> QED
    BY <1>0, <1>without, <2>1 DEF PageInv
<1>2. ASSUME NEW i \in DOMAIN net, DeliverList(i) PROVE PageInv'
  <2>1. /\ net' = Without(i) /\ shown' = net[i].list /\ current' = i /\ net[i].kind = "list"
        /\ UNCHANGED <<sent, page, ready, last, visible, loading, bubble, dropped, server, silent>>
    BY <1>2 DEF DeliverList, Answered, dialogVars, serverVars
  <2>2. shown' \subseteq ItemsOf(page) /\ current' \in 0 .. sent
    BY <1>0, <2>1 DEF RequestShape
  <2> QED
    BY <1>0, <1>without, <2>1, <2>2 DEF PageInv
<1>3. ASSUME NEW i \in DOMAIN net, DeliverMethodInfo(i) PROVE PageInv'
  <2>1. /\ net' = Without(i)
        /\ UNCHANGED <<sent, visible, loading, bubble, dropped, page, ready, shown, last, current,
                       server, silent>>
    BY <1>3 DEF DeliverMethodInfo, pageVars, serverVars
  <2> QED
    BY <1>0, <1>without, <2>1 DEF PageInv
<1>4. ASSUME NEW i \in DOMAIN net, DeliverChange(i) PROVE PageInv'
  <2> DEFINE r == NewRequest("list", "page", None)
  <2>1. /\ Closed(net[i].from) /\ bubble' \subseteq bubble
        /\ \/ Send(Without(i), <<r>>) /\ last' = sent'
           \/ net' = Without(i) /\ UNCHANGED <<sent, last>>
        /\ UNCHANGED <<dropped, page, ready, shown, current, server, silent>>
    BY <1>4 DEF DeliverChange, serverVars
  <2>2. loading' \in [Dialogs -> BOOLEAN] /\ \A d \in Dialogs : visible'[d] => visible[d]
    BY <1>0, <2>1, ClosedType
  <2>3. sent' \in Nat /\ sent <= sent' /\ last' \in {last, sent'}
        /\ \A j \in DOMAIN net' : RequestShape(net'[j], page)
    <3>1. CASE net' = Without(i) /\ UNCHANGED <<sent, last>>
      BY <1>0, <1>without, <3>1
    <3>2. CASE Send(Without(i), <<r>>) /\ last' = sent'
      <4>1. Fresh(r, page)
        BY <1>0, NewRequestFresh
      <4>2. DOMAIN Without(i) \subseteq 1 .. sent
            /\ \A j \in DOMAIN Without(i) : RequestShape(Without(i)[j], page)
        BY <1>0 DEF Without
      <4> HIDE DEF r
      <4> QED
        BY <1>0, <3>2, <4>1, <4>2, SentShape
    <3> QED
      BY <2>1, <3>1, <3>2
  <2> HIDE DEF r
  <2> QED
    BY <1>0, <2>1, <2>2, <2>3, PageKept
<1>5. ASSUME NEW i \in DOMAIN net, DeliverLimiter(i) PROVE PageInv'
  <2>1. /\ net' = Without(i) /\ Closed("setRate")
        /\ UNCHANGED <<sent, bubble, dropped, page, ready, shown, last, current, server, silent>>
    BY <1>5 DEF DeliverLimiter, pageVars, serverVars
  <2>2. loading' \in [Dialogs -> BOOLEAN] /\ \A d \in Dialogs : visible'[d] => visible[d]
    BY <1>0, <2>1, ClosedType
  <2> QED
    BY <1>0, <1>without, <2>1, <2>2 DEF PageInv
<1>6. ASSUME NEW i \in DOMAIN net, Fail(i) PROVE PageInv'
  <2>1. /\ net' = Without(i) /\ bubble' \subseteq bubble
        /\ Closed(net[i].from) \/ UNCHANGED <<visible, loading>>
        /\ dropped' \in BOOLEAN /\ silent' \in BOOLEAN
        /\ UNCHANGED <<sent, page, ready, shown, last, current, server>>
    BY <1>6, <1>0 DEF Fail, pageVars
  <2>2. loading' \in [Dialogs -> BOOLEAN] /\ \A d \in Dialogs : visible'[d] => visible[d]
    BY <1>0, <2>1, ClosedType
  <2> QED
    BY <1>0, <1>without, <2>1, <2>2 DEF PageInv
<1> QED
  BY <1>1, <1>2, <1>3, <1>4, <1>5, <1>6 DEF Answers

LEMMA PageNext == ConsoleInv /\ PageInv /\ [Next]_vars => PageInv'
<1>1. UNCHANGED vars /\ PageInv => PageInv'
  BY DEF vars, dialogVars, pageVars, serverVars, PageInv
<1> QED
  BY <1>1, PageAdmin, PageServer, PageAnswers DEF Next

(***************************************************************************)
(* The console's state keeps its types: what a page shows, what the server *)
(* has and what a late answer brings belong to the page that is mounted,   *)
(* although requests of earlier pages are still processed.                 *)
(***************************************************************************)
THEOREM ConsoleTypesOK == Spec => []TypeOK
<1>1. ConsoleInv /\ PageInv => TypeOK
  BY ReachableType DEF ConsoleInv, ConsoleTypes, PageInv, TypeOK
<1> QED
  BY <1>1, ConsoleInit, ConsoleNext, PageInit, PageNext, PTL DEF Spec

-----------------------------------------------------------------------------
(***************************************************************************)
(* The buttons.  Awaited(n, d): the requests of n whose answers dialog d   *)
(* waits for.                                                              *)
(***************************************************************************)
Awaited(n, d) == {i \in DOMAIN n : n[i].mounted /\ n[i].from = d}

ButtonOK(mine, d, busy, lost) ==
    /\ \A i, j \in mine : i = j
    /\ mine # {} => busy
    /\ busy => mine # {} \/ d = "addHost" \/ (d = "setRate" /\ lost)

LoadingInv == \A d \in Dialogs : ButtonOK(Awaited(net, d), d, loading[d], dropped)

LEMMA AwaitedSent ==
    ASSUME sent \in Nat, NEW n, DOMAIN n \subseteq 1 .. sent, NEW r, r.mounted, Send(n, <<r>>), NEW d
    PROVE  Awaited(net', d) = Awaited(n, d) \cup (IF r.from = d THEN {sent + 1} ELSE {})
<1>1. /\ sent' = sent + 1 /\ DOMAIN net' = DOMAIN n \cup {sent'} /\ net'[sent'] = r
      /\ \A i \in DOMAIN n : net'[i] = n[i]
  BY SendOne
<1>2. sent + 1 \notin DOMAIN n
  OBVIOUS
<1> QED
  BY <1>1, <1>2 DEF Awaited

LEMMA AwaitedTaken ==
    ASSUME NEW i, Takes(i), NEW d
    PROVE  Awaited(net', d) = Awaited(net, d) \ {i}
  BY DEF Takes, Awaited

LEMMA AwaitedServed ==
    ASSUME NEW i \in DOMAIN net, Serves(i), NEW d
    PROVE  Awaited(net', d) = Awaited(net, d)
<1>1. CASE ~net[i].mounted
  <2>1. Takes(i)
    BY <1>1, WithoutTakes DEF Serves
  <2> QED
    BY <1>1, <2>1, AwaitedTaken DEF Awaited
<1>2. CASE net[i].mounted /\ OnlyAnswers(i)
  BY <1>2 DEF OnlyAnswers, Awaited
<1> QED
  BY <1>1, <1>2 DEF Serves

\* Steps that are nothing to a button.
LEMMA LoadingKept ==
    ASSUME LoadingInv, \A d \in Dialogs : Awaited(net', d) = Awaited(net, d),
           loading' = loading, dropped => dropped'
    PROVE  LoadingInv'
  BY DEF LoadingInv, ButtonOK

\* A request that no dialog sends.
LEMMA LoadingSent ==
    ASSUME LoadingInv, sent \in Nat, NEW n, DOMAIN n \subseteq 1 .. sent,
           \A d \in Dialogs : Awaited(n, d) = Awaited(net, d),
           NEW r, r.mounted, r.from \notin Dialogs, Send(n, <<r>>),
           loading' = loading, dropped => dropped'
    PROVE  LoadingInv'
<1>1. ASSUME NEW d \in Dialogs PROVE Awaited(net', d) = Awaited(net, d)
  <2>1. Awaited(net', d) = Awaited(n, d) \cup (IF r.from = d THEN {sent + 1} ELSE {})
    BY AwaitedSent
  <2> QED
    BY <2>1
<1> QED
  BY <1>1, LoadingKept

LEMMA LoadingInit == Init => LoadingInv
<1> SUFFICES ASSUME Init PROVE LoadingInv
  OBVIOUS
<1>1. page \in Pages /\ net = MountRequests(page)
  BY DEF Init
<1>2. /\ net \in Seq(Request)
      /\ \A k \in 1 .. Len(net) : Fresh(net[k], page) /\ net[k].kind \in {"info", "list"}
  BY <1>1, MountRequestsFresh
<1>3. \A k \in DOMAIN net : net[k].from = "page"
  BY <1>2 DEF Fresh, RequestShape
<1>4. \A d \in Dialogs : Awaited(net, d) = {} /\ ~loading[d]
  BY <1>3 DEF Awaited, Dialogs, Init
<1> QED
  BY <1>4 DEF LoadingInv, ButtonOK

LEMMA LoadingAdmin == ConsoleInv /\ PageInv /\ LoadingInv /\ Admin => LoadingInv'
<1> SUFFICES ASSUME ConsoleInv, PageInv, LoadingInv, Admin PROVE LoadingInv'
  OBVIOUS
<1>0. /\ page \in Pages /\ sent \in Nat /\ DOMAIN net \subseteq 1 .. sent
      /\ loading \in [Dialogs -> BOOLEAN]
  BY DEF ConsoleInv, ConsoleTypes, PageInv
<1>1. ASSUME NEW p \in Pages, Navigate(p) PROVE LoadingInv'
  <2> DEFINE posted == {i \in DOMAIN net : net[i].kind \in Posts /\ ~net[i].answered}
             n == [i \in posted |-> [net[i] EXCEPT !.mounted = FALSE]]
             rs == MountRequests(p)
  <2>1. DOMAIN n \subseteq 1 .. sent /\ Send(n, rs) /\ \A d \in Dialogs : ~loading'[d]
    BY <1>0, <1>1 DEF Navigate, Mounted
  <2>2. /\ rs \in Seq(Request)
        /\ \A k \in 1 .. Len(rs) : Fresh(rs[k], p) /\ rs[k].kind \in {"info", "list"}
    BY <1>0, MountRequestsFresh
  <2>3. \A k \in 1 .. Len(rs) : rs[k].from = "page"
    BY <2>2 DEF Fresh, RequestShape
  <2>4. ASSUME NEW i \in DOMAIN n PROVE ~n[i].mounted
    <3>1. net[i] \in Request /\ n[i] = [net[i] EXCEPT !.mounted = FALSE]
      BY DEF ConsoleInv, ConsoleTypes
    <3> HIDE DEF n
    <3> QED
      BY <3>1 DEF Request
  <2> HIDE DEF n, rs
  <2>5. \A i \in DOMAIN net' : \/ i \in DOMAIN n /\ net'[i] = n[i]
                               \/ \E k \in 1 .. Len(rs) : net'[i] = rs[k]
    BY <1>0, <2>1, <2>2, SendAll
  <2>6. \A d \in Dialogs : Awaited(net', d) = {}
    BY <2>3, <2>4, <2>5 DEF Awaited, Dialogs
  <2> QED
    BY <2>1, <2>6 DEF LoadingInv, ButtonOK
<1>2. ASSUME UNCHANGED <<net, loading, dropped>> PROVE LoadingInv'
  BY <1>2, LoadingKept
<1>3. ASSUME NEW d \in Dialogs, NEW x \in Items, HandleOk(d, x) PROVE LoadingInv'
  <2> DEFINE r == Submission(d, x)
  <2>1. /\ visible[d] /\ ~loading[d] /\ loading' = [loading EXCEPT ![d] = TRUE]
        /\ Send(net, <<r>>) /\ dropped' = dropped
    BY <1>3 DEF HandleOk
  <2>2. Fresh(r, page) /\ r.from = d
    BY <2>1, SubmissionFresh DEF PageInv
  <2> HIDE DEF r
  <2>3. ASSUME NEW e \in Dialogs PROVE ButtonOK(Awaited(net', e), e, loading'[e], dropped')
    <3>1. Awaited(net', e) = Awaited(net, e) \cup (IF d = e THEN {sent + 1} ELSE {})
      BY <1>0, <2>1, <2>2, AwaitedSent DEF Fresh
    <3>2. ButtonOK(Awaited(net, e), e, loading[e], dropped)
      BY DEF LoadingInv
    <3>3. CASE e = d
      <4>1. Awaited(net, e) = {} /\ loading'[e]
        BY <1>0, <2>1, <3>2, <3>3 DEF ButtonOK
      <4> QED
        BY <3>1, <3>3, <4>1 DEF ButtonOK
    <3>4. CASE e # d
      <4>1. Awaited(net', e) = Awaited(net, e) /\ loading'[e] = loading[e]
        BY <1>0, <2>1, <3>1, <3>4
      <4> QED
        BY <2>1, <3>2, <4>1
    <3> QED
      BY <3>3, <3>4
  <2> QED
    BY <2>3 DEF LoadingInv
<1>4. ASSUME NEW kind, NEW from \in {"row", "bubble", "page"}, NEW x,
             Send(net, <<NewRequest(kind, from, x)>>), UNCHANGED <<loading, dropped>>
      PROVE  LoadingInv'
  <2> DEFINE r == NewRequest(kind, from, x)
  <2>1. r.mounted /\ r.from = from
    BY DEF NewRequest
  <2>2. r.mounted /\ r.from \notin Dialogs
    BY <2>1 DEF Dialogs
  <2> HIDE DEF r
  <2> QED
    BY <1>0, <1>4, <2>2, LoadingSent DEF r
<1>5. ASSUME NEW d \in Dialogs, ShowModal(d) \/ HandleCancel(d) PROVE LoadingInv'
  BY <1>2, <1>5 DEF ShowModal, HandleCancel
<1>6. ASSUME NEW x \in Items, ProxyClick(x) \/ ShowAddHost(x) PROVE LoadingInv'
  BY <1>2, <1>6 DEF ProxyClick, ShowAddHost
<1>7. ASSUME NEW x \in Items, DeleteRow(x) PROVE LoadingInv'
  <2>1. Send(net, <<NewRequest("remove", "row", x)>>) /\ UNCHANGED <<loading, dropped>>
    BY <1>7 DEF DeleteRow, dialogVars
  <2> QED
    BY <1>4, <2>1
<1>8. ASSUME NEW x \in Items, DeleteProxy(x) PROVE LoadingInv'
  <2>1. Send(net, <<NewRequest("remove", "bubble", x)>>) /\ UNCHANGED <<loading, dropped>>
    BY <1>8 DEF DeleteProxy, dialogVars
  <2> QED
    BY <1>4, <2>1
<1>9. CASE CloseBubble
  BY <1>2, <1>9 DEF CloseBubble
<1>10. ASSUME NEW m \in Methods, ShowSetRate(m) PROVE LoadingInv'
  <2>1. Send(net, <<NewRequest("methodInfo", "page", m)>>) /\ UNCHANGED <<loading, dropped>>
    BY <1>10 DEF ShowSetRate
  <2> QED
    BY <1>4, <2>1
<1>11. ASSUME NEW typ, NEW val, Edit(typ, val) PROVE LoadingInv'
  BY <1>2, <1>11 DEF Edit
<1> QED
  BY <1>1, <1>3, <1>5, <1>6, <1>7, <1>8, <1>9, <1>10, <1>11 DEF Admin

LEMMA LoadingServer == ConsoleInv /\ PageInv /\ LoadingInv /\ Server => LoadingInv'
<1> SUFFICES ASSUME ConsoleInv, PageInv, LoadingInv, Server PROVE LoadingInv'
  OBVIOUS
<1>1. ASSUME NEW i \in DOMAIN net,
             ServeList(i) \/ ServeMethodInfo(i) \/ ServeChange(i) \/ ServeLimiter(i)
      PROVE  LoadingInv'
  <2>1. Serves(i)
    BY <1>1, ListServed, MethodInfoServed, ChangeServed, LimiterServed DEF PageInv
  <2>2. UNCHANGED <<loading, dropped>>
    BY <2>1 DEF Serves, dialogVars
  <2>3. \A d \in Dialogs : Awaited(net', d) = Awaited(net, d)
    BY <2>1, AwaitedServed
  <2> QED
    BY <2>2, <2>3, LoadingKept
<1>2. ASSUME NEW x \in ItemsOf(page), Elsewhere(x) PROVE LoadingInv'
  BY <1>2, LoadingKept DEF Elsewhere, dialogVars
<1> QED
  BY <1>1, <1>2 DEF Server

LEMMA LoadingAnswers == ConsoleInv /\ PageInv /\ LoadingInv /\ Answers => LoadingInv'
<1> SUFFICES ASSUME ConsoleInv, PageInv, LoadingInv, Answers PROVE LoadingInv'
  OBVIOUS
<1>0. /\ page \in Pages /\ sent \in Nat /\ DOMAIN net \subseteq 1 .. sent
      /\ visible \in [Dialogs -> BOOLEAN] /\ loading \in [Dialogs -> BOOLEAN]
      /\ \A i \in DOMAIN net : net[i] \in Request /\ RequestShape(net[i], page)
  BY DEF ConsoleInv, ConsoleTypes, PageInv
\* A request that is nobody's, or no dialog's.
<1>1. ASSUME NEW i \in DOMAIN net, net' = Without(i), loading' = loading, dropped => dropped',
             net[i].mounted => net[i].from \notin Dialogs
      PROVE  LoadingInv'
  <2>1. \A d \in Dialogs : Awaited(net', d) = Awaited(net, d)
    BY <1>1, WithoutTakes, AwaitedTaken DEF Awaited
  <2> QED
    BY <1>1, <2>1, LoadingKept
\* The one answer a dialog waits for.
<1>2. ASSUME NEW i \in DOMAIN net, net[i].mounted, Closed(net[i].from), dropped => dropped',
             NEW n, DOMAIN n = DOMAIN net \ {i}, \A j \in DOMAIN n : n[j] = net[j],
             \A d \in Dialogs : Awaited(net', d) = Awaited(n, d)
      PROVE  LoadingInv'
  <2>1. ASSUME NEW d \in Dialogs PROVE ButtonOK(Awaited(net', d), d, loading'[d], dropped')
    <3>1. ButtonOK(Awaited(net, d), d, loading[d], dropped)
      BY DEF LoadingInv
    <3>2. Awaited(net', d) = Awaited(net, d) \ {i}
      BY <1>2 DEF Awaited
    <3>3. loading'[d] <=> (loading[d] /\ (d # net[i].from \/ d = "addHost"))
      BY <1>0, <1>2, ClosedType
    <3>4. CASE d = net[i].from
      <4>1. i \in Awaited(net, d)
        BY <1>2, <3>4 DEF Awaited
      <4>2. Awaited(net', d) = {}
        BY <3>1, <3>2, <4>1 DEF ButtonOK
      <4> QED
        BY <3>3, <3>4, <4>2 DEF ButtonOK
    <3>5. CASE d # net[i].from
      <4>1. Awaited(net', d) = Awaited(net, d)
        BY <3>2, <3>5 DEF Awaited
      <4> QED
        BY <1>2, <3>1, <3>3, <3>5, <4>1 DEF ButtonOK
    <3> QED
      BY <3>4, <3>5
  <2> QED
    BY <2>1 DEF LoadingInv
<1>3. ASSUME NEW i \in DOMAIN net, DeliverInfo(i) \/ DeliverList(i) \/ DeliverMethodInfo(i)
      PROVE  LoadingInv'
  <2>1. net' = Without(i) /\ UNCHANGED <<loading, dropped>> /\ net[i].kind \in {"info", "list", "methodInfo"}
    BY <1>3 DEF DeliverInfo, DeliverList, DeliverMethodInfo, Answered, dialogVars
  <2>2. net[i].from \notin Dialogs
    BY <1>0, <2>1 DEF RequestShape, Dialogs
  <2> QED
    BY <1>1, <2>1, <2>2
<1>4. ASSUME NEW i \in DOMAIN net, DeliverChange(i) PROVE LoadingInv'
  <2> DEFINE r == NewRequest("list", "page", None)
             n == Without(i)
  <2>1. /\ net[i].answered /\ Closed(net[i].from) /\ dropped' = dropped
        /\ Send(n, <<r>>) \/ net' = n
    BY <1>4 DEF DeliverChange, Answered
  <2>2. r.mounted /\ r.from = "page"
    BY DEF NewRequest
  <2>3. DOMAIN n = DOMAIN net \ {i} /\ \A j \in DOMAIN n : n[j] = net[j]
    BY DEF Without
  <2>4. net[i].mounted
    BY <1>0, <2>1 DEF RequestShape
  <2> HIDE DEF r, n
  <2>5. \A d \in Dialogs : Awaited(net', d) = Awaited(n, d)
    <3>1. ASSUME Send(n, <<r>>), NEW d \in Dialogs PROVE Awaited(net', d) = Awaited(n, d)
      <4>1. Awaited(net', d) = Awaited(n, d) \cup (IF r.from = d THEN {sent + 1} ELSE {})
        BY <1>0, <2>2, <2>3, <3>1, AwaitedSent
      <4>2. r.from # d
        BY <2>2 DEF Dialogs
      <4> QED
        BY <4>1, <4>2
    <3> QED
      BY <2>1, <3>1
  <2> QED
    BY <1>2, <2>1, <2>3, <2>4, <2>5
<1>5. ASSUME NEW i \in DOMAIN net, DeliverLimiter(i) PROVE LoadingInv'
  <2>1. /\ net[i].answered /\ net[i].kind = "limiter" /\ Closed("setRate") /\ dropped' = dropped
        /\ net' = Without(i)
    BY <1>5 DEF DeliverLimiter, Answered
  <2>2. net[i].mounted /\ net[i].from = "setRate"
    BY <1>0, <2>1 DEF RequestShape
  <2>3. DOMAIN net' = DOMAIN net \ {i} /\ \A j \in DOMAIN net' : net'[j] = net[j]
    BY <2>1 DEF Without
  <2> DEFINE n == net'
  <2>4. \A d \in Dialogs : Awaited(net', d) = Awaited(n, d)
    OBVIOUS
  <2> QED
    BY <1>2, <2>1, <2>2, <2>3, <2>4
<1>6. ASSUME NEW i \in DOMAIN net, Fail(i) PROVE LoadingInv'
  <2>0. /\ net' = Without(i) /\ dropped' = (dropped \/ (net[i].mounted /\ net[i].kind = "limiter"))
        /\ DOMAIN net' = DOMAIN net \ {i} /\ \A j \in DOMAIN net' : net'[j] = net[j]
    BY <1>6 DEF Fail, Without
  <2>1. CASE ~net[i].mounted \/ net[i].kind \in {"info", "list", "methodInfo"}
    <3>1. loading' = loading
      BY <1>6, <2>1 DEF Fail
    <3>2. net[i].mounted => net[i].from \notin Dialogs
      BY <1>0, <2>1 DEF RequestShape, Dialogs
    <3> QED
      BY <1>1, <2>0, <3>1, <3>2
  <2>2. CASE net[i].mounted /\ net[i].kind \in {"add", "remove", "addHost"}
    <3>1. Closed(net[i].from)
      BY <1>6, <2>2 DEF Fail
    <3> DEFINE n == net'
    <3>2. \A d \in Dialogs : Awaited(net', d) = Awaited(n, d)
      OBVIOUS
    <3> QED
      BY <1>2, <2>0, <2>2, <3>1, <3>2
  <2>3. CASE net[i].mounted /\ net[i].kind = "limiter"
    <3>1. loading' = loading /\ dropped' /\ net[i].from = "setRate"
      BY <1>0, <1>6, <2>0, <2>3 DEF Fail, RequestShape
    <3>2. ASSUME NEW d \in Dialogs PROVE ButtonOK(Awaited(net', d), d, loading'[d], dropped')
      <4>1. ButtonOK(Awaited(net, d), d, loading[d], dropped)
        BY DEF LoadingInv
      <4>2. Awaited(net', d) = Awaited(net, d) \ {i}
        BY <2>0, WithoutTakes, AwaitedTaken
      <4>3. d # "setRate" => Awaited(net', d) = Awaited(net, d)
        BY <3>1, <4>2 DEF Awaited
      <4> QED
        BY <3>1, <4>1, <4>2, <4>3 DEF ButtonOK
    <3> QED
      BY <3>2 DEF LoadingInv
  <2>4. net[i].kind \in {"info", "list", "methodInfo", "limiter", "add", "remove", "addHost"}
    BY <1>0 DEF Request, Posts
  <2> QED
    BY <2>1, <2>2, <2>3, <2>4
<1> QED
  BY <1>3, <1>4, <1>5, <1>6 DEF Answers

LEMMA LoadingNext == ConsoleInv /\ PageInv /\ LoadingInv /\ [Next]_vars => LoadingInv'
<1>1. UNCHANGED vars /\ LoadingInv => LoadingInv'
  BY DEF vars, dialogVars, LoadingInv, ButtonOK, Awaited
<1> QED
  BY <1>1, LoadingAdmin, LoadingServer, LoadingAnswers DEF Next

(***************************************************************************)
(* confirmLoading: a button that is busy waits for one answer that is      *)
(* still to come (but for AddHostModal, which never resets it, and         *)
(* SetRateModal after a lost connection), however often its dialog is      *)
(* cancelled and opened again before that answer, and whatever other       *)
(* answers arrive meanwhile.                                               *)
(***************************************************************************)
THEOREM BusyButtonsAwaitOneAnswer == Spec => []LoadingAwaitsOneAnswer
<1>1. ASSUME LoadingInv PROVE LoadingAwaitsOneAnswer
  <2>1. ASSUME NEW d \in Dialogs
        PROVE  LET mine == Awaited(net, d)
               IN  /\ Cardinality(mine) <= 1
                   /\ mine # {} => loading[d]
                   /\ loading[d] => mine # {} \/ d = "addHost" \/ (d = "setRate" /\ dropped)
    <3> DEFINE mine == Awaited(net, d)
    <3>1. ButtonOK(mine, d, loading[d], dropped)
      BY <1>1 DEF LoadingInv
    <3> HIDE DEF mine
    <3>2. mine = {} \/ \E i : mine = {i}
      <4>1. ASSUME NEW i \in mine PROVE mine = {i}
        BY <3>1 DEF ButtonOK
      <4> QED
        BY <4>1
    <3>3. Cardinality(mine) <= 1
      <4>1. mine = {} => Cardinality(mine) = 0
        BY FS_EmptySet
      <4>2. ASSUME NEW i, mine = {i} PROVE Cardinality(mine) = 1
        BY <4>2, FS_Singleton
      <4> QED
        BY <3>2, <4>1, <4>2
    <3>4. /\ mine # {} => loading[d]
          /\ loading[d] => mine # {} \/ d = "addHost" \/ (d = "setRate" /\ dropped)
      BY <3>1 DEF ButtonOK
    <3> QED
      BY <3>3, <3>4 DEF mine
  <2> QED
    BY <2>1 DEF LoadingAwaitsOneAnswer, Awaited
<1> QED
  BY <1>1, ConsoleInit, ConsoleNext, PageInit, PageNext, LoadingInit, LoadingNext, PTL DEF Spec

-----------------------------------------------------------------------------
(***************************************************************************)
(* The list.  The page's list is the server's if it comes from the latest  *)
(* refresh, unless the list has changed silently, or there is an answer on *)
(* its way that will refresh it.                                           *)
(***************************************************************************)
Changing(n) == \E i \in DOMAIN n : n[i].kind \in {"add", "remove"} /\ n[i].answered /\ n[i].ok

RefreshInv ==
    /\ current \notin DOMAIN net
    /\ last \in DOMAIN net => net[last].kind = "list"
    /\ ~silent /\ ~Changing(net) =>
         /\ current = last => shown = server
         /\ last \in DOMAIN net /\ net[last].answered => net[last].list = server

\* Steps that leave both lists and the latest refresh alone.
LEMMA RefreshKept ==
    ASSUME RefreshInv, UNCHANGED <<shown, server, last, current>>, silent => silent',
           current \notin DOMAIN net',
           last \in DOMAIN net' => last \in DOMAIN net /\ net'[last] = net[last],
           Changing(net) => Changing(net') \/ silent'
    PROVE  RefreshInv'
  BY DEF RefreshInv

\* A request that is sent.
LEMMA RefreshSent ==
    ASSUME ConsoleInv, PageInv, RefreshInv, NEW r, ~r.answered, Send(net, <<r>>),
           UNCHANGED <<shown, server, last, current, silent>>
    PROVE  RefreshInv'
<1>0. sent \in Nat /\ DOMAIN net \subseteq 1 .. sent /\ last \in 0 .. sent /\ current \in 0 .. sent
  BY DEF ConsoleInv, ConsoleTypes, PageInv
<1>1. /\ sent' = sent + 1 /\ DOMAIN net' = DOMAIN net \cup {sent'} /\ net'[sent'] = r
      /\ \A i \in DOMAIN net : net'[i] = net[i]
  BY <1>0, SendOne
<1>2. last # sent' /\ current # sent'
  BY <1>0, <1>1
<1>3. Changing(net) => Changing(net')
  BY <1>1 DEF Changing
<1> QED
  BY <1>1, <1>2, <1>3, RefreshKept DEF RefreshInv

\* A request that is processed and is not the latest refresh.
LEMMA RefreshServed ==
    ASSUME RefreshInv, NEW i \in DOMAIN net, Serves(i), silent => silent'
    PROVE  /\ UNCHANGED <<shown, last, current>>
           /\ current \notin DOMAIN net'
           /\ i # last => (last \in DOMAIN net' => last \in DOMAIN net /\ net'[last] = net[last])
           /\ Changing(net) => Changing(net')
<1>1. UNCHANGED <<shown, last, current>> /\ ~net[i].answered
  BY DEF Serves, pageVars
<1>2. CASE ~net[i].mounted
  <2>1. Takes(i)
    BY <1>2, WithoutTakes DEF Serves
  <2> QED
    BY <1>1, <2>1 DEF Takes, RefreshInv, Changing
<1>3. CASE net[i].mounted /\ OnlyAnswers(i)
  BY <1>1, <1>3 DEF OnlyAnswers, RefreshInv, Changing
<1> QED
  BY <1>2, <1>3 DEF Serves

\* An answer that does not concern the list.
LEMMA RefreshTaken ==
    ASSUME RefreshInv, NEW i \in DOMAIN net, net' = Without(i),
           UNCHANGED <<shown, server, last, current>>, silent => silent',
           net[i].kind \in {"add", "remove"} /\ net[i].answered /\ net[i].ok => silent'
    PROVE  RefreshInv'
<1>1. Takes(i)
  BY WithoutTakes
<1>2. Changing(net) => Changing(net') \/ silent'
  BY <1>1 DEF Takes, Changing
<1> QED
  BY <1>1, <1>2, RefreshKept DEF Takes, RefreshInv

LEMMA RefreshInit == Init => RefreshInv
<1> SUFFICES ASSUME Init PROVE RefreshInv
  OBVIOUS
<1>1. /\ page \in Pages /\ net = MountRequests(page) /\ sent = Len(net) /\ last = sent /\ current = 0
  BY DEF Init
<1>2. /\ net \in Seq(Request) /\ sent \in Nat \ {0} /\ net[sent].kind = "list"
      /\ \A k \in 1 .. sent : ~net[k].answered
  BY <1>1, MountRequestsFresh DEF Fresh
<1>3. DOMAIN net = 1 .. sent
  BY <1>1, <1>2
<1> QED
  BY <1>1, <1>2, <1>3 DEF RefreshInv

LEMMA RefreshAdmin == ConsoleInv /\ PageInv /\ RefreshInv /\ Admin => RefreshInv'
<1> SUFFICES ASSUME ConsoleInv, PageInv, RefreshInv, Admin PROVE RefreshInv'
  OBVIOUS
<1>0. page \in Pages /\ sent \in Nat /\ DOMAIN net \subseteq 1 .. sent
  BY DEF ConsoleInv, ConsoleTypes
<1>1. ASSUME NEW p \in Pages, Navigate(p) PROVE RefreshInv'
  <2> DEFINE posted == {i \in DOMAIN net : net[i].kind \in Posts /\ ~net[i].answered}
             n == [i \in posted |-> [net[i] EXCEPT !.mounted = FALSE]]
             rs == MountRequests(p)
  <2>1. /\ DOMAIN n \subseteq 1 .. sent /\ Send(n, rs)
        /\ last' = sent' /\ current' = 0
    BY <1>0, <1>1 DEF Navigate, Mounted
  <2>2. /\ rs \in Seq(Request) /\ Len(rs) \in Nat \ {0} /\ rs[Len(rs)].kind = "list"
        /\ \A k \in 1 .. Len(rs) : ~rs[k].answered
    BY <1>0, MountRequestsFresh DEF Fresh
  <2>3. ASSUME NEW i \in DOMAIN n PROVE ~n[i].answered
    <3>1. net[i] \in Request /\ ~net[i].answered /\ n[i] = [net[i] EXCEPT !.mounted = FALSE]
      BY DEF ConsoleInv, ConsoleTypes
    <3> HIDE DEF n
    <3> QED
      BY <3>1 DEF Request
  <2> HIDE DEF n, rs
  <2>4. /\ DOMAIN net' \subseteq 1 .. sent'
        /\ \A i \in DOMAIN net' : \/ i \in DOMAIN n /\ net'[i] = n[i]
                                  \/ \E k \in 1 .. Len(rs) : net'[i] = rs[k]
    BY <1>0, <2>1, <2>2, SendAll
  <2>5. \A i \in DOMAIN net' : ~net'[i].answered
    BY <2>2, <2>3, <2>4
  <2>6. sent' = sent + Len(rs) /\ net'[sent'] = rs[Len(rs)]
    BY <1>0, <2>1, <2>2 DEF Send
  <2>7. current' \notin DOMAIN net' /\ current' # last'
    BY <1>0, <2>1, <2>2, <2>4, <2>6
  <2> QED
    BY <2>1, <2>2, <2>5, <2>6, <2>7 DEF RefreshInv
<1>2. ASSUME UNCHANGED <<net, pageVars, serverVars>> PROVE RefreshInv'
  BY <1>2 DEF RefreshInv, Changing, pageVars, serverVars
<1>3. ASSUME NEW r, ~r.answered, Send(net, <<r>>), UNCHANGED <<pageVars, serverVars>>
      PROVE  RefreshInv'
  BY <1>3, RefreshSent DEF pageVars, serverVars
<1>4. ASSUME NEW d \in Dialogs, NEW x \in Items, HandleOk(d, x) PROVE RefreshInv'
  <2>1. ~Submission(d, x).answered
    BY <1>4, SubmissionFresh DEF HandleOk, PageInv, Fresh
  <2> QED
    BY <1>3, <1>4, <2>1 DEF HandleOk
<1>5. \A kind, from, x : ~NewRequest(kind, from, x).answered
  BY DEF NewRequest
<1>6. ASSUME NEW d \in Dialogs, ShowModal(d) \/ HandleCancel(d) PROVE RefreshInv'
  BY <1>2, <1>6 DEF ShowModal, HandleCancel
<1>7. ASSUME NEW x \in Items, ProxyClick(x) \/ ShowAddHost(x) PROVE RefreshInv'
  BY <1>2, <1>7 DEF ProxyClick, ShowAddHost
<1>8. ASSUME NEW x \in Items, DeleteRow(x) PROVE RefreshInv'
  BY <1>3, <1>5, <1>8 DEF DeleteRow
<1>9. ASSUME NEW x \in Items, DeleteProxy(x) PROVE RefreshInv'
  BY <1>3, <1>5, <1>9 DEF DeleteProxy
<1>10. CASE CloseBubble
  BY <1>2, <1>10 DEF CloseBubble
<1>11. ASSUME NEW m \in Methods, ShowSetRate(m) PROVE RefreshInv'
  BY <1>3, <1>5, <1>11 DEF ShowSetRate
<1>12. ASSUME NEW typ, NEW val, Edit(typ, val) PROVE RefreshInv'
  BY <1>2, <1>12 DEF Edit
<1> QED
  BY <1>1, <1>4, <1>6, <1>7, <1>8, <1>9, <1>10, <1>11, <1>12 DEF Admin

LEMMA RefreshServer == ConsoleInv /\ PageInv /\ RefreshInv /\ Server => RefreshInv'
<1> SUFFICES ASSUME ConsoleInv, PageInv, RefreshInv, Server PROVE RefreshInv'
  OBVIOUS
<1>0. silent \in BOOLEAN /\ \A i \in DOMAIN net : net[i].kind = "list" => net[i].mounted
  BY DEF PageInv, RequestShape
<1>1. ASSUME NEW i \in DOMAIN net, ServeList(i) PROVE RefreshInv'
  <2>1. /\ Serves(i) /\ server' = server /\ silent' = (silent /\ i # last)
        /\ net[i].mounted => net'[i].list = server
    BY <1>1, ListServed
  <2>2. CASE i # last
    BY <2>1, <2>2, RefreshServed, RefreshKept
  <2>3. CASE i = last
    <3>1. net[i].kind = "list" /\ net[i].mounted
      BY <1>0, <2>3 DEF RefreshInv
    <3>2. /\ OnlyAnswers(i) /\ UNCHANGED <<shown, last, current>>
          /\ net'[i].list = server
      BY <2>1, <3>1 DEF Serves, pageVars
    <3>3. DOMAIN net' = DOMAIN net /\ net'[last].kind = "list" /\ current # last
      BY <2>3, <3>1, <3>2 DEF OnlyAnswers, RefreshInv
    <3> QED
      BY <2>1, <2>3, <3>2, <3>3 DEF RefreshInv
  <2> QED
    BY <2>2, <2>3
<1>2. ASSUME NEW i \in DOMAIN net, ServeMethodInfo(i) \/ ServeLimiter(i) PROVE RefreshInv'
  <2>1. Serves(i) /\ net[i].kind \in {"methodInfo", "limiter"} /\ UNCHANGED <<server, silent>>
    BY <1>2, MethodInfoServed, LimiterServed
  <2>2. i # last
    BY <2>1 DEF RefreshInv
  <2> QED
    BY <2>1, <2>2, RefreshServed, RefreshKept
<1>3. ASSUME NEW i \in DOMAIN net, ServeChange(i) PROVE RefreshInv'
  <2>1. /\ Serves(i) /\ net[i].kind \in {"add", "remove", "addHost"} /\ (silent => silent')
        /\ \/ server' = server
           \/ silent'
           \/ net[i].kind \in {"add", "remove"} /\ net[i].mounted /\ net'[i].ok
    BY <1>0, <1>3, ChangeServed
  <2>2. i # last
    BY <2>1 DEF RefreshInv
  <2>3. /\ UNCHANGED <<shown, last, current>> /\ current \notin DOMAIN net'
        /\ last \in DOMAIN net' => last \in DOMAIN net /\ net'[last] = net[last]
        /\ Changing(net) => Changing(net')
    BY <2>1, <2>2, RefreshServed
  <2>4. CASE server' = server
    BY <2>1, <2>3, <2>4, RefreshKept
  <2>5. CASE silent'
    BY <2>3, <2>5 DEF RefreshInv
  <2>6. CASE net[i].kind \in {"add", "remove"} /\ net[i].mounted /\ net'[i].ok
    <3>1. Changing(net')
      BY <2>1, <2>6 DEF Serves, OnlyAnswers, Changing
    <3> QED
      BY <2>3, <3>1 DEF RefreshInv
  <2> QED
    BY <2>1, <2>4, <2>5, <2>6
<1>4. ASSUME NEW x \in ItemsOf(page), Elsewhere(x) PROVE RefreshInv'
  BY <1>4 DEF Elsewhere, RefreshInv, pageVars
<1> QED
  BY <1>1, <1>2, <1>3, <1>4 DEF Server

LEMMA RefreshAnswers == ConsoleInv /\ PageInv /\ RefreshInv /\ Answers => RefreshInv'
<1> SUFFICES ASSUME ConsoleInv, PageInv, RefreshInv, Answers PROVE RefreshInv'
  OBVIOUS
<1>0. sent \in Nat /\ DOMAIN net \subseteq 1 .. sent /\ current \in 0 .. sent /\ silent \in BOOLEAN
  BY DEF ConsoleInv, ConsoleTypes, PageInv
<1>1. ASSUME NEW i \in DOMAIN net, DeliverInfo(i) \/ DeliverMethodInfo(i) \/ DeliverLimiter(i)
      PROVE  RefreshInv'
  <2>1. /\ net' = Without(i) /\ net[i].kind \in {"info", "methodInfo", "limiter"}
        /\ UNCHANGED <<shown, server, last, current, silent>>
    BY <1>1 DEF DeliverInfo, DeliverMethodInfo, DeliverLimiter, Answered, pageVars, serverVars
  <2> QED
    BY <2>1, RefreshTaken
\* The answer of the latest refresh is shown; an older one is not the latest.
<1>2. ASSUME NEW i \in DOMAIN net, DeliverList(i) PROVE RefreshInv'
  <2>1. /\ net' = Without(i) /\ net[i].kind = "list" /\ net[i].answered
        /\ shown' = net[i].list /\ current' = i /\ UNCHANGED <<server, last, silent>>
    BY <1>2 DEF DeliverList, Answered, serverVars
  <2>2. Takes(i)
    BY <2>1, WithoutTakes
  <2>3. Changing(net) => Changing(net')
    BY <2>1, <2>2 DEF Takes, Changing
  <2>4. i \notin DOMAIN net' /\ \A j \in DOMAIN net' : j \in DOMAIN net /\ net'[j] = net[j]
    BY <2>2 DEF Takes
  <2> QED
    BY <2>1, <2>3, <2>4 DEF RefreshInv
<1>3. ASSUME NEW i \in DOMAIN net, DeliverChange(i) PROVE RefreshInv'
  <2> DEFINE r == NewRequest("list", "page", None)
             n == Without(i)
  <2>1. /\ UNCHANGED <<shown, server, current, silent>> /\ net[i].kind \in {"add", "remove", "addHost"}
        /\ \/ Send(n, <<r>>) /\ last' = sent'
           \/ net' = n /\ last' = last /\ ~net[i].ok
    BY <1>3 DEF DeliverChange, Answered, Refreshes, serverVars
  <2>2. CASE Send(n, <<r>>) /\ last' = sent'
    <3>1. r.kind = "list" /\ ~r.answered
      BY DEF NewRequest
    <3>2. DOMAIN n \subseteq 1 .. sent /\ DOMAIN n \subseteq DOMAIN net
      BY <1>0 DEF Without
    <3> HIDE DEF r, n
    <3>3. sent' = sent + 1 /\ DOMAIN net' = DOMAIN n \cup {sent'} /\ net'[sent'] = r
      BY <1>0, <2>2, <3>2, SendOne
    <3>4. current' # last' /\ current' \notin DOMAIN net'
      BY <1>0, <2>1, <2>2, <3>2, <3>3 DEF RefreshInv
    <3> QED
      BY <2>2, <3>1, <3>3, <3>4 DEF RefreshInv
  <2>3. CASE net' = n /\ last' = last /\ ~net[i].ok
    BY <2>1, <2>3, RefreshTaken
  <2> QED
    BY <2>1, <2>2, <2>3
<1>4. ASSUME NEW i \in DOMAIN net, Fail(i) PROVE RefreshInv'
  <2>1. /\ net' = Without(i) /\ UNCHANGED <<shown, server, last, current>>
        /\ silent' = (silent \/ (net[i].kind \in {"add", "remove"} /\ net[i].answered))
    BY <1>4 DEF Fail, pageVars
  <2> QED
    BY <2>1, RefreshTaken
<1> QED
  BY <1>1, <1>2, <1>3, <1>4 DEF Answers

LEMMA RefreshNext == ConsoleInv /\ PageInv /\ RefreshInv /\ [Next]_vars => RefreshInv'
<1>1. UNCHANGED vars /\ RefreshInv => RefreshInv'
  BY DEF vars, pageVars, serverVars, RefreshInv, Changing
<1> QED
  BY <1>1, RefreshAdmin, RefreshServer, RefreshAnswers DEF Next

(***************************************************************************)
(* The refreshes after add and remove (getProxyInfo, getAclList): whatever *)
(* double clicks, late and lost answers and other pages' requests          *)
(* interleave, a page that awaits no answer and shows its latest refresh   *)
(* shows the server's list, unless that has changed behind its back.       *)
(***************************************************************************)
THEOREM PageShowsServer == Spec => []ShowsServer
<1>1. ASSUME PageInv, RefreshInv PROVE ShowsServer
  <2>1. SUFFICES ASSUME \A i \in DOMAIN net : net[i].mounted => net[i].kind \in {"info", "methodInfo", "limiter"},
                        current = last, ~silent
                 PROVE  shown = server
    BY DEF ShowsServer
  <2>2. ~Changing(net)
    BY <1>1, <2>1 DEF Changing, PageInv, RequestShape
  <2> QED
    BY <1>1, <2>1, <2>2 DEF RefreshInv
<1> QED
  BY <1>1, ConsoleInit, ConsoleNext, PageInit, PageNext, RefreshInit, RefreshNext, PTL DEF Spec
=============================================================================
