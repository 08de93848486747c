----------------------------- MODULE CallsProofs -----------------------------
(***************************************************************************)
(* Calls are right for any number of members, calls, clicks and failures:  *)
(* a recording is posted once at most, and what the pages show at rest of  *)
(* the channel's call is what the rows say.                                *)
(*                                                                         *)
(* A recording is a thing that is handed on: a click holds it until its    *)
(* recorder runs, then a page, then the request that posts it; at most one *)
(* of them holds it at a time.  What a page shows at rest is decided by    *)
(* the last event in its mail that matters, so the invariant speaks of     *)
(* that event, and of the handler that is still to send a later one.       *)
(***************************************************************************)
EXTENDS Calls, TLAPS

---------------------------------------------------------------------------
(* The invariant, part by part.                                            *)

Has(plan, step) == \E i \in DOMAIN plan : plan[i] = step

(* The steps that come first in a plan or not at all. *)
First == {"find", "create", "tellStart", "decline", "grant", "upload", "recWrite", "leaveEnd"}

PlanHolds(plan) ==
  /\ plan \in Seq(Steps)
  /\ \A i \in DOMAIN plan : i # 1 => plan[i] \notin First
  /\ \A i \in DOMAIN plan : plan[i] = "record" => i = Len(plan)
  /\ Has(plan, "upload") => ~Has(plan, "record")
  /\ plan # <<>> /\ Head(plan) \in {"find", "create"} => Len(plan) = 1
  /\ plan # <<>> /\ Head(plan) = "leaveEnd" => Len(plan) > 1 /\ plan[2] = "tellEnd"

(* What a flow knows: its user, its call, and the recording it is about.   *)
FlowHolds(n) ==
  /\ PlanHolds(n.plan)
  /\ n.plan # <<>> => n.user \in User
  /\ n.plan # <<>> /\ Head(n.plan) \notin {"find", "create"} => n.call \in Call
  /\ \A s \in {"tellStart", "ring", "answer"} : Has(n.plan, s) =>
       n.call \in Call /\ call[n.call].state # "none"
  /\ \A s \in {"record", "upload"} : Has(n.plan, s) => n.ref \in Take
FlowsHold == \A f \in Flow : FlowHolds(flow[f])

(* Who has a recording: a page whose recorder runs, or a flow that is to   *)
(* start the recorder or to post what it captured.                         *)
Holder == ({"page"} \X User) \cup ({"flow"} \X Flow)
Holds(x, t) ==
  \/ x[1] = "page" /\ page[x[2]].take = t
  \/ /\ x[1] = "flow" /\ flow[x[2]].ref = t
     /\ Has(flow[x[2]].plan, "upload") \/ Has(flow[x[2]].plan, "record")
CarriedOnce ==
  \A t \in Take :
    /\ \A x, y \in Holder : Holds(x, t) /\ Holds(y, t) => x = y
    /\ uploads[t] = 0 \/ (uploads[t] = 1 /\ \A x \in Holder : ~Holds(x, t))
    /\ t > clicks => uploads[t] = 0 /\ \A x \in Holder : ~Holds(x, t)

OneActive == \A c, d \in Active : c = d

(* The banner that a page shows when its mail is read and its fetch is     *)
(* answered: the last announcement's, or the one it shows now, which an    *)
(* answer that nothing overtook agrees with.                               *)
Announced(m) == IF m.ev = "started" THEN m.call ELSE None
Shows(u, b) ==
  /\ u \in misled \/ page[u].banner = b
  /\ look[u].asked /\ ~look[u].passed => look[u].answer = b
WillShow(u, b) ==
  \/ Shows(u, b) /\ \A i \in DOMAIN mail[u] : ~Announces(mail[u][i])
  \/ \E i \in DOMAIN mail[u] :
       /\ Announces(mail[u][i]) /\ Announced(mail[u][i]) = b
       /\ \A j \in DOMAIN mail[u] : j > i => ~Announces(mail[u][j])

(* It is the active call's, unless a handler is still to announce it. *)
BannersComeRight ==
  /\ \A c \in Active : \/ \A u \in User : WillShow(u, c)
                       \/ \E f \in Flow : At(f, "tellStart") /\ flow[f].call = c
  /\ Active = {} => \/ \A u \in User : WillShow(u, None)
                    \/ \E f \in Flow : At(f, "tellEnd")

(* A ring that is prompted or on its way is for a call that goes on        *)
(* unanswered, or something later in the mail ends it, or a handler is     *)
(* still to send that; or it is one whose end went before or was lost.     *)
Silences(m, c) == m.ev = "ended" \/ (m.ev = "stop" /\ m.call = c)
Ringing(c) == c \in Active \ answered \/ \E f \in Flow : At(f, "tellEnd")
RingsComeRight ==
  \A u \in User : \A c \in Call :
    \/ <<u, c>> \in stray
    \/ /\ page[u].ring = c => Ringing(c) \/ \E j \in DOMAIN mail[u] : Silences(mail[u][j], c)
       /\ \A i \in DOMAIN mail[u] : mail[u][i].ev = "ring" /\ mail[u][i].call = c =>
            Ringing(c) \/ \E j \in DOMAIN mail[u] : j > i /\ Silences(mail[u][j], c)

CallsIndInv ==
  /\ CallsTypeOK /\ FlowsHold /\ CarriedOnce
  /\ ~muddled => OneActive /\ BannersComeRight /\ RingsComeRight

(* A page whose socket loses its mail, or whose banner is fetched.         *)
Looks(u) == LoseMail(u) \/ ReadActive(u) \/ TakeActive(u)

---------------------------------------------------------------------------
(* What becomes of a plan.                                                 *)

(* Steps put in the place of the first. *)
LEMMA Replaced ==
  ASSUME NEW p \in Seq(Steps), p # <<>>, NEW s \in Seq(Steps), NEW q, q = s \o Tail(p)
  PROVE  /\ q \in Seq(Steps) /\ Len(q) = Len(s) + (Len(p) - 1)
         /\ \A i \in DOMAIN q : IF i <= Len(s) THEN q[i] = s[i]
                                ELSE /\ (i - Len(s)) + 1 \in DOMAIN p /\ (i - Len(s)) + 1 # 1
                                     /\ q[i] = p[(i - Len(s)) + 1]
         /\ Len(p) \in Nat \ {0} /\ DOMAIN p = 1 .. Len(p) /\ DOMAIN q = 1 .. Len(q)
         /\ Len(s) \in Nat
OBVIOUS

(* What is left of a plan is its later steps. *)
LEMMA Remaining ==
  ASSUME NEW p, PlanHolds(p), p # <<>>, NEW q, q = <<>> \o Tail(p)
  PROVE  /\ PlanHolds(q) /\ \A s : Has(q, s) => Has(p, s) /\ s \notin First
         /\ Head(p) \in {"record", "find", "create"} => q = <<>>
         /\ q # <<>> => Head(q) \notin First
         /\ Head(p) = "leaveEnd" => q # <<>> /\ Head(q) = "tellEnd"
<1>1. p \in Seq(Steps) /\ <<>> \in Seq(Steps) /\ Len(<<>>) = 0
  BY DEF PlanHolds
<1>2. /\ q \in Seq(Steps) /\ Len(q) = Len(p) - 1 /\ Len(p) \in Nat \ {0}
      /\ DOMAIN p = 1 .. Len(p) /\ DOMAIN q = 1 .. Len(q)
      /\ \A i \in DOMAIN q : i + 1 \in DOMAIN p /\ i + 1 # 1 /\ q[i] = p[i + 1]
  <2>1. q = Tail(p)
    BY <1>1
  <2>2. QED BY <1>1, <2>1
<1>3. \A s : Has(q, s) => Has(p, s) /\ s \notin First
  BY <1>2 DEF Has, PlanHolds
<1>4. Head(p) = p[1] /\ (q # <<>> => Head(q) = q[1] /\ 1 \in DOMAIN q)
  BY <1>1, <1>2
<1>5. Head(p) \in {"record", "find", "create"} => q = <<>>
  <2>1. Head(p) \in {"record", "find", "create"} => Len(q) = 0
    BY <1>2, <1>4 DEF PlanHolds
  <2>2. QED BY <1>2, <2>1
<1>6. Head(p) = "leaveEnd" => q # <<>> /\ Head(q) = "tellEnd"
  BY <1>2, <1>4 DEF PlanHolds
<1>7. q # <<>> => Head(q) \notin First
  BY <1>2, <1>4 DEF PlanHolds
<1>8. PlanHolds(q)
  <2>1. \A i \in DOMAIN q : q[i] \notin First
    BY <1>2 DEF PlanHolds
  <2>2. \A i \in DOMAIN q : q[i] = "record" => i = Len(q)
    BY <1>2 DEF PlanHolds
  <2>3. ~Has(q, "upload")
    BY <1>3 DEF First
  <2>4. q # <<>> => Head(q) \notin {"leaveEnd", "find", "create"}
    BY <1>7 DEF First
  <2>5. QED BY <1>2, <2>1, <2>2, <2>3, <2>4 DEF PlanHolds
<1>9. QED BY <1>3, <1>5, <1>6, <1>7, <1>8

(* The steps that a request goes on with. *)
Insertions == {<<"create">>, <<"answer">>, <<"tellStart", "ring", "answer">>,
               <<"recWrite", "recTell">>, <<"leaveEnd", "tellEnd">>}

(* They come before the rest of the plan. *)
LEMMA Inserted ==
  ASSUME NEW p, PlanHolds(p), p # <<>>, NEW q, NEW s \in Insertions,
         q = s \o Tail(p), s = <<"create">> => Head(p) = "find"
  PROVE  /\ PlanHolds(q) /\ q # <<>> /\ Head(q) = s[1]
         /\ \A t : Has(q, t) => Has(s, t) \/ (Has(p, t) /\ t \notin First)
<1>1. /\ s \in Seq(Steps) /\ Len(s) \in Nat \ {0} /\ DOMAIN s = 1 .. Len(s)
      /\ \A i \in DOMAIN s : (i # 1 => s[i] \notin First) /\ s[i] # "record" /\ s[i] # "upload"
      /\ s[1] = "leaveEnd" => Len(s) > 1 /\ s[2] = "tellEnd"
  <2>1. CASE s = <<"create">>
    BY <2>1 DEF Steps, First
  <2>2. CASE s = <<"answer">>
    BY <2>2 DEF Steps, First
  <2>3. CASE s = <<"tellStart", "ring", "answer">>
    BY <2>3 DEF Steps, First
  <2>4. CASE s = <<"recWrite", "recTell">>
    BY <2>4 DEF Steps, First
  <2>5. CASE s = <<"leaveEnd", "tellEnd">>
    BY <2>5 DEF Steps, First
  <2>6. QED BY <2>1, <2>2, <2>3, <2>4, <2>5 DEF Insertions
<1>2. p \in Seq(Steps)
  BY DEF PlanHolds
<1> DEFINE j(i) == (i - Len(s)) + 1
<1>3. /\ q \in Seq(Steps) /\ Len(q) = Len(s) + (Len(p) - 1)
      /\ \A i \in DOMAIN q : IF i <= Len(s) THEN q[i] = s[i]
                             ELSE j(i) \in DOMAIN p /\ j(i) # 1 /\ q[i] = p[j(i)]
      /\ Len(p) \in Nat \ {0} /\ DOMAIN p = 1 .. Len(p) /\ DOMAIN q = 1 .. Len(q)
  BY <1>1, <1>2, Replaced
<1>4. q # <<>> /\ Head(q) = q[1] /\ q[1] = s[1] /\ (Len(s) > 1 => Len(q) > 1 /\ q[2] = s[2])
  BY <1>1, <1>3
<1>c. Head(q) \in {"find", "create"} => Len(q) = 1
  <2>1. Head(q) \in {"find", "create"} => s = <<"create">>
    BY <1>4 DEF Insertions
  <2>2. s = <<"create">> => Len(s) = 1 /\ Len(p) = 1
    BY DEF PlanHolds
  <2>3. Len(s) = 1 /\ Len(p) = 1 => Len(q) = 1
    BY <1>3
  <2>4. QED BY <2>1, <2>2, <2>3, Zenon
<1>5. ASSUME NEW i \in DOMAIN q
      PROVE  \/ i \in DOMAIN s /\ q[i] = s[i]
             \/ /\ j(i) \in DOMAIN p /\ j(i) # 1 /\ q[i] = p[j(i)] /\ q[i] \notin First
                /\ (q[i] = "record" => i = Len(q))
  <2>1. CASE i <= Len(s)
    BY <1>1, <1>3, <1>5, <2>1
  <2>2. CASE ~(i <= Len(s))
    <3>1. j(i) \in DOMAIN p /\ j(i) # 1 /\ q[i] = p[j(i)]
      BY <1>3, <1>5, <2>2
    <3>2. q[i] \notin First /\ (q[i] = "record" => j(i) = Len(p))
      BY <3>1 DEF PlanHolds
    <3>3. j(i) = Len(p) => i = Len(q)
      <4>1. i \in 1 .. Len(q) /\ Len(q) = Len(s) + (Len(p) - 1) /\ Len(p) \in Nat /\ Len(s) \in Nat
        BY <1>1, <1>3, <1>5
      <4>2. QED BY <4>1
    <3>4. QED BY <3>1, <3>2, <3>3
  <2>3. QED BY <2>1, <2>2
<1> HIDE DEF j
<1>6. \A t : Has(q, t) => Has(s, t) \/ (Has(p, t) /\ t \notin First)
  BY <1>5 DEF Has
<1>7. PlanHolds(q)
  <2>1. \A i \in DOMAIN q : i # 1 => q[i] \notin First
    BY <1>1, <1>5
  <2>2. \A i \in DOMAIN q : q[i] = "record" => i = Len(q)
    BY <1>1, <1>5
  <2>3. ~Has(q, "upload")
    BY <1>1, <1>5 DEF Has, First
  <2>4. QED BY <1>1, <1>3, <1>4, <1>c, <2>1, <2>2, <2>3 DEF PlanHolds
<1>8. QED BY <1>4, <1>6, <1>7

(* A flow whose plan was changed is a flow. *)
LEMMA FlowTypes ==
  ASSUME NEW r \in FlowRecord, NEW q \in Seq(Steps), NEW c \in Call, NEW b \in BOOLEAN
  PROVE  /\ [r EXCEPT !.plan = q] \in FlowRecord
         /\ [[r EXCEPT !.plan = q] EXCEPT !.call = c, !.flag = b] \in FlowRecord
         /\ [[r EXCEPT !.plan = q] EXCEPT !.call = c] \in FlowRecord
         /\ Idle \in FlowRecord /\ Idle.plan = <<>>
<1>1. Idle \in FlowRecord /\ Idle.plan = <<>>
  BY DEF FlowRecord, Idle
<1>2. QED BY <1>1 DEF FlowRecord

(* The flow after its step, or after a failure of its step: a later part   *)
(* of its plan is left.                                                    *)
LEMMA GoesOn ==
  ASSUME CallsTypeOK, FlowsHold, NEW f \in Flow, flow[f].plan # <<>>,
         NEW n \in {Instead(f, <<>>), AfterFailure(f)}
  PROVE  /\ n \in FlowRecord /\ PlanHolds(n.plan)
         /\ n.plan # <<>> => /\ n.user = flow[f].user /\ n.call = flow[f].call
                             /\ n.ref = flow[f].ref /\ n.toggle = flow[f].toggle
                             /\ Head(n.plan) \notin First
         /\ \A s : Has(n.plan, s) => Has(flow[f].plan, s) /\ s \notin First
         /\ Head(flow[f].plan) \in {"record", "find", "create"} => n.plan = <<>>
         /\ Head(flow[f].plan) = "leaveEnd" /\ n = Instead(f, <<>>) =>
              n.plan # <<>> /\ Head(n.plan) = "tellEnd"
<1> DEFINE p == flow[f].plan
<1>p. PICK q : q = <<>> \o Tail(p)
  OBVIOUS
<1>1. PlanHolds(p) /\ p # <<>> /\ flow[f] \in FlowRecord
  BY DEF FlowsHold, FlowHolds, CallsTypeOK
<1>2. /\ PlanHolds(q) /\ \A s : Has(q, s) => Has(p, s) /\ s \notin First
      /\ Head(p) \in {"record", "find", "create"} => q = <<>>
      /\ q # <<>> => Head(q) \notin First
      /\ Head(p) = "leaveEnd" => q # <<>> /\ Head(q) = "tellEnd"
  BY <1>1, <1>p, Remaining
<1>3. Idle \in FlowRecord /\ Idle.plan = <<>> /\ PlanHolds(<<>>) /\ \A s : ~Has(<<>>, s)
  BY DEF Idle, FlowRecord, PlanHolds, Has
<1>4. CASE n = Instead(f, <<>>)
  <2>1. n = IF q = <<>> THEN Idle ELSE [flow[f] EXCEPT !.plan = q]
    BY <1>4, <1>p DEF Instead
  <2>2. CASE q = <<>>
    BY <1>2, <1>3, <2>1, <2>2
  <2>3. CASE q # <<>>
    <3>1. /\ n \in FlowRecord /\ n.plan = q /\ n.user = flow[f].user /\ n.call = flow[f].call
          /\ n.ref = flow[f].ref /\ n.toggle = flow[f].toggle
      <4>1. n = [flow[f] EXCEPT !.plan = q] /\ q \in Seq(Steps)
        BY <1>2, <2>1, <2>3 DEF PlanHolds
      <4>2. QED BY <1>1, <4>1 DEF FlowRecord
    <3>2. QED BY <1>2, <2>3, <3>1
  <2>4. QED BY <2>2, <2>3
<1>5. CASE n = AfterFailure(f) /\ n # Instead(f, <<>>)
  <2>1. \/ n = Idle
        \/ n = [flow[f] EXCEPT !.plan = <<"leaveCheck">>] /\ Len(p) > 1 /\ p[Len(p)] = "leaveCheck"
    BY <1>5 DEF AfterFailure
  <2>2. CASE n = Idle
    BY <1>3, <1>5, <2>2
  <2>3. CASE n = [flow[f] EXCEPT !.plan = <<"leaveCheck">>] /\ Len(p) > 1
             /\ p[Len(p)] = "leaveCheck"
    <3>1. PICK r : r = <<"leaveCheck">>
      OBVIOUS
    <3>2. /\ r \in Seq(Steps) /\ PlanHolds(r) /\ r # <<>> /\ Head(r) = "leaveCheck"
          /\ \A s : Has(r, s) => s = "leaveCheck"
      BY <3>1 DEF PlanHolds, Has, Steps, First
    <3>3. /\ n \in FlowRecord /\ n.plan = r /\ n.user = flow[f].user /\ n.call = flow[f].call
          /\ n.ref = flow[f].ref /\ n.toggle = flow[f].toggle
      BY <1>1, <2>3, <3>1, <3>2 DEF FlowRecord
    <3>4. Has(p, "leaveCheck") /\ Head(p) \notin {"record", "find", "create"}
      <4>1. p \in Seq(Steps) /\ Len(p) \in DOMAIN p /\ Head(p) = p[1] /\ 1 \in DOMAIN p
        BY <1>1, <2>3 DEF PlanHolds
      <4>2. QED BY <1>1, <2>3, <4>1 DEF Has, PlanHolds
    <3>5. QED BY <1>5, <3>2, <3>3, <3>4 DEF First
  <2>4. QED BY <2>1, <2>2, <2>3
<1>6. QED BY <1>4, <1>5

(* The plans that a click begins with. *)
Begun == {<<"find">>, <<"decline">>, <<"grant">>, <<"upload">>, <<"upload", "recCheck">>,
          <<"recCheck", "record">>, <<"leaveCheck">>, <<"upload", "recCheck">> \o <<"leaveCheck">>}

(* The longest of them, step by step. *)
LEMMA FlushAndLeave ==
  ASSUME NEW p, p = <<"upload", "recCheck">> \o <<"leaveCheck">>
  PROVE  /\ p \in Seq(Steps) /\ Len(p) = 3
         /\ p[1] = "upload" /\ p[2] = "recCheck" /\ p[3] = "leaveCheck"
<1>1. PICK a, b : a = <<"upload", "recCheck">> /\ b = <<"leaveCheck">>
  OBVIOUS
<1>2. /\ a \in Seq(Steps) /\ Len(a) = 2 /\ a[1] = "upload" /\ a[2] = "recCheck"
  BY <1>1 DEF Steps
<1>3. b \in Seq(Steps) /\ Len(b) = 1 /\ b[1] = "leaveCheck"
  BY <1>1 DEF Steps
<1>4. p = a \o b
  BY <1>1, Zenon
<1>5. p \in Seq(Steps) /\ Len(p) = Len(a) + Len(b)
  BY <1>2, <1>3, <1>4
<1>6. /\ \A i \in 1 .. Len(a) : p[i] = a[i]
      /\ \A i \in 1 .. Len(b) : p[Len(a) + i] = b[i]
  BY <1>2, <1>3, <1>4
<1>7. QED BY <1>2, <1>3, <1>5, <1>6

(* Each is well formed, and none is on the way into a call. *)
LEMMA BegunPlans ==
  ASSUME NEW p \in Begun
  PROVE  /\ PlanHolds(p) /\ p # <<>> /\ Head(p) \notin {"create", "tellStart", "tellEnd"}
         /\ \A s \in {"tellStart", "ring", "answer"} : ~Has(p, s)
         /\ Head(p) = "find" => p = <<"find">>
         /\ Has(p, "record") => p = <<"recCheck", "record">>
         /\ Has(p, "upload") => Head(p) = "upload"
<1> USE DEF PlanHolds, Has, Steps, First
<1>1. ASSUME NEW x \in {"find", "decline", "grant", "upload", "leaveCheck"}, p = <<x>>
      PROVE  /\ PlanHolds(p) /\ p # <<>> /\ Head(p) \notin {"create", "tellStart", "tellEnd"}
             /\ \A s \in {"tellStart", "ring", "answer"} : ~Has(p, s)
             /\ Head(p) = "find" => p = <<"find">>
             /\ Has(p, "record") => p = <<"recCheck", "record">>
             /\ Has(p, "upload") => Head(p) = "upload"
  BY <1>1
<1>2. CASE p = <<"upload", "recCheck">>
  BY <1>2
<1>3. CASE p = <<"recCheck", "record">>
  BY <1>3
<1>4. CASE p = <<"upload", "recCheck">> \o <<"leaveCheck">>
  <2>1. /\ p \in Seq(Steps) /\ Len(p) = 3
        /\ p[1] = "upload" /\ p[2] = "recCheck" /\ p[3] = "leaveCheck"
    BY <1>4, FlushAndLeave
  <2>2. QED BY <2>1
<1>5. QED BY <1>1, <1>2, <1>3, <1>4 DEF Begun

(* The plan of a hang-up. *)
LEMMA HangUpPlans ==
  ASSUME NEW take, NEW zero \in BOOLEAN, NEW p,
         p = (IF take # 0 THEN <<"upload", "recCheck">> ELSE <<>>)
               \o (IF zero THEN <<"leaveCheck">> ELSE <<>>)
  PROVE  /\ p = <<>> \/ p \in Begun
         /\ take # 0 => p \in Begun /\ Head(p) = "upload"
         /\ take = 0 => ~Has(p, "upload")
         /\ ~Has(p, "record")
<1>1. CASE take # 0 /\ zero
  <2>1. p = <<"upload", "recCheck">> \o <<"leaveCheck">>
    BY <1>1
  <2>2. /\ p \in Seq(Steps) /\ Len(p) = 3 /\ p[1] = "upload" /\ p[2] = "recCheck"
        /\ p[3] = "leaveCheck"
    BY <2>1, FlushAndLeave
  <2>3. p \in Begun
    BY <2>1 DEF Begun
  <2>4. Head(p) = "upload" /\ ~Has(p, "record")
    BY <2>2 DEF Has
  <2>5. QED BY <1>1, <2>3, <2>4
<1>2. CASE take # 0 /\ ~zero
  <2>1. p = <<"upload", "recCheck">>
    BY <1>2
  <2>2. QED BY <1>2, <2>1 DEF Begun, Has
<1>3. CASE take = 0 /\ zero
  <2>1. p = <<"leaveCheck">>
    BY <1>3
  <2>2. QED BY <1>3, <2>1 DEF Begun, Has
<1>4. CASE take = 0 /\ ~zero
  <2>1. p = <<>>
    BY <1>4
  <2>2. QED BY <1>4, <2>1 DEF Has
<1>5. QED BY <1>1, <1>2, <1>3, <1>4

(* A flow that begins. *)
LEMMA BegunFlow ==
  ASSUME NEW u \in User, NEW c \in Call \cup {None}, NEW p \in Begun \cup {<<>>}, NEW flag \in BOOLEAN,
         NEW ref \in User \cup Take \cup {0}, NEW toggle \in BOOLEAN,
         p = <<"find">> \/ c \in Call, Has(p, "upload") \/ Has(p, "record") => ref \in Take,
         NEW n, n = IF p = <<>> THEN Idle
                    ELSE [user |-> u, call |-> c, flag |-> flag, ref |-> ref,
                          toggle |-> toggle, plan |-> p]
  PROVE  n \in FlowRecord /\ FlowHolds(n)' /\ n.plan = p
         /\ (p # <<>> => n.user = u /\ n.ref = ref /\ n.call = c)
<1>1. CASE p = <<>>
  BY <1>1 DEF Idle, FlowRecord, FlowHolds, PlanHolds, Has
<1>2. CASE p \in Begun
  <2>1. PlanHolds(p) /\ p # <<>>
    BY <1>2, BegunPlans
  <2>2. n \in FlowRecord /\ n.plan = p /\ n.user = u /\ n.ref = ref /\ n.call = c
    BY <2>1 DEF FlowRecord, PlanHolds
  <2>3. FlowHolds(n)'
    BY <1>2, <2>1, <2>2, BegunPlans DEF FlowHolds
  <2>4. QED BY <2>2, <2>3
<1>3. QED BY <1>1, <1>2

CallsKept == \A c \in Call : call[c].state # "none" => call'[c].state # "none"

(* A flow that goes on after its step, or after a failure. *)
LEMMA GoingFlow ==
  ASSUME CallsTypeOK, FlowsHold, CallsKept, NEW f \in Flow, flow[f].plan # <<>>,
         NEW n, n \in {Instead(f, <<>>), AfterFailure(f)}
  PROVE  n \in FlowRecord /\ FlowHolds(n)'
<1>1. FlowHolds(flow[f])
  BY DEF FlowsHold
<1>2. /\ n \in FlowRecord /\ PlanHolds(n.plan)
      /\ n.plan # <<>> => /\ n.user = flow[f].user /\ n.call = flow[f].call
                          /\ n.ref = flow[f].ref /\ Head(n.plan) \notin First
      /\ \A s : Has(n.plan, s) => Has(flow[f].plan, s) /\ s \notin First
      /\ n.plan # <<>> => Head(flow[f].plan) \notin {"find", "create"}
  BY GoesOn
<1>3. CASE n.plan = <<>>
  BY <1>2, <1>3 DEF FlowHolds, Has
<1>4. CASE n.plan # <<>>
  <2>1. n.user \in User /\ n.call \in Call
    BY <1>1, <1>2, <1>4 DEF FlowHolds
  <2>2. \A s \in {"tellStart", "ring", "answer"} : Has(n.plan, s) => call'[n.call].state # "none"
    BY <1>1, <1>2, <1>4 DEF FlowHolds, CallsKept
  <2>3. \A s \in {"record", "upload"} : Has(n.plan, s) => n.ref \in Take
    BY <1>1, <1>2, <1>4 DEF FlowHolds
  <2>4. QED BY <1>2, <2>1, <2>2, <2>3 DEF FlowHolds
<1>5. QED BY <1>2, <1>3, <1>4

(* A flow n that goes on with other steps, with its call or another. *)
Redirected(f, s, c, b, n) ==
  \/ n = Instead(f, s) /\ c = flow[f].call
  \/ n = [Instead(f, s) EXCEPT !.call = c]
  \/ n = [Instead(f, s) EXCEPT !.call = c, !.flag = b]
(* These steps are right for that call. *)
Suits(f, s, c) ==
  /\ s = <<"create">> => Head(flow[f].plan) = "find"
  /\ \/ c \in Call /\ call'[c].state # "none"
     \/ c = flow[f].call /\ s = <<"create">>
     \/ c = flow[f].call /\ c \in Call /\ s \in {<<"recWrite", "recTell">>, <<"leaveEnd", "tellEnd">>}

(* The flow with steps put before the rest of its plan. *)
LEMMA InsertedFlow ==
  ASSUME CallsTypeOK, FlowsHold, CallsKept, NEW f \in Flow, flow[f].plan # <<>>,
         NEW s \in Insertions, NEW c \in Call \cup {None}, NEW b \in BOOLEAN, NEW n,
         Redirected(f, s, c, b, n), Suits(f, s, c)
  PROVE  /\ n \in FlowRecord /\ FlowHolds(n)' /\ n.plan # <<>> /\ Head(n.plan) = s[1] /\ n.call = c
         /\ n.user = flow[f].user /\ n.ref = flow[f].ref
         /\ \A t \in {"upload", "record"} : Has(n.plan, t) => Has(flow[f].plan, t)
<1> DEFINE p == flow[f].plan
<1>q. PICK q : q = s \o Tail(p)
  OBVIOUS
<1>1. FlowHolds(flow[f]) /\ PlanHolds(p) /\ flow[f] \in FlowRecord
      /\ (s = <<"create">> => Head(p) = "find") /\ p # <<>>
  BY DEF FlowsHold, FlowHolds, CallsTypeOK, Suits
<1> HIDE DEF p
<1>2. /\ PlanHolds(q) /\ q # <<>> /\ Head(q) = s[1]
      /\ \A t : Has(q, t) => Has(s, t) \/ (Has(p, t) /\ t \notin First)
  BY <1>1, <1>q, Inserted
<1> USE DEF p
<1>3. Instead(f, s) = [flow[f] EXCEPT !.plan = q]
  BY <1>2, <1>q DEF Instead
<1>4. /\ n \in FlowRecord /\ n.plan = q /\ n.call = c /\ n.user = flow[f].user
      /\ n.ref = flow[f].ref
  <2>1. q \in Seq(Steps)
    BY <1>2 DEF PlanHolds
  <2>2. \/ n = [flow[f] EXCEPT !.plan = q] /\ c = flow[f].call
        \/ n = [[flow[f] EXCEPT !.plan = q] EXCEPT !.call = c]
        \/ n = [[flow[f] EXCEPT !.plan = q] EXCEPT !.call = c, !.flag = b]
    BY <1>3 DEF Redirected
  <2>3. QED BY <1>1, <2>1, <2>2 DEF FlowRecord
<1>5. \A t \in {"upload", "record"} : ~Has(s, t)
  BY DEF Has, Insertions
<1>6. Has(s, "tellStart") \/ Has(s, "ring") \/ Has(s, "answer") =>
        s \in {<<"answer">>, <<"tellStart", "ring", "answer">>}
  BY DEF Has, Insertions
<1>7. s[1] \in {"find", "create"} => s = <<"create">>
  BY DEF Insertions
<1>8. FlowHolds(n)'
  BY <1>1, <1>2, <1>4, <1>5, <1>6, <1>7 DEF FlowHolds, CallsKept, Suits
<1>9. QED BY <1>2, <1>4, <1>5, <1>8

---------------------------------------------------------------------------
(* Types.                                                                  *)

(* The other flows keep their form while no row is forgotten. *)
LEMMA FlowsKept ==
  ASSUME CallsTypeOK, FlowsHold, CallsKept,
         \/ flow' = flow
         \/ \E f \in Flow, n \in FlowRecord : FlowHolds(n)' /\ flow' = [flow EXCEPT ![f] = n]
  PROVE  flow' \in [Flow -> FlowRecord] /\ FlowsHold'
<1>1. ASSUME NEW g \in Flow
      PROVE  FlowHolds(flow[g])'  \/ flow'[g] # flow[g]
  BY DEF FlowsHold, FlowHolds, CallsKept
<1>2. CASE flow' = flow
  BY <1>1, <1>2 DEF FlowsHold, CallsTypeOK
<1>3. CASE \E f \in Flow, n \in FlowRecord : FlowHolds(n)' /\ flow' = [flow EXCEPT ![f] = n]
  <2>1. PICK f \in Flow, n \in FlowRecord : FlowHolds(n)' /\ flow' = [flow EXCEPT ![f] = n]
    BY <1>3
  <2>2. flow' \in [Flow -> FlowRecord] /\ flow'[f] = n /\ \A g \in Flow \ {f} : flow'[g] = flow[g]
    BY <2>1 DEF CallsTypeOK
  <2>3. FlowHolds(flow[f])'
    BY <2>1, <2>2 DEF FlowHolds
  <2>4. QED BY <1>1, <2>2, <2>3 DEF FlowsHold
<1>4. QED BY <1>2, <1>3

(* A broadcast is one more event in the mail of some. *)
LEMMA MailTypes ==
  ASSUME CallsTypeOK, NEW users \in SUBSET User, NEW e, NEW c \in Call, NEW b \in BOOLEAN,
         e \in {"started", "ended", "ring", "stop", "recording"}, ToUsers(users, Msg(e, c, b))
  PROVE  /\ mail' \in [User -> Seq(Event)] /\ Msg(e, c, b) \in Event
         /\ \A u \in User : mail'[u] = IF u \in users THEN Append(mail[u], Msg(e, c, b)) ELSE mail[u]
<1>1. Msg(e, c, b) \in Event
  BY DEF Msg, Event
<1>2. QED BY <1>1 DEF ToUsers, CallsTypeOK

(* What an event makes of a page. *)
LEMMA ShownTypes ==
  ASSUME NEW p \in PageRecord, NEW m \in Event
  PROVE  /\ Shown(p, m) \in PageRecord
         /\ Shown(p, m).overlay = p.overlay /\ Shown(p, m).take = p.take
         /\ Shown(p, m).banner = IF Announces(m) THEN Announced(m) ELSE p.banner
         /\ Shown(p, m).ring \in {None, p.ring} \/ (m.ev = "ring" /\ Shown(p, m).ring = m.call)
         /\ p.ring # None /\ Silences(m, p.ring) => Shown(p, m).ring = None
<1>1. m.ev \in {"started", "ended", "ring", "stop", "recording"} /\ m.call \in Call
      /\ m.flag \in BOOLEAN
  BY DEF Event
<1> USE DEF Announces, Announced, Silences
<1>2. CASE m.ev = "started"
  <2>1. Shown(p, m) = [p EXCEPT !.banner = m.call]
    BY <1>2 DEF Shown
  <2>2. QED BY <1>1, <1>2, <2>1 DEF PageRecord
<1>3. CASE m.ev = "ended"
  <2>1. Shown(p, m) = [p EXCEPT !.banner = None, !.ring = None]
    BY <1>3 DEF Shown
  <2>2. QED BY <1>1, <1>3, <2>1 DEF PageRecord
<1>4. CASE m.ev = "ring"
  <2>1. Shown(p, m) = IF p.overlay = None THEN [p EXCEPT !.ring = m.call] ELSE p
    BY <1>4 DEF Shown
  <2>2. QED BY <1>1, <1>4, <2>1 DEF PageRecord
<1>5. CASE m.ev = "stop"
  <2>1. Shown(p, m) = IF p.ring = m.call THEN [p EXCEPT !.ring = None] ELSE p
    BY <1>5 DEF Shown
  <2>2. QED BY <1>1, <1>5, <2>1 DEF PageRecord
<1>6. CASE m.ev = "recording"
  <2>1. Shown(p, m) = IF p.overlay = m.call THEN [p EXCEPT !.badge = m.flag] ELSE p
    BY <1>6 DEF Shown
  <2>2. QED BY <1>1, <1>6, <2>1 DEF PageRecord
<1>7. QED BY <1>1, <1>2, <1>3, <1>4, <1>5, <1>6

(* What a row may become. *)
LEMMA RowTypes ==
  ASSUME NEW r \in CallRecord, NEW b \in BOOLEAN
  PROVE  /\ [r EXCEPT !.rec = b] \in CallRecord /\ [r EXCEPT !.rec = b].state = r.state
         /\ [r EXCEPT !.state = "ended", !.rec = FALSE] \in CallRecord
         /\ [r EXCEPT !.state = "ended", !.rec = FALSE].state = "ended"
BY DEF CallRecord

(* No step makes a row none again. *)
LEMMA RowsKept ==
  ASSUME CallsTypeOK, [CallsNext]_vars
  PROVE  CallsKept /\ call' \in [Call -> CallRecord]
<1> USE DEF CallsKept
<1>t. call \in [Call -> CallRecord] /\ flow \in [Flow -> FlowRecord]
  BY DEF CallsTypeOK
<1>1. ASSUME NEW f \in Flow, Create(f)
      PROVE  CallsKept /\ call' \in [Call -> CallRecord]
  <2>1. PICK c \in Call : call' = [call EXCEPT ![c] = [state |-> "active", host |-> flow[f].user,
                                                       rec |-> FALSE]]
    BY <1>1 DEF Create
  <2>2. PICK h \in User \cup {None} : h = flow[f].user
    BY <1>t DEF FlowRecord
  <2>3. PICK r : r = [state |-> "active", host |-> h, rec |-> FALSE]
    OBVIOUS
  <2>4. r \in CallRecord /\ r.state = "active" /\ call' = [call EXCEPT ![c] = r]
    BY <2>1, <2>2, <2>3 DEF CallRecord
  <2>5. QED BY <1>t, <2>4
<1>3. ASSUME NEW f \in Flow, SetRecording(f)
      PROVE  CallsKept /\ call' \in [Call -> CallRecord]
  <2>1. PICK b \in BOOLEAN : b = flow[f].flag
    BY <1>t DEF FlowRecord
  <2>2. PICK c : c = flow[f].call
    OBVIOUS
  <2>3. PICK r : r = [call[c] EXCEPT !.rec = b]
    OBVIOUS
  <2>4. call' = [call EXCEPT ![c] = r]
    BY <1>3, <2>1, <2>2, <2>3 DEF SetRecording
  <2>5. c \in Call => r \in CallRecord /\ r.state = call[c].state
    BY <1>t, <2>3, RowTypes
  <2>6. QED BY <1>t, <2>4, <2>5
<1>4. ASSUME NEW f \in Flow, EndCall(f)
      PROVE  CallsKept /\ call' \in [Call -> CallRecord]
  <2>2. PICK c : c = flow[f].call
    OBVIOUS
  <2>3. PICK r : r = [call[c] EXCEPT !.state = "ended", !.rec = FALSE]
    OBVIOUS
  <2>4. call' = [call EXCEPT ![c] = r]
    BY <1>4, <2>2, <2>3 DEF EndCall
  <2>5. c \in Call => r \in CallRecord /\ r.state = "ended"
    BY <1>t, <2>3, RowTypes
  <2>6. QED BY <1>t, <2>4, <2>5
<1>5. ASSUME call' = call
      PROVE  CallsKept /\ call' \in [Call -> CallRecord]
  BY <1>t, <1>5
<1>6. ASSUME NEW f \in Flow, Serve(f)
      PROVE  CallsKept /\ call' \in [Call -> CallRecord]
  <2>1. call' = call \/ Create(f) \/ SetRecording(f) \/ EndCall(f)
    BY <1>6 DEF Serve, Find, TellStart, RingDirectMessage, JoinAnswered, Decline,
                GrantScreenshare, CheckRecording, TellRecording, Record, UploadRecording, Leave,
                TellEnd, Fail
  <2>2. QED BY <1>1, <1>3, <1>4, <1>5, <2>1
<1>7. ASSUME NEW f \in Flow, NEW u \in User, Click(f, u) \/ ReceiveAndFlush(f, u)
      PROVE  call' = call
  BY <1>7 DEF Click, StartCall, Accept, PressDecline, StartRecording, StopRecording, HangUp,
              PressGrant, ReceiveAndFlush
<1>8. ASSUME NEW u \in User, Receive(u) \/ Dismiss(u) \/ Looks(u)
      PROVE  call' = call
  BY <1>8 DEF Receive, Dismiss, Looks, LoseMail, ReadActive, TakeActive
<1>9. vars' = vars => call' = call
  BY DEF vars
<1>10. QED BY <1>5, <1>6, <1>7, <1>8, <1>9 DEF CallsNext, Looks

(* The step of a flow leaves a flow, which posts and records nothing that  *)
(* it did not before.                                                      *)
LEMMA ServeFlow ==
  ASSUME CallsTypeOK, FlowsHold, NEW f \in Flow, Serve(f)
  PROVE  /\ flow[f].plan # <<>>
         /\ \E n \in FlowRecord :
              /\ flow' = [flow EXCEPT ![f] = n] /\ FlowHolds(n)'
              /\ \A t \in {"upload", "record"} :
                   Has(n.plan, t) => Has(flow[f].plan, t) /\ n.ref = flow[f].ref
              /\ Head(flow[f].plan) \in {"upload", "record"} =>
                   ~Has(n.plan, "upload") /\ ~Has(n.plan, "record")
<1>c. CallsKept /\ call' \in [Call -> CallRecord]
  BY RowsKept DEF CallsNext
<1>p. FlowHolds(flow[f]) /\ flow[f] \in FlowRecord
  BY DEF FlowsHold, CallsTypeOK
<1>1. ASSUME flow[f].plan # <<>>, NEW n \in {Instead(f, <<>>), AfterFailure(f), Idle},
             flow' = [flow EXCEPT ![f] = n]
      PROVE  \E m \in FlowRecord :
              /\ flow' = [flow EXCEPT ![f] = m] /\ FlowHolds(m)'
              /\ \A t \in {"upload", "record"} :
                   Has(m.plan, t) => Has(flow[f].plan, t) /\ m.ref = flow[f].ref
              /\ Head(flow[f].plan) \in {"upload", "record"} =>
                   ~Has(m.plan, "upload") /\ ~Has(m.plan, "record")
  <2>1. CASE n = Idle
    <3>1. n \in FlowRecord /\ n.plan = <<>>
      BY <2>1 DEF Idle, FlowRecord
    <3>2. \A t : ~Has(n.plan, t)
      BY <3>1 DEF Has
    <3>3. PlanHolds(n.plan)
      BY <3>1, <3>2 DEF PlanHolds
    <3>4. FlowHolds(n)'
      BY <3>1, <3>2, <3>3 DEF FlowHolds
    <3>5. QED BY <1>1, <3>1, <3>2, <3>4
  <2>2. CASE n \in {Instead(f, <<>>), AfterFailure(f)}
    <3>1. n \in FlowRecord /\ FlowHolds(n)'
      BY <1>1, <1>c, <2>2, GoingFlow
    <3>7. /\ n.plan # <<>> => n.ref = flow[f].ref
          /\ \A s : Has(n.plan, s) => Has(flow[f].plan, s) /\ s \notin First
          /\ Head(flow[f].plan) \in {"record", "find", "create"} => n.plan = <<>>
      BY <1>1, <2>2, GoesOn
    <3>8. \A s : Has(n.plan, s) => n.plan # <<>>
      BY DEF Has
    <3>2. /\ \A s : Has(n.plan, s) => Has(flow[f].plan, s) /\ s \notin First /\ n.plan # <<>>
          /\ n.plan # <<>> => n.ref = flow[f].ref
          /\ Head(flow[f].plan) = "record" => n.plan = <<>>
      BY <3>7, <3>8
    <3>3. Head(flow[f].plan) = "upload" => Has(flow[f].plan, "upload")
      BY <1>1, <1>p DEF FlowHolds, PlanHolds, Has
    <3>4. Head(flow[f].plan) = "upload" => ~Has(flow[f].plan, "record")
      BY <1>p, <3>3 DEF FlowHolds, PlanHolds
    <3>5. "upload" \in First
      BY DEF First
    <3>6. QED BY <1>1, <3>1, <3>2, <3>4, <3>5
  <2>3. QED BY <1>1, <2>1, <2>2
<1>2. ASSUME flow[f].plan # <<>>, NEW s \in Insertions, NEW c \in Call \cup {None}, NEW b \in BOOLEAN,
             NEW n, flow' = [flow EXCEPT ![f] = n],
             Redirected(f, s, c, b, n), Suits(f, s, c),
             Head(flow[f].plan) \notin {"upload", "record"}
      PROVE  \E m \in FlowRecord :
              /\ flow' = [flow EXCEPT ![f] = m] /\ FlowHolds(m)'
              /\ \A t \in {"upload", "record"} :
                   Has(m.plan, t) => Has(flow[f].plan, t) /\ m.ref = flow[f].ref
              /\ Head(flow[f].plan) \in {"upload", "record"} =>
                   ~Has(m.plan, "upload") /\ ~Has(m.plan, "record")
  <2>1. /\ n \in FlowRecord /\ FlowHolds(n)' /\ n.ref = flow[f].ref
        /\ \A t \in {"upload", "record"} : Has(n.plan, t) => Has(flow[f].plan, t)
    BY <1>2, <1>c, InsertedFlow
  <2>2. QED BY <1>2, <2>1
<1>i. <<"create">> \in Insertions /\ <<"answer">> \in Insertions
      /\ <<"tellStart", "ring", "answer">> \in Insertions /\ <<"recWrite", "recTell">> \in Insertions
      /\ <<"leaveEnd", "tellEnd">> \in Insertions
  BY DEF Insertions
<1>3. CASE \/ TellStart(f) \/ RingDirectMessage(f) \/ JoinAnswered(f) \/ Decline(f)
           \/ GrantScreenshare(f) \/ SetRecording(f) \/ TellRecording(f) \/ Record(f)
           \/ UploadRecording(f) \/ EndCall(f) \/ TellEnd(f)
  <2>1. flow[f].plan # <<>> /\ flow' = [flow EXCEPT ![f] = Instead(f, <<>>)]
    BY <1>3 DEF TellStart, RingDirectMessage, JoinAnswered, Decline, GrantScreenshare, SetRecording,
                TellRecording, Record, UploadRecording, EndCall, TellEnd, Continue, At
  <2>2. QED BY <1>1, <2>1
<1>4. CASE Fail(f)
  BY <1>1, <1>4 DEF Fail
<1>5. CASE Find(f)
  <2>1. flow[f].plan # <<>> /\ Head(flow[f].plan) = "find"
    BY <1>5 DEF Find, At
  <2>2. CASE Active = {}
    <3>1. flow' = [flow EXCEPT ![f] = Instead(f, <<"create">>)]
      BY <1>5, <2>2 DEF Find
    <3>2. flow[f].call \in Call \cup {None} /\ FALSE \in BOOLEAN
      BY <1>p DEF FlowRecord
    <3>3. QED BY <1>2, <1>i, <2>1, <3>1, <3>2 DEF Redirected, Suits
  <2>3. CASE Active # {}
    <3>1. PICK c \in Active : flow' = [flow EXCEPT ![f] = [Instead(f, <<"answer">>) EXCEPT
                                                             !.call = c, !.flag = call[c].rec]]
      BY <1>5, <2>3 DEF Find
    <3>2. PICK b : b = call[c].rec
      OBVIOUS
    <3>3. c \in Call /\ call'[c].state # "none" /\ b \in BOOLEAN
      BY <1>c, <3>2 DEF Active, CallsKept, CallsTypeOK, CallRecord
    <3>4. PICK n : n = [Instead(f, <<"answer">>) EXCEPT !.call = c, !.flag = b]
      OBVIOUS
    <3>5. flow' = [flow EXCEPT ![f] = n] /\ <<"answer">> # <<"create">>
      BY <3>1, <3>2, <3>4
    <3>6. QED BY <1>2, <1>i, <2>1, <3>3, <3>4, <3>5 DEF Redirected, Suits
  <2>4. QED BY <2>2, <2>3
<1>6. CASE Create(f)
  <2>1. PICK c \in Call :
          /\ call' = [call EXCEPT ![c] = [state |-> "active", host |-> flow[f].user, rec |-> FALSE]]
          /\ flow' = [flow EXCEPT ![f] = [Instead(f, <<"tellStart", "ring", "answer">>) EXCEPT
                                            !.call = c]]
    BY <1>6 DEF Create
  <2>2. call'[c].state # "none" /\ flow[f].plan # <<>> /\ Head(flow[f].plan) = "create"
    BY <1>6, <2>1 DEF CallsTypeOK, Create, At
  <2>3. PICK s : s = <<"tellStart", "ring", "answer">>
    OBVIOUS
  <2>4. s \in Insertions /\ s # <<"create">> /\ FALSE \in BOOLEAN
    BY <1>i, <2>3
  <2>5. PICK n : n = [Instead(f, s) EXCEPT !.call = c]
    OBVIOUS
  <2>6. flow' = [flow EXCEPT ![f] = n]
    BY <2>1, <2>3, <2>5
  <2>7. QED BY <1>2, <2>2, <2>4, <2>5, <2>6 DEF Redirected, Suits
<1>7. CASE CheckRecording(f)
  <2>1. flow[f].plan # <<>> /\ Head(flow[f].plan) = "recCheck" /\ flow[f].call \in Call
    BY <1>7, <1>p DEF CheckRecording, At, FlowHolds
  <2>2. \/ flow' = [flow EXCEPT ![f] = AfterFailure(f)]
        \/ flow' = [flow EXCEPT ![f] = Instead(f, <<>>)]
        \/ flow' = [flow EXCEPT ![f] = Instead(f, <<"recWrite", "recTell">>)]
    BY <1>7 DEF CheckRecording
  <2>3. CASE flow' = [flow EXCEPT ![f] = Instead(f, <<"recWrite", "recTell">>)]
    <3>1. PICK s : s = <<"recWrite", "recTell">>
      OBVIOUS
    <3>2. s \in Insertions /\ s # <<"create">> /\ FALSE \in BOOLEAN
      BY <1>i, <3>1
    <3>3. PICK n : n = Instead(f, s)
      OBVIOUS
    <3>4. flow' = [flow EXCEPT ![f] = n] /\ s \in {<<"recWrite", "recTell">>, <<"leaveEnd", "tellEnd">>}
      BY <2>3, <3>1, <3>3
    <3>5. QED BY <1>2, <2>1, <3>2, <3>3, <3>4 DEF Redirected, Suits
  <2>4. QED BY <1>1, <2>1, <2>2, <2>3
<1>8. CASE Leave(f)
  <2>1. flow[f].plan # <<>> /\ Head(flow[f].plan) = "leaveCheck" /\ flow[f].call \in Call
    BY <1>8, <1>p DEF Leave, At, FlowHolds
  <2>2. \/ flow' = [flow EXCEPT ![f] = Idle]
        \/ flow' = [flow EXCEPT ![f] = Instead(f, <<"leaveEnd", "tellEnd">>)]
    BY <1>8 DEF Leave
  <2>3. CASE flow' = [flow EXCEPT ![f] = Instead(f, <<"leaveEnd", "tellEnd">>)]
    <3>1. PICK s : s = <<"leaveEnd", "tellEnd">>
      OBVIOUS
    <3>2. s \in Insertions /\ s # <<"create">> /\ FALSE \in BOOLEAN
      BY <1>i, <3>1
    <3>3. PICK n : n = Instead(f, s)
      OBVIOUS
    <3>4. flow' = [flow EXCEPT ![f] = n] /\ s \in {<<"recWrite", "recTell">>, <<"leaveEnd", "tellEnd">>}
      BY <2>3, <3>1, <3>3
    <3>5. QED BY <1>2, <2>1, <3>2, <3>3, <3>4 DEF Redirected, Suits
  <2>4. QED BY <1>1, <2>1, <2>2, <2>3
<1>9. flow[f].plan # <<>>
  BY DEF Serve, Find, Create, TellStart, RingDirectMessage, JoinAnswered, Decline, GrantScreenshare,
         CheckRecording, SetRecording, TellRecording, Record, UploadRecording, Leave, EndCall, TellEnd,
         Fail, At
<1>10. QED BY <1>3, <1>4, <1>5, <1>6, <1>7, <1>8, <1>9 DEF Serve

(* A flow that carries the recording t. *)
Carries(n, t) == n.ref = t /\ (Has(n.plan, "upload") \/ Has(n.plan, "record"))

(* A click begins a flow, which at most hands on the recording of its page *)
(* or makes a new one.                                                     *)
LEMMA ClickFlow ==
  ASSUME CallsTypeOK, FlowsHold, NEW f \in Flow, NEW u \in User, Click(f, u)
  PROVE  /\ flow[f].plan = <<>> /\ clicks' = clicks + 1 /\ clicks < MaxRequests
         /\ \E n \in FlowRecord :
              /\ flow' = [flow EXCEPT ![f] = n] /\ FlowHolds(n)'
              /\ n.plan # <<>> => Head(n.plan) \notin {"create", "tellStart", "tellEnd"}
              /\ \/ ~Has(n.plan, "upload") /\ ~Has(n.plan, "record")
                 \/ StartRecording(f, u) /\ n.ref = clicks + 1
                 \/ /\ StopRecording(f, u) \/ \E zero \in BOOLEAN : HangUp(f, u, zero)
                    /\ page[u].take # 0 /\ n.ref = page[u].take
<1> DEFINE Goal == \E n \in FlowRecord :
              /\ flow' = [flow EXCEPT ![f] = n] /\ FlowHolds(n)'
              /\ n.plan # <<>> => Head(n.plan) \notin {"create", "tellStart", "tellEnd"}
              /\ \/ ~Has(n.plan, "upload") /\ ~Has(n.plan, "record")
                 \/ StartRecording(f, u) /\ n.ref = clicks + 1
                 \/ /\ StopRecording(f, u) \/ \E zero \in BOOLEAN : HangUp(f, u, zero)
                    /\ page[u].take # 0 /\ n.ref = page[u].take
<1>t. /\ page[u] \in PageRecord /\ page[u].overlay \in Call \cup {None}
      /\ page[u].ring \in Call \cup {None} /\ page[u].take \in {0} \cup Take
      /\ clicks \in Nat
  BY DEF CallsTypeOK, PageRecord
<1>b. FALSE \in BOOLEAN /\ TRUE \in BOOLEAN /\ None \in Call \cup {None}
  OBVIOUS
<1>1. flow[f].plan = <<>> /\ clicks' = clicks + 1 /\ clicks < MaxRequests
  <2>1. flow[f].plan = <<>> /\ clicks' = clicks + 1 /\ Bounded
    BY DEF Click, StartCall, Accept, PressDecline, StartRecording, StopRecording, HangUp, PressGrant,
           Begin
  <2>2. clicks < MaxRequests
    BY <2>1, CallsAssumption DEF Bounded, CallsTypeOK
  <2>3. QED BY <2>1, <2>2
<1> DEFINE Starts(c, p, ref) == \E flag, toggle \in BOOLEAN : Begin(f, u, c, p, flag, ref, toggle)
           Fits(c, p, ref) == /\ p = <<"find">> \/ c \in Call
                              /\ Has(p, "upload") \/ Has(p, "record") => ref \in Take
           About(p, ref) ==
             \/ ~Has(p, "upload") /\ ~Has(p, "record")
             \/ StartRecording(f, u) /\ ref = clicks + 1
             \/ /\ StopRecording(f, u) \/ \E zero \in BOOLEAN : HangUp(f, u, zero)
                /\ page[u].take # 0 /\ ref = page[u].take
<1>g. ASSUME NEW c \in Call \cup {None}, NEW p \in Begun \cup {<<>>},
             NEW ref \in User \cup Take \cup {0}, Starts(c, p, ref), Fits(c, p, ref), About(p, ref)
      PROVE  Goal
  <2>0. PICK flag, toggle \in BOOLEAN : Begin(f, u, c, p, flag, ref, toggle)
    BY <1>g
  <2>1. PICK n : n = IF p = <<>> THEN Idle
                     ELSE [user |-> u, call |-> c, flag |-> flag, ref |-> ref,
                           toggle |-> toggle, plan |-> p]
    OBVIOUS
  <2>2. flow' = [flow EXCEPT ![f] = n]
    BY <2>0, <2>1 DEF Begin
  <2>3. /\ n \in FlowRecord /\ FlowHolds(n)' /\ n.plan = p
        /\ p # <<>> => n.user = u /\ n.ref = ref /\ n.call = c
    BY <1>g, <2>1, BegunFlow
  <2>4. p # <<>> => Head(p) \notin {"create", "tellStart", "tellEnd"}
    BY BegunPlans
  <2>5. p = <<>> => ~Has(p, "upload") /\ ~Has(p, "record")
    BY DEF Has
  <2>6. QED BY <1>g, <2>2, <2>3, <2>4, <2>5
<1>z. 0 \in User \cup Take \cup {0} /\ User \subseteq User \cup Take \cup {0}
      /\ Take \subseteq User \cup Take \cup {0}
  OBVIOUS
<1> HIDE DEF Goal, Starts, Fits, About
<1>s. SUFFICES Goal
  BY <1>1 DEF Goal
<1>2. CASE StartCall(f, u) \/ Accept(f, u)
  <2>1. PICK p : p = <<"find">>
    OBVIOUS
  <2>2. p \in Begun \cup {<<>>} /\ ~Has(p, "upload") /\ ~Has(p, "record")
    BY <2>1 DEF Begun, Has
  <2>3. Starts(None, p, 0) /\ Fits(None, p, 0) /\ About(p, 0)
    BY <1>2, <2>1, <2>2 DEF StartCall, Accept, Starts, Fits, About
  <2>4. QED BY <1>g, <1>z, <1>b, <2>1, <2>2, <2>3
<1>3. CASE PressDecline(f, u)
  <2>1. PICK p : p = <<"decline">>
    OBVIOUS
  <2>2. p \in Begun \cup {<<>>} /\ ~Has(p, "upload") /\ ~Has(p, "record")
    BY <2>1 DEF Begun, Has
  <2>3. Starts(page[u].ring, p, 0) /\ Fits(page[u].ring, p, 0) /\ About(p, 0) /\ page[u].ring \in Call
    BY <1>3, <1>t, <2>1, <2>2 DEF PressDecline, Starts, Fits, About
  <2>4. QED BY <1>g, <1>z, <1>b, <2>1, <2>2, <2>3
<1>4. CASE StartRecording(f, u)
  <2>1. PICK p : p = <<"recCheck", "record">>
    OBVIOUS
  <2>2. p \in Begun \cup {<<>>}
    BY <2>1 DEF Begun
  <2>3. /\ Starts(page[u].overlay, p, clicks + 1) /\ About(p, clicks + 1)
        /\ page[u].overlay \in Call
    BY <1>4, <1>t, <2>1 DEF StartRecording, Starts, About
  <2>4. clicks + 1 \in Take
    BY <1>t, <1>1, CallsAssumption DEF Take
  <2>6. Fits(page[u].overlay, p, clicks + 1)
    BY <2>3, <2>4 DEF Fits
  <2>5. QED BY <1>g, <1>z, <1>b, <1>4, <2>6, <2>2, <2>3, <2>4
<1>5. CASE StopRecording(f, u)
  <2>1. PICK p : p = <<"upload", "recCheck">>
    OBVIOUS
  <2>2. p \in Begun \cup {<<>>}
    BY <2>1 DEF Begun
  <2>3. /\ Starts(page[u].overlay, p, page[u].take) /\ About(p, page[u].take)
        /\ page[u].overlay \in Call /\ page[u].take \in Take
    BY <1>5, <1>t, <2>1 DEF StopRecording, Starts, About
  <2>6. Fits(page[u].overlay, p, page[u].take)
    BY <2>3 DEF Fits
  <2>5. QED BY <1>g, <1>z, <1>b, <1>5, <2>6, <2>2, <2>3
<1>6. ASSUME \E zero \in BOOLEAN : HangUp(f, u, zero)
      PROVE  Goal
  <2>0. PICK zero \in BOOLEAN : HangUp(f, u, zero)
    BY <1>6
  <2>1. PICK take : take = page[u].take
    OBVIOUS
  <2>2. PICK p : p = (IF take # 0 THEN <<"upload", "recCheck">> ELSE <<>>)
                       \o (IF zero THEN <<"leaveCheck">> ELSE <<>>)
    OBVIOUS
  <2>3. /\ p \in Begun \cup {<<>>} /\ (Has(p, "upload") => take # 0)
        /\ ~Has(p, "record")
    BY <2>2, HangUpPlans
  <2>4. Starts(page[u].overlay, p, take) /\ About(p, take) /\ page[u].overlay \in Call
    BY <2>0, <1>t, <2>1, <2>2, <2>3 DEF HangUp, Starts, About
  <2>5. take \in User \cup Take \cup {0} /\ (Has(p, "upload") => take \in Take)
    BY <1>t, <2>1, <2>3
  <2>7. Fits(page[u].overlay, p, take)
    BY <2>3, <2>4, <2>5 DEF Fits
  <2>6. QED BY <1>g, <1>z, <1>b, <1>6, <2>7, <2>1, <2>3, <2>4, <2>5
<1>7. ASSUME NEW v \in User, PressGrant(f, u, v)
      PROVE  Goal
  <2>1. PICK p : p = <<"grant">>
    OBVIOUS
  <2>2. p \in Begun \cup {<<>>} /\ ~Has(p, "upload") /\ ~Has(p, "record")
    BY <2>1 DEF Begun, Has
  <2>3. Starts(page[u].overlay, p, v) /\ Fits(page[u].overlay, p, v) /\ About(p, v) /\ page[u].overlay \in Call
    BY <1>7, <1>t, <2>1, <2>2 DEF PressGrant, Starts, Fits, About
  <2>4. QED BY <1>g, <1>z, <1>b, <2>1, <2>2, <2>3
<1>8. QED BY <1>2, <1>3, <1>4, <1>5, <1>6, <1>7 DEF Click

(* A record that is filled in field by field. *)
Filled(i, u, c, r, p) ==
  [[[[i EXCEPT !.user = u] EXCEPT !.call = c] EXCEPT !.ref = r] EXCEPT !.plan = p]
LEMMA FilledIn ==
  ASSUME NEW i, NEW b, NEW u, NEW c, NEW r, NEW p, NEW v, NEW w, NEW x, NEW y,
         i = [user |-> v, call |-> w, flag |-> b, ref |-> x, toggle |-> b, plan |-> y]
  PROVE  Filled(i, u, c, r, p)
           = [user |-> u, call |-> c, flag |-> b, ref |-> r, toggle |-> b, plan |-> p]
<1>1. ASSUME NEW j, j = [user |-> u, call |-> w, flag |-> b, ref |-> x, toggle |-> b, plan |-> y]
      PROVE  [j EXCEPT !.call = c]
               = [user |-> u, call |-> c, flag |-> b, ref |-> x, toggle |-> b, plan |-> y]
  BY <1>1
<1>2. ASSUME NEW j, j = [user |-> u, call |-> c, flag |-> b, ref |-> x, toggle |-> b, plan |-> y]
      PROVE  [j EXCEPT !.ref = r]
               = [user |-> u, call |-> c, flag |-> b, ref |-> r, toggle |-> b, plan |-> y]
  BY <1>2
<1>3. PICK j : j = [i EXCEPT !.user = u]
  OBVIOUS
<1>4. j = [user |-> u, call |-> w, flag |-> b, ref |-> x, toggle |-> b, plan |-> y]
  BY <1>3
<1>5. PICK k : k = [j EXCEPT !.call = c]
  OBVIOUS
<1>6. k = [user |-> u, call |-> c, flag |-> b, ref |-> x, toggle |-> b, plan |-> y]
  BY <1>1, <1>4, <1>5
<1>7. PICK l : l = [k EXCEPT !.ref = r]
  OBVIOUS
<1>8. l = [user |-> u, call |-> c, flag |-> b, ref |-> r, toggle |-> b, plan |-> y]
  BY <1>2, <1>6, <1>7
<1>9. [l EXCEPT !.plan = p]
        = [user |-> u, call |-> c, flag |-> b, ref |-> r, toggle |-> b, plan |-> p]
  BY <1>8
<1>10. QED BY <1>3, <1>5, <1>7, <1>9, Zenon DEF Filled

(* A page that flushes its recorder begins the flow that posts it. *)
LEMMA FlushFlow ==
  ASSUME CallsTypeOK, FlowsHold, NEW f \in Flow, NEW u \in User, ReceiveAndFlush(f, u)
  PROVE  /\ flow[f].plan = <<>> /\ page[u].take # 0
         /\ \E n \in FlowRecord :
              /\ flow' = [flow EXCEPT ![f] = n] /\ FlowHolds(n)' /\ n.ref = page[u].take
              /\ n.plan # <<>> /\ Head(n.plan) \notin {"create", "tellStart", "tellEnd"}
<1>t. /\ page[u] \in PageRecord /\ page[u].overlay \in Call \cup {None}
      /\ page[u].take \in {0} \cup Take /\ mail[u] \in Seq(Event)
  BY DEF CallsTypeOK, PageRecord
<1>1. flow[f].plan = <<>> /\ page[u].take # 0
  BY DEF ReceiveAndFlush, Flushes
<1>2. page[u].overlay = Head(mail[u]).call /\ Head(mail[u]) \in Event
  BY <1>t DEF ReceiveAndFlush, Flushes
<1>3. page[u].overlay \in Call /\ page[u].take \in Take
  BY <1>t, <1>1, <1>2 DEF Event
<1>4. PICK p : p = <<"upload">>
  OBVIOUS
<1>5. /\ p \in Begun /\ PlanHolds(p) /\ p # <<>>
      /\ Head(p) \notin {"create", "tellStart", "tellEnd"}
  BY <1>4, BegunPlans DEF Begun
<1>a. PICK c \in Call, r \in Take : c = page[u].overlay /\ r = page[u].take
  BY <1>3
<1>b. PICK b \in BOOLEAN : b = FALSE
  OBVIOUS
<1>6. PICK n : n = IF p = <<>> THEN Idle
                   ELSE [user |-> u, call |-> c, flag |-> b, ref |-> r, toggle |-> b, plan |-> p]
  OBVIOUS
<1>7. n \in FlowRecord /\ FlowHolds(n)' /\ n.plan = p /\ n.ref = r
  <2>1. /\ r \in User \cup Take \cup {0}
        /\ p \in Begun \cup {<<>>} /\ c \in Call \cup {None}
    BY <1>5
  <2>2. /\ p = <<"find">> \/ c \in Call
        /\ Has(p, "upload") \/ Has(p, "record") => r \in Take
    OBVIOUS
  <2>3. QED BY <1>5, <1>6, <2>1, <2>2, BegunFlow
<1>8. flow' = [flow EXCEPT ![f] = n]
  <2>1. n = [user |-> u, call |-> c, flag |-> b, ref |-> r, toggle |-> b, plan |-> p]
    BY <1>5, <1>6
  <2>2. Idle = [user |-> None, call |-> None, flag |-> b, ref |-> 0, toggle |-> b, plan |-> <<>>]
    BY <1>b, Zenon DEF Idle
  <2>3. Filled(Idle, u, c, r, p) = n
    BY <2>1, <2>2, FilledIn
  <2>4. flow' = [flow EXCEPT ![f] = Filled(Idle, u, c, r, p)]
    BY <1>4, <1>a DEF ReceiveAndFlush, Filled
  <2>5. QED BY <2>3, <2>4
<1>9. QED BY <1>1, <1>5, <1>7, <1>8, <1>a

---------------------------------------------------------------------------
(* What the pages become.                                                  *)

(* A request changes the page of its user when he joins, or records. *)
LEMMA ServePages ==
  ASSUME CallsTypeOK, FlowsHold, NEW f \in Flow, Serve(f)
  PROVE  /\ page' \in [User -> PageRecord]
         /\ \A v \in User :
              /\ page'[v].banner = page[v].banner /\ page'[v].ring = page[v].ring
              /\ \/ page'[v].overlay = page[v].overlay
                 \/ JoinAnswered(f) /\ v = flow[f].user /\ page'[v].overlay = flow[f].call
              /\ \/ page'[v].take \in {page[v].take, 0}
                 \/ Record(f) /\ v = flow[f].user /\ page'[v].take = flow[f].ref
<1>t. page \in [User -> PageRecord] /\ flow[f] \in FlowRecord /\ FlowHolds(flow[f])
  BY DEF CallsTypeOK, FlowsHold
<1>1. CASE page' = page
  BY <1>t, <1>1
<1>2. CASE JoinAnswered(f)
  <2>1. /\ flow[f].user \in User /\ flow[f].call \in Call /\ flow[f].flag \in BOOLEAN
    BY <1>t, <1>2 DEF JoinAnswered, At, FlowHolds, FlowRecord
  <2>2. PICK u \in User, c \in Call, b \in BOOLEAN :
          u = flow[f].user /\ c = flow[f].call /\ b = flow[f].flag
    BY <2>1
  <2>3. PICK r : r = [page[u] EXCEPT !.overlay = c, !.badge = b, !.take = 0]
    OBVIOUS
  <2>4. page' = [page EXCEPT ![u] = r]
    BY <1>2, <2>2, <2>3 DEF JoinAnswered
  <2>5. r \in PageRecord /\ r.overlay = c /\ r.take = 0 /\ r.banner = page[u].banner
        /\ r.ring = page[u].ring
    BY <1>t, <2>3 DEF PageRecord
  <2>6. QED BY <1>t, <1>2, <2>2, <2>4, <2>5
<1>3. CASE Record(f) /\ page' # page
  <2>1. flow[f].user \in User /\ flow[f].ref \in Take
    BY <1>t, <1>3 DEF Record, At, FlowHolds, Has, PlanHolds
  <2>2. PICK u \in User, t \in Take : u = flow[f].user /\ t = flow[f].ref
    BY <2>1
  <2>3. PICK r : r = [page[u] EXCEPT !.take = t]
    OBVIOUS
  <2>4. page' = [page EXCEPT ![u] = r]
    BY <1>3, <2>2, <2>3 DEF Record
  <2>5. r \in PageRecord /\ r.overlay = page[u].overlay /\ r.take = t /\ r.banner = page[u].banner
        /\ r.ring = page[u].ring
    BY <1>t, <2>3 DEF PageRecord
  <2>6. QED BY <1>t, <1>3, <2>2, <2>4, <2>5
<1>4. page' = page \/ JoinAnswered(f) \/ Record(f)
  BY DEF Serve, Find, Create, TellStart, RingDirectMessage, Decline, GrantScreenshare, CheckRecording,
         SetRecording, TellRecording, UploadRecording, Leave, EndCall, TellEnd, Fail
<1>5. QED BY <1>1, <1>2, <1>3, <1>4

(* A click changes the page that is clicked. *)
LEMMA ClickPages ==
  ASSUME CallsTypeOK, NEW f \in Flow, NEW u \in User, Click(f, u)
  PROVE  /\ page' \in [User -> PageRecord]
         /\ \A v \in User :
              /\ page'[v].banner = page[v].banner /\ page'[v].ring \in {page[v].ring, None}
              /\ \/ page'[v].overlay = page[v].overlay
                 \/ v = u /\ page'[v].overlay = None
              /\ page'[v].take \in {page[v].take, 0}
         /\ (StopRecording(f, u) \/ \E zero \in BOOLEAN : HangUp(f, u, zero)) => page'[u].take = 0
<1> DEFINE Hangs == \E zero \in BOOLEAN : HangUp(f, u, zero)
<1>t. page \in [User -> PageRecord] /\ page[u] \in PageRecord
  BY DEF CallsTypeOK
<1>n. None \in Call \cup {None} /\ 0 \in {0} \cup Take /\ FALSE \in BOOLEAN
  OBVIOUS
<1>1. ASSUME NEW r \in PageRecord, page' = [page EXCEPT ![u] = r],
             r.banner = page[u].banner, r.ring \in {page[u].ring, None},
             r.overlay \in {page[u].overlay, None}, r.take \in {page[u].take, 0}
      PROVE  /\ page' \in [User -> PageRecord]
             /\ \A v \in User :
                  /\ page'[v].banner = page[v].banner /\ page'[v].ring \in {page[v].ring, None}
                  /\ \/ page'[v].overlay = page[v].overlay
                     \/ v = u /\ page'[v].overlay = None
                  /\ page'[v].take \in {page[v].take, 0}
             /\ page'[u] = r
  BY <1>t, <1>1
<1>2. CASE Accept(f, u) \/ PressDecline(f, u)
  <2>1. PICK r : r = [page[u] EXCEPT !.ring = None]
    OBVIOUS
  <2>2. page' = [page EXCEPT ![u] = r]
    BY <1>2, <2>1 DEF Accept, PressDecline
  <2>3. r \in PageRecord /\ r.banner = page[u].banner /\ r.ring = None /\ r.take = page[u].take
        /\ r.overlay = page[u].overlay
    BY <1>t, <2>1 DEF PageRecord
  <2>4. ~StopRecording(f, u) /\ ~Hangs
    BY <1>2, <1>t, <2>2, <2>3 DEF StopRecording, HangUp, Begin, Accept, PressDecline
  <2>5. QED BY <1>1, <2>2, <2>3, <2>4
<1>3. CASE StopRecording(f, u)
  <2>1. PICK r : r = [page[u] EXCEPT !.take = 0]
    OBVIOUS
  <2>2. page' = [page EXCEPT ![u] = r]
    BY <1>3, <2>1 DEF StopRecording
  <2>3. r \in PageRecord /\ r.banner = page[u].banner /\ r.ring = page[u].ring /\ r.take = 0
        /\ r.overlay = page[u].overlay
    BY <1>t, <2>1 DEF PageRecord
  <2>5. QED BY <1>1, <2>2, <2>3
<1>4. CASE Hangs
  <2>1. PICK r : r = [page[u] EXCEPT !.overlay = None, !.badge = FALSE, !.take = 0]
    OBVIOUS
  <2>2. page' = [page EXCEPT ![u] = r]
    BY <1>4, <2>1 DEF HangUp
  <2>3. r \in PageRecord /\ r.banner = page[u].banner /\ r.ring = page[u].ring /\ r.take = 0
        /\ r.overlay = None
    BY <1>t, <2>1 DEF PageRecord
  <2>5. QED BY <1>1, <2>2, <2>3
<1>5. CASE page' = page /\ ~StopRecording(f, u) /\ ~Hangs
  BY <1>t, <1>5
<1>6. StartCall(f, u) \/ StartRecording(f, u) \/ (\E v \in User : PressGrant(f, u, v)) => page' = page
  BY DEF StartCall, StartRecording, PressGrant
<1>7. QED BY <1>2, <1>3, <1>4, <1>5, <1>6 DEF Click

(* A page that reads its next event. *)
LEMMA ReadPages ==
  ASSUME CallsTypeOK, NEW u \in User, Receive(u) \/ \E f \in Flow : ReceiveAndFlush(f, u)
  PROVE  /\ mail[u] # <<>> /\ Head(mail[u]) \in Event
         /\ mail' \in [User -> Seq(Event)] /\ mail'[u] = Tail(mail[u])
         /\ \A v \in User \ {u} : mail'[v] = mail[v] /\ page'[v] = page[v]
         /\ page' \in [User -> PageRecord]
         /\ page'[u].overlay = page[u].overlay
         /\ page'[u].banner = Shown(page[u], Head(mail[u])).banner
         /\ page'[u].ring = Shown(page[u], Head(mail[u])).ring
         /\ page'[u].take \in {page[u].take, 0}
         /\ (\E f \in Flow : ReceiveAndFlush(f, u)) => page'[u].take = 0
<1>t. page \in [User -> PageRecord] /\ page[u] \in PageRecord /\ mail \in [User -> Seq(Event)]
  BY DEF CallsTypeOK
<1>1. mail[u] # <<>> /\ mail' = [mail EXCEPT ![u] = Tail(mail[u])]
  BY DEF Receive, ReceiveAndFlush, Heard
<1>2. Head(mail[u]) \in Event /\ Tail(mail[u]) \in Seq(Event)
  BY <1>t, <1>1
<1>3. /\ mail' \in [User -> Seq(Event)] /\ mail'[u] = Tail(mail[u])
      /\ \A v \in User \ {u} : mail'[v] = mail[v]
  BY <1>t, <1>1, <1>2
<1>4. PICK s : s = Shown(page[u], Head(mail[u]))
  OBVIOUS
<1>5. s \in PageRecord /\ s.overlay = page[u].overlay /\ s.take = page[u].take
  BY <1>t, <1>2, <1>4, ShownTypes
<1>6. PICK r : r = [s EXCEPT !.take = 0]
  OBVIOUS
<1>7. /\ r \in PageRecord /\ r.overlay = s.overlay /\ r.banner = s.banner /\ r.ring = s.ring
      /\ r.take = 0
  BY <1>5, <1>6 DEF PageRecord
<1>8. ASSUME NEW f \in Flow, ReceiveAndFlush(f, u)
      PROVE  page' = [page EXCEPT ![u] = r]
  BY <1>4, <1>6, <1>8 DEF ReceiveAndFlush
<1>9. CASE \E f \in Flow : ReceiveAndFlush(f, u)
  BY <1>t, <1>1, <1>2, <1>3, <1>4, <1>5, <1>7, <1>8, <1>9
<1>10. CASE Receive(u) /\ ~\E f \in Flow : ReceiveAndFlush(f, u)
  <2>1. page' = [page EXCEPT ![u] = s]
    BY <1>4, <1>10 DEF Receive
  <2>2. QED BY <1>t, <1>1, <1>2, <1>3, <1>4, <1>5, <1>10, <2>1
<1>11. QED BY <1>9, <1>10

(* A page whose prompt is dismissed. *)
LEMMA DismissPages ==
  ASSUME CallsTypeOK, NEW u \in User, Dismiss(u)
  PROVE  /\ page' \in [User -> PageRecord]
         /\ \A v \in User :
              /\ page'[v].banner = page[v].banner /\ page'[v].ring \in {page[v].ring, None}
              /\ page'[v].overlay = page[v].overlay /\ page'[v].take = page[v].take
<1>t. page \in [User -> PageRecord] /\ page[u] \in PageRecord
  BY DEF CallsTypeOK
<1>1. PICK r : r = [page[u] EXCEPT !.ring = None]
  OBVIOUS
<1>2. page' = [page EXCEPT ![u] = r]
  BY <1>1 DEF Dismiss
<1>3. r \in PageRecord /\ r.banner = page[u].banner /\ r.ring = None /\ r.take = page[u].take
      /\ r.overlay = page[u].overlay
  BY <1>t, <1>1 DEF PageRecord
<1>4. QED BY <1>t, <1>2, <1>3

(* A page that loses its mail or whose banner is fetched: only its banner  *)
(* may change.                                                             *)
LEMMA LookPages ==
  ASSUME CallsTypeOK, NEW u \in User, Looks(u)
  PROVE  /\ page' \in [User -> PageRecord]
         /\ \A v \in User :
              /\ page'[v].ring = page[v].ring
              /\ page'[v].overlay = page[v].overlay /\ page'[v].take = page[v].take
              /\ v # u => page'[v] = page[v]
         /\ mail' \in [User -> Seq(Event)] /\ clicks' \in {clicks, clicks + 1}
         /\ flow' = flow /\ uploads' = uploads /\ answered' = answered /\ muddled' = muddled
<1>t. page \in [User -> PageRecord] /\ page[u] \in PageRecord /\ look[u] \in LookRecord
      /\ mail \in [User -> Seq(Event)]
  BY DEF CallsTypeOK
<1>1. CASE LoseMail(u)
  BY <1>t, <1>1 DEF LoseMail
<1>2. CASE ReadActive(u)
  BY <1>t, <1>2 DEF ReadActive
<1>3. CASE TakeActive(u)
  <2>1. PICK r : r = [page[u] EXCEPT !.banner = look[u].answer]
    OBVIOUS
  <2>2. page' = [page EXCEPT ![u] = r]
    BY <1>3, <2>1 DEF TakeActive
  <2>3. r \in PageRecord /\ r.ring = page[u].ring /\ r.take = page[u].take
        /\ r.overlay = page[u].overlay
    BY <1>t, <2>1 DEF PageRecord, LookRecord
  <2>4. QED BY <1>t, <1>3, <2>2, <2>3 DEF TakeActive
<1>4. QED BY <1>1, <1>2, <1>3 DEF Looks

(* Requests and clicks leave the fetches of the banners alone, and the     *)
(* prompts that went astray are not forgotten.                             *)
LEMMA LooksKept ==
  ASSUME CallsTypeOK
  PROVE  /\ \A f \in Flow : Serve(f) => look' = look /\ misled' = misled /\ stray \subseteq stray'
         /\ \A f \in Flow, u \in User : Click(f, u) => UNCHANGED <<look, misled, stray>>
         /\ \A u \in User : Dismiss(u) => UNCHANGED <<look, misled, stray>>
<1>1. ASSUME NEW f \in Flow, Serve(f)
      PROVE  look' = look /\ misled' = misled /\ stray \subseteq stray'
  <2>1. CASE RingDirectMessage(f)
    BY <2>1 DEF RingDirectMessage, banners
  <2>2. CASE ~RingDirectMessage(f)
    BY <1>1, <2>2 DEF Serve, Find, Create, TellStart, JoinAnswered, Decline, GrantScreenshare,
          CheckRecording, SetRecording, TellRecording, Record, UploadRecording, Leave, EndCall,
          TellEnd, Fail, banners
  <2>3. QED BY <2>1, <2>2
<1>2. ASSUME NEW f \in Flow, NEW u \in User, Click(f, u)
      PROVE  UNCHANGED <<look, misled, stray>>
  BY <1>2 DEF Click, StartCall, Accept, PressDecline, StartRecording, StopRecording, HangUp,
              PressGrant, banners
<1>3. ASSUME NEW u \in User, Dismiss(u)
      PROVE  UNCHANGED <<look, misled, stray>>
  BY <1>3 DEF Dismiss, banners
<1>4. QED BY <1>1, <1>2, <1>3

---------------------------------------------------------------------------
(* What the broadcasts are.                                                *)

(* A request that broadcasts its event m to some. *)
Sends(users, m) ==
  /\ users \subseteq User /\ m \in Event /\ mail' \in [User -> Seq(Event)]
  /\ \A u \in User : mail'[u] = IF u \in users THEN Append(mail[u], m) ELSE mail[u]

(* A broadcast does. *)
LEMMA SendsIt ==
  ASSUME CallsTypeOK, NEW users \in SUBSET User,
         NEW e \in {"started", "ended", "ring", "stop", "recording"},
         NEW c \in Call, NEW b \in BOOLEAN, ToUsers(users, Msg(e, c, b))
  PROVE  Sends(users, Msg(e, c, b))
<1>1. /\ mail' \in [User -> Seq(Event)] /\ Msg(e, c, b) \in Event
      /\ \A u \in User : mail'[u] = IF u \in users THEN Append(mail[u], Msg(e, c, b)) ELSE mail[u]
  BY MailTypes
<1>2. QED BY <1>1 DEF Sends

(* Which request sends which event to whom. *)
LEMMA ServeMail ==
  ASSUME CallsTypeOK, FlowsHold, NEW f \in Flow, Serve(f)
  PROVE  \/ mail' = mail
         \/ Find(f) /\ \E c \in Active : Sends(User, Msg("stop", c, FALSE)) /\ answered' = answered \cup {c}
         \/ flow[f].call \in Call
            /\ \/ Decline(f) /\ Sends(User, Msg("stop", flow[f].call, FALSE))
               \/ TellStart(f) /\ Sends(User, Msg("started", flow[f].call, FALSE))
               \/ RingDirectMessage(f) /\ Sends(User \ {flow[f].user}, Msg("ring", flow[f].call, FALSE))
               \/ TellRecording(f) /\ Sends(User, Msg("recording", flow[f].call, flow[f].flag))
               \/ TellEnd(f) /\ Sends(User, Msg("ended", flow[f].call, FALSE))
<1>t. flow[f] \in FlowRecord /\ FlowHolds(flow[f])
  BY DEF CallsTypeOK, FlowsHold
<1>2. CASE Find(f) /\ mail' # mail
  <2>1. PICK c \in Active : ToUsers(User, Msg("stop", c, FALSE)) /\ answered' = answered \cup {c}
    BY <1>2 DEF Find, ToChannel
  <2>2. Sends(User, Msg("stop", c, FALSE))
    BY SendsIt, <2>1 DEF Active
  <2>3. QED BY <1>2, <2>1, <2>2
<1>3. CASE Decline(f)
  <2>1. flow[f].call \in Call /\ ToUsers(User, Msg("stop", flow[f].call, FALSE))
    BY <1>t, <1>3 DEF Decline, At, FlowHolds, ToChannel
  <2>2. QED BY SendsIt, <1>3, <2>1
<1>4. CASE TellStart(f)
  <2>1. flow[f].call \in Call /\ ToUsers(User, Msg("started", flow[f].call, FALSE))
    BY <1>t, <1>4 DEF TellStart, At, FlowHolds, ToChannel
  <2>2. QED BY SendsIt, <1>4, <2>1
<1>5. CASE RingDirectMessage(f)
  <2>1. flow[f].call \in Call /\ ToUsers(User \ {flow[f].user}, Msg("ring", flow[f].call, FALSE))
    BY <1>t, <1>5 DEF RingDirectMessage, At, FlowHolds
  <2>2. QED BY SendsIt, <1>5, <2>1
<1>6. CASE TellRecording(f)
  <2>1. flow[f].call \in Call /\ flow[f].flag \in BOOLEAN
        /\ ToUsers(User, Msg("recording", flow[f].call, flow[f].flag))
    BY <1>t, <1>6 DEF TellRecording, At, FlowHolds, FlowRecord, ToChannel
  <2>2. QED BY SendsIt, <1>6, <2>1
<1>7. CASE TellEnd(f)
  <2>1. flow[f].call \in Call /\ ToUsers(User, Msg("ended", flow[f].call, FALSE))
    BY <1>t, <1>7 DEF TellEnd, At, FlowHolds, ToChannel
  <2>2. QED BY SendsIt, <1>7, <2>1
<1>8. \/ mail' = mail \/ Find(f) \/ Decline(f) \/ TellStart(f) \/ RingDirectMessage(f)
      \/ TellRecording(f) \/ TellEnd(f)
  BY DEF Serve, Create, JoinAnswered, GrantScreenshare, CheckRecording, SetRecording, Record,
         UploadRecording, Leave, EndCall, Fail
<1>9. QED BY <1>2, <1>3, <1>4, <1>5, <1>6, <1>7, <1>8

---------------------------------------------------------------------------
(* The rooms, and the types.                                               *)

RoomsHold ==
  /\ room \in [Call -> SUBSET User] /\ share \in [Call -> SUBSET User]
  /\ \A c \in Call : share[c] \subseteq room[c] /\ (call[c].state = "none" => room[c] = {})
  /\ \A u \in User : page[u].overlay # None => u \in room[page[u].overlay]

(* Nobody is in the room of a call that was never created, and a page with *)
(* an overlay is in that room.                                             *)
LEMMA RoomsStep ==
  ASSUME CallsTypeOK, FlowsHold, [CallsNext]_vars
  PROVE  RoomsHold'
<1>t. /\ RoomsHold /\ page \in [User -> PageRecord] /\ flow \in [Flow -> FlowRecord]
      /\ \A u \in User : page[u].overlay \in Call \cup {None}
  BY DEF CallsTypeOK, RoomsHold, PageRecord
<1>c. /\ CallsKept /\ call' \in [Call -> CallRecord]
      /\ \A c \in Call : call'[c].state = "none" => call[c].state = "none"
  BY RowsKept DEF CallsKept
<1>1. ASSUME room' = room, \A u \in User : page'[u].overlay \in {page[u].overlay, None},
             share' \in [Call -> SUBSET User], \A c \in Call : share'[c] \subseteq room[c]
      PROVE  RoomsHold'
  BY <1>t, <1>c, <1>1 DEF RoomsHold
<1>2. ASSUME NEW f \in Flow, JoinAnswered(f)
      PROVE  RoomsHold'
  <2>1. FlowHolds(flow[f]) /\ flow[f].plan # <<>> /\ Head(flow[f].plan) = "answer"
    BY <1>2 DEF FlowsHold, JoinAnswered, At
  <2>2. Has(flow[f].plan, "answer") /\ flow[f].user \in User
    BY <2>1 DEF Has, FlowHolds, PlanHolds
  <2>3. PICK u \in User, c \in Call : u = flow[f].user /\ c = flow[f].call
    BY <2>1, <2>2 DEF FlowHolds
  <2>4. call'[c].state # "none"
    BY <1>c, <2>1, <2>2, <2>3 DEF FlowHolds, CallsKept
  <2>5. /\ room' = [room EXCEPT ![c] = room[c] \cup {u}]
        /\ share' = [share EXCEPT ![c] = IF call[c].host = u THEN share[c] \cup {u} ELSE share[c]]
    BY <1>2, <2>3 DEF JoinAnswered
  <2>6. \A d \in Call : /\ room'[d] = IF d = c THEN room[d] \cup {u} ELSE room[d]
                        /\ share'[d] \subseteq room'[d]
    BY <1>t, <2>5 DEF RoomsHold
  <2>7. room' \in [Call -> SUBSET User] /\ share' \in [Call -> SUBSET User]
    BY <1>t, <2>5 DEF RoomsHold
  <2>8. \A v \in User : page'[v].overlay = page[v].overlay \/ (v = u /\ page'[v].overlay = c)
    BY <1>2, <2>3, ServePages DEF Serve
  <2>9. QED BY <1>t, <1>c, <2>4, <2>6, <2>7, <2>8 DEF RoomsHold
<1>3. ASSUME NEW f \in Flow, NEW u \in User, NEW zero \in BOOLEAN, HangUp(f, u, zero)
      PROVE  RoomsHold'
  <2>1. PICK c \in Call : c = page[u].overlay
    BY <1>t, <1>3 DEF HangUp
  <2>2. room' = [room EXCEPT ![c] = room[c] \ {u}] /\ share' = [share EXCEPT ![c] = share[c] \ {u}]
    BY <1>3, <2>1 DEF HangUp
  <2>3. page' = [page EXCEPT ![u] = [page[u] EXCEPT !.overlay = None, !.badge = FALSE, !.take = 0]]
    BY <1>3 DEF HangUp
  <2>4. page'[u].overlay = None /\ \A v \in User \ {u} : page'[v] = page[v]
    BY <1>t, <2>3 DEF PageRecord
  <2>5. \A d \in Call : /\ room'[d] = IF d = c THEN room[d] \ {u} ELSE room[d]
                        /\ share'[d] \subseteq room'[d]
    BY <1>t, <2>2 DEF RoomsHold
  <2>6. room' \in [Call -> SUBSET User] /\ share' \in [Call -> SUBSET User]
    BY <1>t, <2>2 DEF RoomsHold
  <2>7. QED BY <1>t, <1>c, <2>4, <2>5, <2>6 DEF RoomsHold
<1>4. ASSUME NEW f \in Flow, Serve(f), ~JoinAnswered(f)
      PROVE  RoomsHold'
  <2>1. \A v \in User : page'[v].overlay = page[v].overlay
    BY <1>4, ServePages
  <2>2. CASE GrantScreenshare(f)
    <3>1. room' = room /\ share' = [share EXCEPT ![flow[f].call] =
                               share[flow[f].call] \cup ({flow[f].ref} \cap room[flow[f].call])]
      BY <2>2 DEF GrantScreenshare
    <3>2. share' \in [Call -> SUBSET User] /\ \A c \in Call : share'[c] \subseteq room[c]
      BY <1>t, <3>1 DEF RoomsHold
    <3>3. QED BY <1>1, <2>1, <3>1, <3>2
  <2>3. CASE ~GrantScreenshare(f)
    <3>1. room' = room /\ share' = share
      BY <1>4, <2>3 DEF Serve, Find, Create, TellStart, RingDirectMessage, Decline, CheckRecording,
                SetRecording, TellRecording, Record, UploadRecording, Leave, EndCall, TellEnd, Fail
    <3>2. QED BY <1>1, <1>t, <2>1, <3>1 DEF RoomsHold
  <2>4. QED BY <2>2, <2>3
<1>5. ASSUME NEW f \in Flow, NEW u \in User, Click(f, u), ~\E zero \in BOOLEAN : HangUp(f, u, zero)
      PROVE  RoomsHold'
  <2>1. room' = room /\ share' = share
    BY <1>5 DEF Click, StartCall, Accept, PressDecline, StartRecording, StopRecording, PressGrant
  <2>2. \A v \in User : page'[v].overlay \in {page[v].overlay, None}
    BY <1>5, ClickPages
  <2>3. QED BY <1>1, <1>t, <2>1, <2>2 DEF RoomsHold
<1>6. ASSUME NEW u \in User, Receive(u) \/ \E f \in Flow : ReceiveAndFlush(f, u)
      PROVE  RoomsHold'
  <2>1. room' = room /\ share' = share
    BY <1>6 DEF Receive, ReceiveAndFlush
  <2>2. \A v \in User : page'[v].overlay = page[v].overlay
    BY <1>6, ReadPages
  <2>3. QED BY <1>1, <1>t, <2>1, <2>2 DEF RoomsHold
<1>7. ASSUME NEW u \in User, Dismiss(u)
      PROVE  RoomsHold'
  <2>1. room' = room /\ share' = share
    BY <1>7 DEF Dismiss
  <2>2. \A v \in User : page'[v].overlay = page[v].overlay
    BY <1>7, DismissPages
  <2>3. QED BY <1>1, <1>t, <2>1, <2>2 DEF RoomsHold
<1>8. CASE UNCHANGED vars
  BY <1>t, <1>8 DEF vars, RoomsHold
<1>9. ASSUME NEW u \in User, Looks(u)
      PROVE  RoomsHold'
  <2>1. room' = room /\ share' = share
    BY <1>9 DEF Looks, LoseMail, ReadActive, TakeActive
  <2>2. \A v \in User : page'[v].overlay = page[v].overlay
    BY <1>9, LookPages
  <2>3. QED BY <1>1, <1>t, <2>1, <2>2 DEF RoomsHold
<1>10. QED BY <1>2, <1>3, <1>4, <1>5, <1>6, <1>7, <1>8, <1>9 DEF CallsNext, Looks

(* What the histories and the banners' fetches range over. *)
LooksHold == /\ look \in [User -> LookRecord]
             /\ misled \subseteq User /\ stray \subseteq User \X Call

(* Every step leaves them there. *)
LEMMA LooksStep ==
  ASSUME CallsTypeOK, FlowsHold, [CallsNext]_vars
  PROVE  LooksHold'
<1>t. /\ LooksHold /\ \A u \in User : look[u] \in LookRecord /\ page[u] \in PageRecord
      /\ NoLook \in LookRecord
  BY DEF CallsTypeOK, LooksHold, NoLook, LookRecord
<1>1. ASSUME NEW f \in Flow, Serve(f)
      PROVE  LooksHold'
  <2>1. look' = look /\ misled' = misled
    BY <1>1, LooksKept
  <2>2. stray' \subseteq User \X Call
    <3>1. CASE RingDirectMessage(f)
      <4>1. flow[f].call \in Call
        BY <3>1 DEF RingDirectMessage, At, FlowsHold, FlowHolds
      <4>2. QED BY <1>t, <3>1, <4>1 DEF RingDirectMessage, LooksHold
    <3>2. CASE ~RingDirectMessage(f)
      BY <1>t, <1>1, <3>2 DEF Serve, Find, Create, TellStart, JoinAnswered, Decline,
            GrantScreenshare, CheckRecording, SetRecording, TellRecording, Record, UploadRecording,
            Leave, EndCall, TellEnd, Fail, LooksHold
    <3>3. QED BY <3>1, <3>2
  <2>3. QED BY <1>t, <2>1, <2>2 DEF LooksHold
<1>2. ASSUME NEW f \in Flow, NEW u \in User, Click(f, u)
      PROVE  LooksHold'
  BY <1>t, <1>2, LooksKept DEF LooksHold
<1>3. ASSUME NEW u \in User, Receive(u) \/ \E f \in Flow : ReceiveAndFlush(f, u)
      PROVE  LooksHold'
  <2>1. Heard(u, Head(mail[u]))
    BY <1>3 DEF Receive, ReceiveAndFlush
  <2>2. [look[u] EXCEPT !.passed = TRUE] \in LookRecord
    BY <1>t DEF LookRecord
  <2>3. look' = look \/ look' = [look EXCEPT ![u] = [look[u] EXCEPT !.passed = TRUE]]
    BY <2>1 DEF Heard
  <2>4. misled' \subseteq User /\ stray' = stray
    BY <1>t, <2>1 DEF Heard, LooksHold
  <2>5. QED BY <1>t, <2>2, <2>3, <2>4 DEF LooksHold
<1>4. ASSUME NEW u \in User, Dismiss(u)
      PROVE  LooksHold'
  BY <1>t, <1>4, LooksKept DEF LooksHold
<1>5. ASSUME NEW u \in User, LoseMail(u)
      PROVE  LooksHold'
  <2>1. PICK l : l = [look[u] EXCEPT !.passed = look[u].asked]
    OBVIOUS
  <2>2. look' = [look EXCEPT ![u] = l] /\ l \in LookRecord
    BY <1>t, <1>5, <2>1 DEF LoseMail, LookRecord
  <2>3. misled' \subseteq User /\ stray' \subseteq User \X Call
    BY <1>t, <1>5 DEF LoseMail, LooksHold
  <2>4. QED BY <1>t, <2>2, <2>3 DEF LooksHold
<1>6. ASSUME NEW u \in User, ReadActive(u)
      PROVE  LooksHold'
  <2>1. PICK c \in Call \cup {None} :
          look' = [look EXCEPT ![u] = [asked |-> TRUE, answer |-> c, passed |-> FALSE]]
    BY <1>6 DEF ReadActive, Active
  <2>2. [asked |-> TRUE, answer |-> c, passed |-> FALSE] \in LookRecord
    BY DEF LookRecord
  <2>3. QED BY <1>t, <1>6, <2>1, <2>2 DEF ReadActive, LooksHold
<1>7. ASSUME NEW u \in User, TakeActive(u)
      PROVE  LooksHold'
  <2>1. look' = [look EXCEPT ![u] = NoLook] /\ misled' \subseteq User /\ stray' = stray
    BY <1>t, <1>7 DEF TakeActive, LooksHold
  <2>2. QED BY <1>t, <2>1 DEF LooksHold
<1>8. CASE UNCHANGED vars
  BY <1>t, <1>8 DEF vars, LooksHold
<1>9. QED BY <1>1, <1>2, <1>3, <1>4, <1>5, <1>6, <1>7, <1>8 DEF CallsNext

(* Every step leaves every variable in its set, and flows that hold. *)
LEMMA CallsTypesStep ==
  ASSUME CallsTypeOK, FlowsHold, [CallsNext]_vars
  PROVE  CallsTypeOK' /\ FlowsHold'
<1> DEFINE CountsHold == /\ uploads \in [Take -> Nat] /\ clicks \in 0 .. MaxRequests
                         /\ failures \in 0 .. MaxFailures
                         /\ answered \subseteq Call /\ muddled \in BOOLEAN
           Kept == /\ page' \in [User -> PageRecord] /\ mail' \in [User -> Seq(Event)]
                   /\ flow' \in [Flow -> FlowRecord] /\ FlowsHold'
<1>t. /\ CountsHold /\ page \in [User -> PageRecord] /\ mail \in [User -> Seq(Event)]
      /\ flow \in [Flow -> FlowRecord] /\ MaxRequests \in Nat /\ MaxFailures \in Nat
  BY CallsAssumption DEF CallsTypeOK
<1>c. CallsKept /\ call' \in [Call -> CallRecord]
  BY RowsKept
<1>r. RoomsHold'
  BY RoomsStep
<1>1. ASSUME NEW f \in Flow, Serve(f)
      PROVE  Kept /\ CountsHold'
  <2>1. flow[f].plan # <<>> /\ \E n \in FlowRecord : flow' = [flow EXCEPT ![f] = n] /\ FlowHolds(n)'
    BY <1>1, ServeFlow
  <2>2. flow' \in [Flow -> FlowRecord] /\ FlowsHold'
    BY <1>c, <2>1, FlowsKept
  <2>3. page' \in [User -> PageRecord]
    BY <1>1, ServePages
  <2>4. mail' \in [User -> Seq(Event)]
    BY <1>1, <1>t, ServeMail DEF Sends
  <2>5. uploads' \in [Take -> Nat]
    <3>1. CASE UploadRecording(f)
      <4>1. uploads' = [uploads EXCEPT ![flow[f].ref] = uploads[flow[f].ref] + 1]
        BY <3>1 DEF UploadRecording
      <4>2. \A t \in Take : uploads[t] + 1 \in Nat
        BY <1>t
      <4>3. QED BY <1>t, <4>1, <4>2
    <3>2. CASE ~UploadRecording(f)
      <4>1. uploads' = uploads
        BY <1>1, <3>2 DEF Serve, Find, Create, TellStart, RingDirectMessage, JoinAnswered, Decline,
              GrantScreenshare, CheckRecording, SetRecording, TellRecording, Record, Leave, EndCall,
              TellEnd, Fail
      <4>2. QED BY <1>t, <4>1
    <3>3. QED BY <3>1, <3>2
  <2>6. clicks' = clicks /\ failures' \in 0 .. MaxFailures
    <3>1. CASE Fail(f)
      BY <1>t, <3>1 DEF Fail
    <3>2. CASE ~Fail(f)
      <4>1. clicks' = clicks /\ failures' = failures
        BY <1>1, <3>2 DEF Serve, Find, Create, TellStart, RingDirectMessage, JoinAnswered, Decline,
              GrantScreenshare, CheckRecording, SetRecording, TellRecording, Record, UploadRecording,
              Leave, EndCall, TellEnd, Continue
      <4>2. QED BY <1>t, <4>1
    <3>3. QED BY <3>1, <3>2
  <2>7. answered' \subseteq Call
    <3>1. CASE Find(f)
      BY <1>t, <3>1 DEF Find, Active
    <3>2. CASE Decline(f)
      <4>1. FlowHolds(flow[f])
        BY DEF FlowsHold
      <4>2. flow[f].call \in Call
        BY <3>2, <4>1 DEF Decline, At, FlowHolds
      <4>3. QED BY <1>t, <3>2, <4>2 DEF Decline
    <3>3. CASE ~Find(f) /\ ~Decline(f)
      <4>1. answered' = answered
        BY <1>1, <3>3 DEF Serve, Create, TellStart, RingDirectMessage, JoinAnswered,
              GrantScreenshare, CheckRecording, SetRecording, TellRecording, Record, UploadRecording,
              Leave, EndCall, TellEnd, Fail
      <4>2. QED BY <1>t, <4>1
    <3>4. QED BY <3>1, <3>2, <3>3
  <2>8. muddled' \in BOOLEAN
    <3>1. muddled' = muddled \/ \E b \in BOOLEAN : muddled' = b
      BY <1>1, Zenon DEF Serve, Find, Create, TellStart, RingDirectMessage, JoinAnswered, Decline,
              GrantScreenshare, CheckRecording, SetRecording, TellRecording, Record, UploadRecording,
              Leave, EndCall, TellEnd, Fail
    <3>2. QED BY <1>t, <3>1
  <2>9. QED BY <1>t, <2>2, <2>3, <2>4, <2>5, <2>6, <2>7, <2>8
<1>2. ASSUME NEW f \in Flow, NEW u \in User, Click(f, u)
      PROVE  Kept /\ CountsHold'
  <2>1. /\ clicks' = clicks + 1 /\ clicks < MaxRequests
        /\ \E n \in FlowRecord : flow' = [flow EXCEPT ![f] = n] /\ FlowHolds(n)'
    BY <1>2, ClickFlow
  <2>2. flow' \in [Flow -> FlowRecord] /\ FlowsHold'
    BY <1>c, <2>1, FlowsKept
  <2>3. page' \in [User -> PageRecord]
    BY <1>2, ClickPages
  <2>4. mail' = mail /\ uploads' = uploads /\ failures' = failures /\ answered' = answered
        /\ muddled' = muddled
    BY <1>2 DEF Click, StartCall, Accept, PressDecline, StartRecording, StopRecording, HangUp,
                PressGrant, Begin
  <2>5. QED BY <1>t, <2>1, <2>2, <2>3, <2>4
<1>3. ASSUME NEW f \in Flow, NEW u \in User, ReceiveAndFlush(f, u)
      PROVE  Kept /\ CountsHold'
  <2>1. \E n \in FlowRecord : flow' = [flow EXCEPT ![f] = n] /\ FlowHolds(n)'
    BY <1>3, FlushFlow
  <2>2. flow' \in [Flow -> FlowRecord] /\ FlowsHold'
    BY <1>c, <2>1, FlowsKept
  <2>3. page' \in [User -> PageRecord] /\ mail' \in [User -> Seq(Event)]
    BY <1>3, ReadPages
  <2>4. QED BY <1>t, <1>3, <2>2, <2>3 DEF ReceiveAndFlush, Heard
<1>4. ASSUME NEW u \in User, Receive(u) \/ Dismiss(u)
      PROVE  Kept /\ CountsHold'
  <2>1. flow' = flow
    BY <1>4 DEF Receive, Dismiss
  <2>2. flow' \in [Flow -> FlowRecord] /\ FlowsHold'
    BY <1>c, <2>1, FlowsKept
  <2>3. page' \in [User -> PageRecord]
    BY <1>4, ReadPages, DismissPages
  <2>4. mail' \in [User -> Seq(Event)]
    BY <1>t, <1>4, ReadPages DEF Dismiss
  <2>5. QED BY <1>t, <1>4, <2>2, <2>3, <2>4 DEF Receive, Dismiss
<1>5. ASSUME UNCHANGED vars
      PROVE  Kept /\ CountsHold'
  <2>1. flow' = flow
    BY <1>5 DEF vars
  <2>2. FlowsHold'
    BY <1>c, <2>1, FlowsKept
  <2>3. muddled' \in BOOLEAN
    BY <1>t, <1>5, Zenon DEF vars
  <2>4. /\ page' = page /\ mail' = mail /\ uploads' = uploads /\ clicks' = clicks
        /\ failures' = failures /\ answered' = answered
    BY <1>5 DEF vars
  <2>5. QED BY <1>t, <2>1, <2>2, <2>3, <2>4
<1>6. ASSUME NEW u \in User, Looks(u)
      PROVE  Kept /\ CountsHold'
  <2>1. /\ page' \in [User -> PageRecord] /\ mail' \in [User -> Seq(Event)]
        /\ flow' = flow /\ uploads' = uploads /\ answered' = answered /\ muddled' = muddled
    BY <1>6, LookPages
  <2>2. flow' \in [Flow -> FlowRecord] /\ FlowsHold'
    BY <1>c, <2>1, FlowsKept
  <2>3. clicks' \in 0 .. MaxRequests /\ failures' \in 0 .. MaxFailures
    BY <1>t, <1>6 DEF Looks, LoseMail, ReadActive, TakeActive, Bounded
  <2>4. muddled' \in BOOLEAN
    BY <1>t, <2>1, Zenon
  <2>5. QED BY <1>t, <2>1, <2>2, <2>3, <2>4
<1> HIDE DEF Kept, CountsHold
<1>7. Kept /\ CountsHold'
  BY <1>1, <1>2, <1>3, <1>4, <1>5, <1>6 DEF CallsNext, Looks
<1>8. LooksHold'
  BY LooksStep
<1>9. QED BY <1>c, <1>r, <1>7, <1>8 DEF CallsTypeOK, RoomsHold, LooksHold, Kept, CountsHold

---------------------------------------------------------------------------
(* Recordings are handed on.                                               *)

(* Who may have a recording, and when he has it. *)
LEMMA Hands ==
  /\ \A x \in Holder : \/ \E u \in User : x = <<"page", u>>
                       \/ \E f \in Flow : x = <<"flow", f>>
  /\ \A u \in User : <<"page", u>> \in Holder
  /\ \A f \in Flow : <<"flow", f>> \in Holder
  /\ \A u, f : <<"page", u>> # <<"flow", f>>
  /\ \A u, v : <<"page", u>> = <<"page", v>> => u = v
  /\ \A f, g : <<"flow", f>> = <<"flow", g>> => f = g
  /\ \A u, t : Holds(<<"page", u>>, t) <=> page[u].take = t
  /\ \A f, t : Holds(<<"flow", f>>, t) <=> Carries(flow[f], t)
  /\ \A u, t : Holds(<<"page", u>>, t)' <=> page'[u].take = t
  /\ \A f, t : Holds(<<"flow", f>>, t)' <=> Carries(flow'[f], t)
<1>1. \A x \in Holder : \/ \E u \in User : x = <<"page", u>>
                       \/ \E f \in Flow : x = <<"flow", f>>
  BY DEF Holder
<1>2. /\ \A u \in User : <<"page", u>> \in Holder
      /\ \A f \in Flow : <<"flow", f>> \in Holder
  BY DEF Holder
<1>3. /\ \A u, f : <<"page", u>> # <<"flow", f>>
      /\ \A u, v : <<"page", u>> = <<"page", v>> => u = v
      /\ \A f, g : <<"flow", f>> = <<"flow", g>> => f = g
  OBVIOUS
<1>4. /\ \A u, t : Holds(<<"page", u>>, t) <=> page[u].take = t
      /\ \A f, t : Holds(<<"flow", f>>, t) <=> Carries(flow[f], t)
  BY DEF Holds, Carries
<1>5. /\ \A u, t : Holds(<<"page", u>>, t)' <=> page'[u].take = t
      /\ \A f, t : Holds(<<"flow", f>>, t)' <=> Carries(flow'[f], t)
  BY DEF Holds, Carries
<1>6. QED BY <1>1, <1>2, <1>3, <1>4, <1>5

(* Nobody gets a recording that he did not have. *)
LEMMA NothingGained ==
  ASSUME CallsTypeOK, CarriedOnce, uploads' = uploads, clicks' \in {clicks, clicks + 1},
         \A x \in Holder, t \in Take : Holds(x, t)' => Holds(x, t)
  PROVE  CarriedOnce'
<1>1. \A t \in Take : t > clicks' => t > clicks
  BY DEF CallsTypeOK, Take
<1>2. QED BY <1>1 DEF CarriedOnce

(* A recording that begins. *)
LEMMA Begins ==
  ASSUME CallsTypeOK, CarriedOnce, uploads' = uploads, clicks' = clicks + 1,
         NEW y \in Holder, NEW t0 \in Take, t0 = clicks + 1,
         \A x \in Holder, t \in Take : Holds(x, t)' => Holds(x, t) \/ (x = y /\ t = t0)
  PROVE  CarriedOnce'
<1>1. /\ \A t \in Take : t > clicks' => t > clicks /\ t # t0
      /\ t0 > clicks
  BY DEF CallsTypeOK, Take
<1>2. uploads[t0] = 0 /\ \A x \in Holder : ~Holds(x, t0)
  BY <1>1 DEF CarriedOnce
<1>3. QED BY <1>1, <1>2 DEF CarriedOnce

(* A recording that is handed on. *)
LEMMA HandedOn ==
  ASSUME CallsTypeOK, CarriedOnce, uploads' = uploads, clicks' \in {clicks, clicks + 1},
         NEW z \in Holder, NEW y \in Holder, NEW t0 \in Take, Holds(z, t0), ~Holds(z, t0)',
         \A x \in Holder, t \in Take : Holds(x, t)' => Holds(x, t) \/ (x = y /\ t = t0)
  PROVE  CarriedOnce'
<1>1. \A t \in Take : t > clicks' => t > clicks
  BY DEF CallsTypeOK, Take
<1>2. \A x \in Holder : Holds(x, t0) => x = z
  BY DEF CarriedOnce
<1>3. \A x \in Holder : Holds(x, t0)' => x = y
  BY <1>2
<1>4. uploads[t0] = 0 /\ ~(t0 > clicks)
  BY DEF CarriedOnce
<1>5. QED BY <1>1, <1>3, <1>4 DEF CarriedOnce

(* A recording that is posted. *)
LEMMA IsPosted ==
  ASSUME CallsTypeOK, CarriedOnce, clicks' = clicks,
         NEW z \in Holder, NEW t0 \in Take, Holds(z, t0), ~Holds(z, t0)',
         uploads' = [uploads EXCEPT ![t0] = uploads[t0] + 1],
         \A x \in Holder, t \in Take : Holds(x, t)' => Holds(x, t)
  PROVE  CarriedOnce'
<1>1. uploads[t0] = 0 /\ ~(t0 > clicks) /\ \A x \in Holder : Holds(x, t0) => x = z
  BY DEF CarriedOnce
<1>2. uploads'[t0] = 1 /\ \A t \in Take \ {t0} : uploads'[t] = uploads[t]
  BY <1>1 DEF CallsTypeOK
<1>3. \A x \in Holder : ~Holds(x, t0)'
  BY <1>1
<1>4. QED BY <1>1, <1>2, <1>3 DEF CarriedOnce

(* Every step hands a recording on, or begins or posts it, or leaves it    *)
(* where it was or forgotten.                                              *)
LEMMA CarriedStep ==
  ASSUME CallsTypeOK, FlowsHold, CarriedOnce, [CallsNext]_vars
  PROVE  CarriedOnce'
<1>t. /\ page \in [User -> PageRecord] /\ flow \in [Flow -> FlowRecord] /\ 0 \notin Take
      /\ \A u \in User : page[u].take \in {0} \cup Take
  BY DEF CallsTypeOK, PageRecord, Take
<1>1. ASSUME NEW f \in Flow, Serve(f)
      PROVE  CarriedOnce'
  <2>1. PICK n \in FlowRecord :
          /\ flow' = [flow EXCEPT ![f] = n]
          /\ \A s \in {"upload", "record"} :
               Has(n.plan, s) => Has(flow[f].plan, s) /\ n.ref = flow[f].ref
          /\ Head(flow[f].plan) \in {"upload", "record"} =>
               ~Has(n.plan, "upload") /\ ~Has(n.plan, "record")
    BY <1>1, ServeFlow
  <2>2. /\ flow'[f] = n /\ \A g \in Flow \ {f} : flow'[g] = flow[g]
        /\ \A t : Carries(n, t) => Carries(flow[f], t)
        /\ Head(flow[f].plan) \in {"upload", "record"} => \A t : ~Carries(n, t)
    BY <1>t, <2>1 DEF Carries
  <2>3. clicks' = clicks
    BY <1>1 DEF Serve, Find, Create, TellStart, RingDirectMessage, JoinAnswered, Decline,
                GrantScreenshare, CheckRecording, SetRecording, TellRecording, Record,
                UploadRecording, Leave, EndCall, TellEnd, Fail, Continue
  <2>4. \A g \in Flow, t \in Take : Holds(<<"flow", g>>, t)' => Holds(<<"flow", g>>, t)
    BY <2>2, Hands
  <2>5. FlowHolds(flow[f]) /\ flow[f].plan # <<>>
    BY <1>1, ServeFlow DEF FlowsHold
  <2>6. ASSUME NEW s \in {"upload", "record"}, Head(flow[f].plan) = s
        PROVE  /\ flow[f].ref \in Take
               /\ Holds(<<"flow", f>>, flow[f].ref) /\ \A t : ~Holds(<<"flow", f>>, t)'
    <3>1. Has(flow[f].plan, s)
      BY <2>5, <2>6 DEF Has, FlowHolds, PlanHolds
    <3>2. flow[f].ref \in Take /\ Carries(flow[f], flow[f].ref)
      BY <2>5, <3>1 DEF FlowHolds, Carries
    <3>3. QED BY <2>2, <2>6, <3>2, Hands
  <2>7. CASE Record(f) /\ \E u \in User : page'[u].take \notin {page[u].take, 0}
    <3>1. PICK u \in User : u = flow[f].user /\ page'[u].take = flow[f].ref
      BY <1>1, <2>7, ServePages
    <3>2. \A v \in User \ {u} : page'[v].take \in {page[v].take, 0}
      BY <1>1, <3>1, ServePages
    <3>3. PICK t0 : t0 = flow[f].ref
      OBVIOUS
    <3>4. t0 \in Take /\ Holds(<<"flow", f>>, t0) /\ ~Holds(<<"flow", f>>, t0)'
      BY <2>6, <2>7, <3>3 DEF Record, At
    <3>5. ASSUME NEW x \in Holder, NEW t \in Take, Holds(x, t)'
          PROVE  Holds(x, t) \/ (x = <<"page", u>> /\ t = t0)
      <4>1. CASE \E g \in Flow : x = <<"flow", g>>
        BY <2>4, <3>5, <4>1
      <4>2. CASE \E v \in User : x = <<"page", v>>
        BY <1>t, <3>1, <3>2, <3>3, <3>5, <4>2, Hands
      <4>3. QED BY <4>1, <4>2, Hands
    <3>6. uploads' = uploads /\ <<"flow", f>> \in Holder /\ <<"page", u>> \in Holder
      BY <2>7, Hands DEF Record
    <3>7. QED BY <2>3, <3>4, <3>5, <3>6, HandedOn
  <2>8. CASE \A u \in User : page'[u].take \in {page[u].take, 0}
    <3>1. ASSUME NEW x \in Holder, NEW t \in Take, Holds(x, t)'
          PROVE  Holds(x, t)
      <4>1. CASE \E g \in Flow : x = <<"flow", g>>
        BY <2>4, <3>1, <4>1
      <4>2. CASE \E v \in User : x = <<"page", v>>
        BY <1>t, <2>8, <3>1, <4>2, Hands
      <4>3. QED BY <4>1, <4>2, Hands
    <3>2. CASE UploadRecording(f)
      <4>1. PICK t0 : t0 = flow[f].ref
        OBVIOUS
      <4>2. t0 \in Take /\ Holds(<<"flow", f>>, t0) /\ ~Holds(<<"flow", f>>, t0)'
        BY <2>6, <3>2, <4>1 DEF UploadRecording, At
      <4>3. uploads' = [uploads EXCEPT ![t0] = uploads[t0] + 1] /\ <<"flow", f>> \in Holder
        BY <3>2, <4>1, Hands DEF UploadRecording
      <4>4. QED BY <2>3, <3>1, <4>2, <4>3, IsPosted
    <3>3. CASE ~UploadRecording(f)
      <4>1. uploads' = uploads
        BY <1>1, <3>3 DEF Serve, Find, Create, TellStart, RingDirectMessage, JoinAnswered, Decline,
              GrantScreenshare, CheckRecording, SetRecording, TellRecording, Record, Leave, EndCall,
              TellEnd, Fail
      <4>2. QED BY <2>3, <3>1, <4>1, NothingGained
    <3>4. QED BY <3>2, <3>3
  <2>9. QED BY <1>1, <2>7, <2>8, ServePages
<1>2. ASSUME NEW f \in Flow, NEW u \in User, Click(f, u)
      PROVE  CarriedOnce'
  <2>1. PICK n \in FlowRecord :
          /\ flow' = [flow EXCEPT ![f] = n]
          /\ \/ ~Has(n.plan, "upload") /\ ~Has(n.plan, "record")
             \/ StartRecording(f, u) /\ n.ref = clicks + 1
             \/ /\ StopRecording(f, u) \/ \E zero \in BOOLEAN : HangUp(f, u, zero)
                /\ page[u].take # 0 /\ n.ref = page[u].take
    BY <1>2, ClickFlow
  <2>2. /\ flow'[f] = n /\ \A g \in Flow \ {f} : flow'[g] = flow[g]
        /\ clicks' = clicks + 1 /\ clicks < MaxRequests
    BY <1>t, <1>2, <2>1, ClickFlow
  <2>3. uploads' = uploads
    BY <1>2 DEF Click, StartCall, Accept, PressDecline, StartRecording, StopRecording, HangUp,
                PressGrant
  <2>4. /\ \A v \in User : page'[v].take \in {page[v].take, 0}
        /\ (StopRecording(f, u) \/ \E zero \in BOOLEAN : HangUp(f, u, zero)) => page'[u].take = 0
    BY <1>2, ClickPages
  <2>5. ASSUME NEW x \in Holder, NEW t \in Take, Holds(x, t)'
        PROVE  Holds(x, t) \/ (x = <<"flow", f>> /\ t = n.ref /\ Carries(n, t))
    <3>1. CASE \E g \in Flow : x = <<"flow", g>>
      BY <2>2, <2>5, <3>1, Hands DEF Carries
    <3>2. CASE \E v \in User : x = <<"page", v>>
      BY <1>t, <2>4, <2>5, <3>2, Hands
    <3>3. QED BY <3>1, <3>2, Hands
  <2>6. <<"flow", f>> \in Holder /\ <<"page", u>> \in Holder
    BY Hands
  <2>7. CASE ~Has(n.plan, "upload") /\ ~Has(n.plan, "record")
    BY <2>2, <2>3, <2>5, <2>7, NothingGained DEF Carries
  <2>8. CASE StartRecording(f, u) /\ n.ref = clicks + 1
    <3>1. PICK t0 : t0 = n.ref
      OBVIOUS
    <3>2. t0 \in Take /\ t0 = clicks + 1
      BY <2>2, <2>8, <3>1, CallsAssumption DEF CallsTypeOK, Take
    <3>3. \A x \in Holder, t \in Take : Holds(x, t)' => Holds(x, t) \/ (x = <<"flow", f>> /\ t = t0)
      BY <2>5, <3>1
    <3>4. QED BY <2>2, <2>3, <2>6, <3>2, <3>3, Begins
  <2>9. CASE /\ StopRecording(f, u) \/ \E zero \in BOOLEAN : HangUp(f, u, zero)
             /\ page[u].take # 0 /\ n.ref = page[u].take
    <3>1. PICK t0 : t0 = n.ref
      OBVIOUS
    <3>2. t0 \in Take /\ Holds(<<"page", u>>, t0) /\ ~Holds(<<"page", u>>, t0)'
      BY <1>t, <2>4, <2>9, <3>1, Hands
    <3>3. \A x \in Holder, t \in Take : Holds(x, t)' => Holds(x, t) \/ (x = <<"flow", f>> /\ t = t0)
      BY <2>5, <3>1
    <3>4. QED BY <2>2, <2>3, <2>6, <3>2, <3>3, HandedOn
  <2>10. QED BY <2>1, <2>7, <2>8, <2>9
<1>3. ASSUME NEW f \in Flow, NEW u \in User, ReceiveAndFlush(f, u)
      PROVE  CarriedOnce'
  <2>1. PICK n \in FlowRecord : flow' = [flow EXCEPT ![f] = n] /\ n.ref = page[u].take
    BY <1>3, FlushFlow
  <2>2. /\ flow'[f] = n /\ \A g \in Flow \ {f} : flow'[g] = flow[g]
        /\ clicks' = clicks /\ uploads' = uploads /\ page[u].take # 0
    BY <1>t, <1>3, <2>1, FlushFlow DEF ReceiveAndFlush
  <2>3. page'[u].take = 0 /\ \A v \in User \ {u} : page'[v] = page[v]
    BY <1>3, ReadPages
  <2>4. PICK t0 : t0 = n.ref
    OBVIOUS
  <2>5. ASSUME NEW x \in Holder, NEW t \in Take, Holds(x, t)'
        PROVE  Holds(x, t) \/ (x = <<"flow", f>> /\ t = t0)
    <3>1. CASE \E g \in Flow : x = <<"flow", g>>
      BY <2>2, <2>4, <2>5, <3>1, Hands DEF Carries
    <3>2. CASE \E v \in User : x = <<"page", v>>
      BY <1>t, <2>3, <2>5, <3>2, Hands
    <3>3. QED BY <3>1, <3>2, Hands
  <2>6. /\ <<"flow", f>> \in Holder /\ <<"page", u>> \in Holder
        /\ t0 \in Take /\ Holds(<<"page", u>>, t0) /\ ~Holds(<<"page", u>>, t0)'
    BY <1>t, <2>1, <2>2, <2>3, <2>4, Hands
  <2>7. QED BY <2>2, <2>5, <2>6, HandedOn
<1>4. ASSUME flow' = flow, clicks' \in {clicks, clicks + 1}, uploads' = uploads,
             \A v \in User : page'[v].take \in {page[v].take, 0}
      PROVE  CarriedOnce'
  <2>1. ASSUME NEW x \in Holder, NEW t \in Take, Holds(x, t)'
        PROVE  Holds(x, t)
    BY <1>t, <1>4, <2>1, Hands
  <2>2. QED BY <1>4, <2>1, NothingGained
<1>5. ASSUME NEW u \in User, Receive(u)
      PROVE  CarriedOnce'
  <2>1. flow' = flow /\ clicks' = clicks /\ uploads' = uploads
    BY <1>5 DEF Receive
  <2>2. \A v \in User : page'[v].take \in {page[v].take, 0}
    BY <1>5, ReadPages
  <2>3. QED BY <1>4, <2>1, <2>2
<1>6. ASSUME NEW u \in User, Dismiss(u)
      PROVE  CarriedOnce'
  BY <1>4, <1>6, DismissPages DEF Dismiss
<1>7. CASE UNCHANGED vars
  BY <1>4, <1>7 DEF vars
<1>8. ASSUME NEW u \in User, Looks(u)
      PROVE  CarriedOnce'
  BY <1>4, <1>8, LookPages
<1>9. QED BY <1>1, <1>2, <1>3, <1>5, <1>6, <1>7, <1>8 DEF CallsNext, Looks

---------------------------------------------------------------------------
(* Banners and rings.                                                      *)

(* A ring of the call c that nothing on its way to the page ends. *)
Unsilenced(u, c) ==
  /\ <<u, c>> \notin stray
  /\ \/ page[u].ring = c /\ \A j \in DOMAIN mail[u] : ~Silences(mail[u][j], c)
     \/ \E i \in DOMAIN mail[u] :
          /\ mail[u][i].ev = "ring" /\ mail[u][i].call = c
          /\ \A j \in DOMAIN mail[u] : j > i => ~Silences(mail[u][j], c)

(* The invariant of the rings in these terms. *)
LEMMA RingsAre ==
  /\ RingsComeRight <=> \A u \in User, c \in Call : Unsilenced(u, c) => Ringing(c)
  /\ RingsComeRight' <=> \A u \in User, c \in Call : Unsilenced(u, c)' => Ringing(c)'
<1>1. RingsComeRight <=> \A u \in User, c \in Call : Unsilenced(u, c) => Ringing(c)
  BY DEF RingsComeRight, Unsilenced
<1>2. RingsComeRight' <=> \A u \in User, c \in Call : Unsilenced(u, c)' => Ringing(c)'
  BY DEF RingsComeRight, Unsilenced
<1>3. QED BY <1>1, <1>2

(* An event more in the mail. *)
LEMMA SentShows ==
  ASSUME CallsTypeOK, NEW users, NEW m, Sends(users, m), NEW u \in User,
         page'[u].banner = page[u].banner, page'[u].ring \in {page[u].ring, None},
         look' = look, misled' = misled, stray \subseteq stray'
  PROVE  /\ u \in users /\ Announces(m) => WillShow(u, Announced(m))'
         /\ \A b : WillShow(u, b) /\ (u \in users => ~Announces(m)) => WillShow(u, b)'
         /\ \A c \in Call : Unsilenced(u, c)' =>
              \/ Unsilenced(u, c) /\ (u \in users => ~Silences(m, c))
              \/ u \in users /\ m.ev = "ring" /\ m.call = c
<1>1. mail[u] \in Seq(Event) /\ m \in Event
  BY DEF CallsTypeOK, Sends
<1>2. CASE u \notin users
  <2>1. mail'[u] = mail[u]
    BY <1>2 DEF Sends
  <2>2. \A b : WillShow(u, b) => WillShow(u, b)'
    BY <2>1 DEF WillShow, Shows
  <2>3. \A c \in Call : Unsilenced(u, c)' => Unsilenced(u, c)
    BY <2>1, CallsAssumption DEF Unsilenced
  <2>4. QED BY <1>2, <2>2, <2>3
<1>3. CASE u \in users
  <2>1. /\ DOMAIN mail[u] = 1 .. Len(mail[u]) /\ Len(mail[u]) \in Nat
        /\ DOMAIN mail'[u] = 1 .. (Len(mail[u]) + 1)
        /\ mail'[u][Len(mail[u]) + 1] = m
        /\ \A i \in DOMAIN mail[u] : mail'[u][i] = mail[u][i]
    <3>1. PICK s, q : s = mail[u] /\ q = mail'[u]
      OBVIOUS
    <3>2. s \in Seq(Event) /\ q = Append(s, m)
      BY <1>1, <1>3, <3>1 DEF Sends
    <3>3. /\ DOMAIN s = 1 .. Len(s) /\ Len(s) \in Nat /\ DOMAIN q = 1 .. (Len(s) + 1)
          /\ q[Len(s) + 1] = m /\ \A i \in DOMAIN s : q[i] = s[i]
      BY <1>1, <3>2
    <3>4. QED BY <3>1, <3>3
  <2>2. Announces(m) => WillShow(u, Announced(m))'
    BY <2>1 DEF WillShow
  <2>3. ASSUME NEW b, WillShow(u, b), ~Announces(m)
        PROVE  WillShow(u, b)'
    BY <2>1, <2>3 DEF WillShow, Shows
  <2>4. ASSUME NEW c \in Call, Unsilenced(u, c)'
        PROVE  \/ Unsilenced(u, c) /\ ~Silences(m, c)
               \/ m.ev = "ring" /\ m.call = c
    <3>0. <<u, c>> \notin stray
      BY <2>4 DEF Unsilenced
    <3>1. CASE page'[u].ring = c /\ \A j \in DOMAIN mail'[u] : ~Silences(mail'[u][j], c)
      BY <2>1, <3>0, <3>1, CallsAssumption DEF Unsilenced
    <3>2. CASE \E i \in DOMAIN mail'[u] :
                 /\ mail'[u][i].ev = "ring" /\ mail'[u][i].call = c
                 /\ \A j \in DOMAIN mail'[u] : j > i => ~Silences(mail'[u][j], c)
      <4>1. PICK i \in DOMAIN mail'[u] :
                 /\ mail'[u][i].ev = "ring" /\ mail'[u][i].call = c
                 /\ \A j \in DOMAIN mail'[u] : j > i => ~Silences(mail'[u][j], c)
        BY <3>2
      <4>2. CASE i = Len(mail[u]) + 1
        BY <2>1, <4>1, <4>2
      <4>3. CASE i # Len(mail[u]) + 1
        BY <2>1, <3>0, <4>1, <4>3 DEF Unsilenced
      <4>4. QED BY <4>2, <4>3
    <3>3. QED BY <2>4, <3>1, <3>2 DEF Unsilenced
  <2>5. QED BY <1>3, <2>2, <2>3, <2>4
<1>4. QED BY <1>2, <1>3

(* An event less. *)
LEMMA ReadShows ==
  ASSUME CallsTypeOK, NEW u \in User, mail[u] # <<>>, mail'[u] = Tail(mail[u]),
         page'[u].banner = Shown(page[u], Head(mail[u])).banner,
         page'[u].ring = Shown(page[u], Head(mail[u])).ring, Heard(u, Head(mail[u]))
  PROVE  /\ \A b : WillShow(u, b) => WillShow(u, b)'
         /\ \A c \in Call : Unsilenced(u, c)' => Unsilenced(u, c)
<1>1. mail[u] \in Seq(Event) /\ page[u] \in PageRecord
  BY DEF CallsTypeOK
<1>2. PICK m : m = mail[u][1]
  OBVIOUS
<1>3. /\ DOMAIN mail[u] = 1 .. Len(mail[u]) /\ Len(mail[u]) \in Nat \ {0}
      /\ DOMAIN mail'[u] = 1 .. (Len(mail[u]) - 1)
      /\ \A i \in DOMAIN mail'[u] : i + 1 \in DOMAIN mail[u] /\ mail'[u][i] = mail[u][i + 1]
      /\ \A i \in DOMAIN mail[u] : i # 1 => i - 1 \in DOMAIN mail'[u] /\ mail'[u][i - 1] = mail[u][i]
      /\ 1 \in DOMAIN mail[u] /\ mail[u][1] = m /\ Head(mail[u]) = m /\ m \in Event
  BY <1>1, <1>2
<1>4. /\ page'[u].banner = IF Announces(m) THEN Announced(m) ELSE page[u].banner
      /\ page'[u].ring \in {None, page[u].ring} \/ (m.ev = "ring" /\ page'[u].ring = m.call)
      /\ page[u].ring # None /\ Silences(m, page[u].ring) => page'[u].ring = None
  BY <1>1, <1>3, ShownTypes
<1>h. /\ ~Announces(m) => look' = look /\ misled' = misled
      /\ Announces(m) /\ look'[u].asked => look'[u].passed
      /\ stray' = stray
  BY <1>3 DEF Heard, CallsTypeOK, LookRecord
<1>5. ASSUME NEW b, WillShow(u, b)
      PROVE  WillShow(u, b)'
  <2>1. CASE Shows(u, b) /\ \A i \in DOMAIN mail[u] : ~Announces(mail[u][i])
    BY <1>3, <1>4, <1>h, <2>1 DEF WillShow, Shows
  <2>2. CASE \E i \in DOMAIN mail[u] :
               /\ Announces(mail[u][i]) /\ Announced(mail[u][i]) = b
               /\ \A j \in DOMAIN mail[u] : j > i => ~Announces(mail[u][j])
    <3>1. PICK i \in DOMAIN mail[u] :
               /\ Announces(mail[u][i]) /\ Announced(mail[u][i]) = b
               /\ \A j \in DOMAIN mail[u] : j > i => ~Announces(mail[u][j])
      BY <2>2
    <3>2. CASE i = 1
      BY <1>3, <1>4, <1>h, <3>1, <3>2 DEF WillShow, Shows
    <3>3. CASE i # 1
      <4>1. /\ i - 1 \in DOMAIN mail'[u] /\ Announces(mail'[u][i - 1])
            /\ Announced(mail'[u][i - 1]) = b
        BY <1>3, <3>1, <3>3
      <4>2. ASSUME NEW j \in DOMAIN mail'[u], j > i - 1
            PROVE  ~Announces(mail'[u][j])
        <5>1. j \in Nat /\ i \in Nat
          BY <1>3, <3>1
        <5>2. j + 1 \in DOMAIN mail[u] /\ j + 1 > i /\ mail'[u][j] = mail[u][j + 1]
          BY <1>3, <4>2, <5>1
        <5>3. QED BY <3>1, <5>2
      <4>3. QED BY <4>1, <4>2 DEF WillShow
    <3>4. QED BY <3>2, <3>3
  <2>3. QED BY <1>5, <2>1, <2>2 DEF WillShow
<1>6. ASSUME NEW c \in Call, Unsilenced(u, c)'
      PROVE  Unsilenced(u, c)
  <2>0. <<u, c>> \notin stray
    BY <1>6, <1>h DEF Unsilenced
  <2>1. CASE page'[u].ring = c /\ \A j \in DOMAIN mail'[u] : ~Silences(mail'[u][j], c)
    <3>1. \A j \in DOMAIN mail[u] : j > 1 => ~Silences(mail[u][j], c)
      BY <1>3, <2>1
    <3>2. CASE page[u].ring = c /\ ~Silences(m, c)
      BY <1>3, <2>0, <3>1, <3>2 DEF Unsilenced
    <3>3. CASE m.ev = "ring" /\ m.call = c
      BY <1>3, <2>0, <3>1, <3>3 DEF Unsilenced
    <3>4. QED BY <1>4, <2>1, <3>2, <3>3, CallsAssumption
  <2>2. CASE \E i \in DOMAIN mail'[u] :
               /\ mail'[u][i].ev = "ring" /\ mail'[u][i].call = c
               /\ \A j \in DOMAIN mail'[u] : j > i => ~Silences(mail'[u][j], c)
    <3>1. PICK i \in DOMAIN mail'[u] :
               /\ mail'[u][i].ev = "ring" /\ mail'[u][i].call = c
               /\ \A j \in DOMAIN mail'[u] : j > i => ~Silences(mail'[u][j], c)
      BY <2>2
    <3>2. i + 1 \in DOMAIN mail[u] /\ mail[u][i + 1].ev = "ring" /\ mail[u][i + 1].call = c
      BY <1>3, <3>1
    <3>3. ASSUME NEW j \in DOMAIN mail[u], j > i + 1
          PROVE  ~Silences(mail[u][j], c)
      <4>1. i \in Nat /\ j \in Nat
        BY <1>3
      <4>2. j # 1 /\ j - 1 > i
        BY <3>3, <4>1
      <4>3. j - 1 \in DOMAIN mail'[u] /\ mail'[u][j - 1] = mail[u][j]
        BY <1>3, <4>2
      <4>4. QED BY <3>1, <4>2, <4>3
    <3>4. QED BY <2>0, <3>2, <3>3 DEF Unsilenced
  <2>3. QED BY <1>6, <2>1, <2>2 DEF Unsilenced
<1>7. QED BY <1>5, <1>6

(* No event. *)
LEMMA NothingShows ==
  ASSUME CallsTypeOK, NEW u \in User, mail'[u] = mail[u],
         page'[u].banner = page[u].banner, page'[u].ring \in {page[u].ring, None},
         look' = look, misled' = misled, stray \subseteq stray'
  PROVE  /\ \A b : WillShow(u, b) => WillShow(u, b)'
         /\ \A c \in Call : Unsilenced(u, c)' => Unsilenced(u, c)
<1>1. \A b : WillShow(u, b) => WillShow(u, b)'
  BY DEF WillShow, Shows
<1>2. \A c \in Call : Unsilenced(u, c)' => Unsilenced(u, c)
  BY CallsAssumption DEF Unsilenced
<1>3. QED BY <1>1, <1>2

(* An event or an answer for another. *)
LEMMA OthersShow ==
  ASSUME CallsTypeOK, NEW u \in User, mail'[u] = mail[u], page'[u] = page[u],
         look'[u] = look[u], u \in misled => u \in misled', stray \subseteq stray'
  PROVE  /\ \A b : WillShow(u, b) => WillShow(u, b)'
         /\ \A c \in Call : Unsilenced(u, c)' => Unsilenced(u, c)
<1>1. \A b : WillShow(u, b) => WillShow(u, b)'
  BY DEF WillShow, Shows
<1>2. \A c \in Call : Unsilenced(u, c)' => Unsilenced(u, c)
  BY DEF Unsilenced
<1>3. QED BY <1>1, <1>2

(* What the banners ought to show. *)
Right == IF Active = {} THEN {None} ELSE Active

(* The mail lost with the socket, and what a fetch makes of the banner: an *)
(* answer asked for when the call was active, or none was, agrees with the *)
(* announcements unless one overtook it.                                   *)
LEMMA LookShows ==
  ASSUME CallsTypeOK, OneActive, NEW u \in User, Looks(u)
  PROVE  \A v \in User : /\ \A b \in Right : WillShow(v, b) => WillShow(v, b)'
                         /\ \A c \in Call : Unsilenced(v, c)' => Unsilenced(v, c)
<1>t. look \in [User -> LookRecord] /\ look[u] \in LookRecord /\ page \in [User -> PageRecord]
      /\ page[u] \in PageRecord
  BY DEF CallsTypeOK
<1>1. /\ \A v \in User \ {u} : /\ page'[v] = page[v] /\ mail'[v] = mail[v] /\ look'[v] = look[v]
                               /\ v \in misled => v \in misled'
      /\ stray \subseteq stray'
  <2>1. CASE LoseMail(u)
    BY <2>1 DEF LoseMail
  <2>2. CASE ReadActive(u)
    BY <2>2 DEF ReadActive
  <2>3. CASE TakeActive(u)
    BY <2>3 DEF TakeActive
  <2>4. QED BY <1>t, <2>1, <2>2, <2>3 DEF Looks, CallsTypeOK
<1>2. \A v \in User \ {u} : /\ \A b : WillShow(v, b) => WillShow(v, b)'
                            /\ \A c \in Call : Unsilenced(v, c)' => Unsilenced(v, c)
  BY <1>1, OthersShow
<1>3. CASE LoseMail(u)
  <2>1. /\ mail'[u] = <<>> /\ page' = page /\ u \in misled'
        /\ look'[u].asked = look[u].asked /\ look'[u].passed = look[u].asked
    BY <1>t, <1>3 DEF LoseMail, CallsTypeOK, LookRecord
  <2>2. \A b : WillShow(u, b)'
    BY <2>1 DEF WillShow, Shows
  <2>3. \A c \in Call : ~Unsilenced(u, c)'
    BY <1>3, <2>1 DEF Unsilenced, LoseMail
  <2>4. QED BY <1>2, <2>2, <2>3
<1>4. CASE ReadActive(u)
  <2>1. /\ mail' = mail /\ page' = page /\ misled' = misled /\ stray' = stray
        /\ look'[u].answer \in Right
    BY <1>t, <1>4 DEF ReadActive, Right
  <2>2. \A b \in Right : b = look'[u].answer
    BY <2>1 DEF Right, OneActive
  <2>3. \A b \in Right : WillShow(u, b) => WillShow(u, b)'
    BY <2>1, <2>2 DEF WillShow, Shows
  <2>4. \A c \in Call : Unsilenced(u, c)' => Unsilenced(u, c)
    BY <2>1 DEF Unsilenced
  <2>5. QED BY <1>2, <2>3, <2>4
<1>5. CASE TakeActive(u)
  <2>1. PICK r : r = [page[u] EXCEPT !.banner = look[u].answer]
    OBVIOUS
  <2>2. /\ mail' = mail /\ stray' = stray /\ page'[u] = r /\ r.banner = look[u].answer
        /\ r.ring = page[u].ring /\ look[u].asked /\ ~look'[u].asked
        /\ ~look[u].passed \/ look[u].answer = page[u].banner \/ u \in misled'
        /\ look[u].passed => (u \in misled => u \in misled')
    BY <1>t, <1>5, <2>1 DEF TakeActive, PageRecord, NoLook
  <2>3. \A b : WillShow(u, b) => WillShow(u, b)'
    BY <2>2 DEF WillShow, Shows
  <2>4. \A c \in Call : Unsilenced(u, c)' => Unsilenced(u, c)
    BY <2>2 DEF Unsilenced
  <2>5. QED BY <1>2, <2>3, <2>4
<1>6. QED BY <1>3, <1>4, <1>5 DEF Looks

(* The handlers that are still to announce something stay so. *)
EndsKept == \A g \in Flow : At(g, "tellEnd") => At(g, "tellEnd")'
StartsKept ==
  \A g \in Flow : At(g, "tellStart") => At(g, "tellStart")' /\ flow'[g].call = flow[g].call

(* A flow that announces nothing may become any other. *)
LEMMA TellsKept ==
  ASSUME CallsTypeOK, NEW f \in Flow, NEW n, flow' = [flow EXCEPT ![f] = n]
  PROVE  /\ ~At(f, "tellStart") => StartsKept
         /\ ~At(f, "tellEnd") => EndsKept
<1>1. flow \in [Flow -> FlowRecord]
  BY DEF CallsTypeOK
<1>2. \A g \in Flow \ {f} : flow'[g] = flow[g]
  BY <1>1
<1>3. ~At(f, "tellStart") => StartsKept
  BY <1>2 DEF At, StartsKept
<1>4. ~At(f, "tellEnd") => EndsKept
  BY <1>2 DEF At, EndsKept
<1>5. QED BY <1>3, <1>4

(* While the active call is the same and no announcement comes, the        *)
(* banners come right as before.                                           *)
LEMMA BannersStay ==
  ASSUME OneActive, BannersComeRight, Active' = Active, StartsKept, EndsKept,
         \A u \in User : \A b \in Right : WillShow(u, b) => WillShow(u, b)'
  PROVE  OneActive' /\ BannersComeRight'
<1>1. OneActive'
  BY DEF OneActive
<1>2. ASSUME NEW c \in Active'
      PROVE  \/ \A u \in User : WillShow(u, c)'
             \/ \E f \in Flow : At(f, "tellStart")' /\ flow'[f].call = c
  BY <1>2 DEF BannersComeRight, StartsKept, Right
<1>3. ASSUME Active' = {}
      PROVE  \/ \A u \in User : WillShow(u, None)'
             \/ \E f \in Flow : At(f, "tellEnd")'
  BY <1>3 DEF BannersComeRight, EndsKept, Right
<1>4. QED BY <1>1, <1>2, <1>3 DEF BannersComeRight

(* While no call ends and nothing rings but what may, the rings come right *)
(* as before.                                                              *)
LEMMA RingsStay ==
  ASSUME RingsComeRight, Active \subseteq Active', EndsKept,
         \A u \in User, c \in Call : Unsilenced(u, c)' =>
           \/ Unsilenced(u, c) /\ (c \in answered' => c \in answered)
           \/ c \in Active' \ answered'
  PROVE  RingsComeRight'
<1>1. ASSUME NEW u \in User, NEW c \in Call, Unsilenced(u, c)'
      PROVE  Ringing(c)'
  <2>1. CASE c \in Active' \ answered'
    BY <2>1 DEF Ringing
  <2>2. CASE Unsilenced(u, c) /\ (c \in answered' => c \in answered)
    <3>1. Ringing(c)
      BY <2>2, RingsAre
    <3>2. QED BY <2>2, <3>1 DEF Ringing, EndsKept
  <2>3. QED BY <1>1, <2>1, <2>2
<1>2. QED BY <1>1, RingsAre

(* Once an announcement was overtaken or lost, that stays so. *)
LEMMA MuddledStays ==
  ASSUME CallsTypeOK, [CallsNext]_vars
  PROVE  muddled => muddled'
<1>1. ASSUME NEW f \in Flow, Serve(f), muddled
      PROVE  muddled'
  BY <1>1, Zenon DEF Serve, Find, Create, TellStart, RingDirectMessage, JoinAnswered, Decline,
        GrantScreenshare, CheckRecording, SetRecording, TellRecording, Record, UploadRecording,
        Leave, EndCall, TellEnd, Fail
<1>2. ASSUME NEW f \in Flow, NEW u \in User, Click(f, u) \/ ReceiveAndFlush(f, u), muddled
      PROVE  muddled'
  BY <1>2, Zenon DEF Click, StartCall, Accept, PressDecline, StartRecording, StopRecording, HangUp,
        PressGrant, ReceiveAndFlush
<1>3. ASSUME NEW u \in User, Receive(u) \/ Dismiss(u) \/ Looks(u), muddled
      PROVE  muddled'
  BY <1>3, Zenon DEF Receive, Dismiss, Looks, LoseMail, ReadActive, TakeActive
<1>4. ASSUME UNCHANGED vars, muddled
      PROVE  muddled'
  BY <1>4, Zenon DEF vars
<1>5. QED BY <1>1, <1>2, <1>3, <1>4 DEF CallsNext, Looks

(* What a request makes of the banners and rings. *)
LEMMA ServeShows ==
  ASSUME CallsTypeOK, FlowsHold, OneActive, BannersComeRight, RingsComeRight,
         NEW f \in Flow, Serve(f), ~muddled'
  PROVE  OneActive' /\ BannersComeRight' /\ RingsComeRight'
<1>p. PICK n \in FlowRecord : flow' = [flow EXCEPT ![f] = n]
  BY ServeFlow
<1>t. /\ FlowHolds(flow[f]) /\ flow[f].plan # <<>> /\ flow \in [Flow -> FlowRecord]
      /\ call \in [Call -> CallRecord] /\ flow'[f] = n
      /\ \A u \in User : page'[u].banner = page[u].banner /\ page'[u].ring \in {page[u].ring, None}
  BY <1>p, ServeFlow, ServePages DEF FlowsHold, CallsTypeOK
<1>k. /\ ~At(f, "tellStart") => StartsKept
      /\ ~At(f, "tellEnd") => EndsKept
  BY <1>p, TellsKept
<1>l. look' = look /\ misled' = misled /\ stray \subseteq stray'
  BY LooksKept
<1>a. call' = call => Active' = Active
  BY DEF Active
(* Requests that send nothing. *)
<1>1. ASSUME mail' = mail, Active' = Active, answered' = answered, StartsKept, EndsKept
      PROVE  OneActive' /\ BannersComeRight' /\ RingsComeRight'
  <2>1. \A u \in User : /\ \A b : WillShow(u, b) => WillShow(u, b)'
                        /\ \A c \in Call : Unsilenced(u, c)' => Unsilenced(u, c)
    BY <1>1, <1>t, <1>l, NothingShows
  <2>2. QED BY <1>1, <2>1, BannersStay, RingsStay
(* Requests that send an event which is no announcement and no ring. *)
<1>2. ASSUME NEW m, Sends(User, m), ~Announces(m), m.ev # "ring", Active' = Active,
             StartsKept, EndsKept,
             \A c \in answered' \ answered : Silences(m, c)
      PROVE  OneActive' /\ BannersComeRight' /\ RingsComeRight'
  <2>1. \A u \in User : /\ \A b : WillShow(u, b) => WillShow(u, b)'
                        /\ \A c \in Call : Unsilenced(u, c)' => Unsilenced(u, c) /\ ~Silences(m, c)
    BY <1>2, <1>t, <1>l, SentShows
  <2>2. QED BY <1>2, <2>1, BannersStay, RingsStay
<1>3. CASE /\ mail' = mail /\ call' = call /\ answered' = answered
           /\ ~At(f, "tellStart") /\ ~At(f, "tellEnd")
  BY <1>1, <1>a, <1>k, <1>3
<1>4. CASE Find(f)
  <2>1. call' = call /\ ~At(f, "tellStart") /\ ~At(f, "tellEnd")
    BY <1>4 DEF Find, At
  <2>2. CASE Active = {}
    BY <1>3, <1>4, <2>1, <2>2 DEF Find
  <2>3. CASE Active # {}
    <3>1. PICK c \in Active : ToUsers(User, Msg("stop", c, FALSE)) /\ answered' = answered \cup {c}
      BY <1>4, <2>3 DEF Find, ToChannel
    <3>2. PICK m : m = Msg("stop", c, FALSE)
      OBVIOUS
    <3>3. Sends(User, m)
      BY <3>1, <3>2, SendsIt DEF Active
    <3>4. m.ev = "stop" /\ m.call = c
      BY <3>2 DEF Msg
    <3>5. QED BY <1>2, <1>a, <1>k, <2>1, <3>1, <3>3, <3>4 DEF Announces, Silences
  <2>4. QED BY <2>2, <2>3
<1>5. CASE Decline(f)
  <2>1. call' = call /\ ~At(f, "tellStart") /\ ~At(f, "tellEnd") /\ flow[f].call \in Call
        /\ ToUsers(User, Msg("stop", flow[f].call, FALSE)) /\ answered' = answered \cup {flow[f].call}
    BY <1>5, <1>t DEF Decline, At, FlowHolds, ToChannel
  <2>2. PICK m : m = Msg("stop", flow[f].call, FALSE)
    OBVIOUS
  <2>3. Sends(User, m)
    BY <2>1, <2>2, SendsIt
  <2>4. m.ev = "stop" /\ m.call = flow[f].call
    BY <2>2 DEF Msg
  <2>5. QED BY <1>2, <1>a, <1>k, <2>1, <2>3, <2>4 DEF Announces, Silences
<1>6. CASE TellRecording(f)
  <2>1. call' = call /\ ~At(f, "tellStart") /\ ~At(f, "tellEnd") /\ answered' = answered
    BY <1>6 DEF TellRecording, At
  <2>2. PICK m : m = Msg("recording", flow[f].call, flow[f].flag)
    OBVIOUS
  <2>3. flow[f].call \in Call /\ flow[f].flag \in BOOLEAN
        /\ ToUsers(User, Msg("recording", flow[f].call, flow[f].flag))
    BY <1>t, <1>6 DEF TellRecording, At, FlowHolds, FlowRecord, ToChannel
  <2>4. Sends(User, m)
    <3>1. Sends(User, Msg("recording", flow[f].call, flow[f].flag))
      BY <2>3, SendsIt
    <3>2. QED BY <2>2, <3>1
  <2>5. m.ev = "recording"
    BY <2>2 DEF Msg
  <2>6. QED BY <1>2, <1>a, <1>k, <2>1, <2>4, <2>5 DEF Announces
<1>7. CASE RingDirectMessage(f)
  <2>1. /\ call' = call /\ ~At(f, "tellStart") /\ ~At(f, "tellEnd") /\ answered' = answered
        /\ flow[f].call \in Call
        /\ ToUsers(User \ {flow[f].user}, Msg("ring", flow[f].call, FALSE))
        /\ \/ \A u \in User : <<u, flow[f].call>> \in stray'
           \/ call[flow[f].call].state # "ended" /\ flow[f].call \notin answered
    BY <1>7, <1>t DEF RingDirectMessage, At, FlowHolds
  <2>2. call[flow[f].call].state # "none"
    <3>1. Has(flow[f].plan, "ring")
      BY <1>7, <1>t DEF RingDirectMessage, At, Has, FlowHolds, PlanHolds
    <3>2. QED BY <1>t, <3>1 DEF FlowHolds
  <2>3. flow[f].call \in Active \ answered \/ \A u \in User : <<u, flow[f].call>> \in stray'
    BY <1>t, <2>1, <2>2 DEF Active, CallRecord
  <2>4. PICK m : m = Msg("ring", flow[f].call, FALSE)
    OBVIOUS
  <2>5. PICK users : users = User \ {flow[f].user}
    OBVIOUS
  <2>6. Sends(users, m)
    <3>1. Sends(User \ {flow[f].user}, Msg("ring", flow[f].call, FALSE))
      BY <2>1, SendsIt
    <3>2. QED BY <2>4, <2>5, <3>1
  <2>7. m.ev = "ring" /\ m.call = flow[f].call
    BY <2>4 DEF Msg
  <2>8. \A u \in User : /\ \A b : WillShow(u, b) => WillShow(u, b)'
                        /\ \A c \in Call : Unsilenced(u, c)' => Unsilenced(u, c) \/ c = m.call
    BY <1>t, <1>l, <2>6, <2>7, SentShows DEF Announces
  <2>9. \A u \in User, c \in Call : Unsilenced(u, c)' =>
          \/ Unsilenced(u, c) /\ (c \in answered' => c \in answered)
          \/ c \in Active' \ answered'
    BY <1>a, <2>1, <2>3, <2>7, <2>8 DEF Unsilenced
  <2>10. QED BY <1>a, <1>k, <2>1, <2>8, <2>9, BannersStay, RingsStay
<1>8. CASE Create(f)
  <2>1. PICK c \in Call :
          /\ call[c].state = "none"
          /\ call' = [call EXCEPT ![c] = [state |-> "active", host |-> flow[f].user, rec |-> FALSE]]
          /\ flow' = [flow EXCEPT ![f] = [Instead(f, <<"tellStart", "ring", "answer">>) EXCEPT
                                            !.call = c]]
    BY <1>8 DEF Create
  <2>2. Active = {}
    BY <1>8 DEF Create
  <2>3. /\ call'[c].state = "active"
        /\ \A d \in Call \ {c} : call'[d].state = call[d].state
    BY <1>t, <2>1
  <2>4. Active' = {c}
    BY <2>2, <2>3 DEF Active
  <2>5. At(f, "tellStart")' /\ flow'[f].call = c
    <3>1. PICK s : s = <<"tellStart", "ring", "answer">>
      OBVIOUS
    <3>2. s \in Insertions /\ s # <<"create">> /\ s[1] = "tellStart"
      BY <3>1 DEF Insertions
    <3>b. PICK b : b \in BOOLEAN
      OBVIOUS
    <3>3. PICK k : k = [Instead(f, s) EXCEPT !.call = c]
      OBVIOUS
    <3>4. CallsKept /\ Redirected(f, s, c, b, k) /\ Suits(f, s, c)
      BY <2>1, <2>3, <3>2, <3>3, RowsKept DEF CallsNext, Redirected, Suits, CallsKept
    <3>5. k.plan # <<>> /\ Head(k.plan) = s[1] /\ k.call = c
      BY <1>t, <3>2, <3>b, <3>4, InsertedFlow
    <3>6. flow'[f] = k
      BY <1>t, <2>1, <3>1, <3>3
    <3>7. QED BY <3>2, <3>5, <3>6 DEF At
  <2>6. OneActive' /\ BannersComeRight'
    BY <2>4, <2>5 DEF OneActive, BannersComeRight
  <2>7. mail' = mail /\ answered' = answered /\ ~At(f, "tellEnd")
    BY <1>8 DEF Create, At
  <2>8. \A u \in User, d \in Call : Unsilenced(u, d)' => Unsilenced(u, d)
    BY <1>t, <1>l, <2>7, NothingShows
  <2>9. QED BY <1>k, <2>2, <2>6, <2>7, <2>8, RingsStay
<1>9. CASE TellStart(f)
  <2>1. PICK c \in Call : c = flow[f].call
    BY <1>9, <1>t DEF TellStart, At, FlowHolds
  <2>2. /\ call' = call /\ ~At(f, "tellEnd") /\ answered' = answered
        /\ ToUsers(User, Msg("started", c, FALSE)) /\ call[c].state # "ended"
    BY <1>9, <2>1 DEF TellStart, At, ToChannel
  <2>3. call[c].state # "none"
    <3>1. Has(flow[f].plan, "tellStart")
      BY <1>9, <1>t DEF TellStart, At, Has, FlowHolds, PlanHolds
    <3>2. QED BY <1>t, <2>1, <3>1 DEF FlowHolds
  <2>4. c \in Active
    BY <1>t, <2>2, <2>3 DEF Active, CallRecord
  <2>5. PICK m : m = Msg("started", c, FALSE)
    OBVIOUS
  <2>6. Sends(User, m)
    BY <2>2, <2>5, SendsIt
  <2>7. m.ev = "started" /\ m.call = c
    BY <2>5 DEF Msg
  <2>8. Announces(m) /\ Announced(m) = c /\ m.ev # "ring"
    BY <2>7 DEF Announces, Announced
  <2>9. \A u \in User : /\ WillShow(u, c)'
                        /\ \A d \in Call : Unsilenced(u, d)' => Unsilenced(u, d)
    BY <1>t, <1>l, <2>6, <2>8, SentShows
  <2>10. Active' = Active /\ OneActive'
    BY <1>a, <2>2 DEF OneActive
  <2>11. \A d \in Active' : d = c
    BY <2>4, <2>10 DEF OneActive
  <2>12. BannersComeRight'
    BY <2>4, <2>9, <2>10, <2>11 DEF BannersComeRight
  <2>13. QED BY <1>k, <2>2, <2>9, <2>10, <2>12, RingsStay
<1>10. CASE EndCall(f)
  <2>1. PICK c \in Call : c = flow[f].call
    BY <1>10, <1>t DEF EndCall, At, FlowHolds
  <2>2. /\ call' = [call EXCEPT ![c] = [call[c] EXCEPT !.state = "ended", !.rec = FALSE]]
        /\ flow' = [flow EXCEPT ![f] = Instead(f, <<>>)]
        /\ Head(flow[f].plan) = "leaveEnd" /\ mail' = mail
    BY <1>10, <2>1 DEF EndCall, At, Continue
  <2>3. PICK r : r = [call[c] EXCEPT !.state = "ended", !.rec = FALSE]
    OBVIOUS
  <2>4. r.state = "ended" /\ call'[c] = r /\ \A d \in Call \ {c} : call'[d] = call[d]
    BY <1>t, <2>2, <2>3, RowTypes
  <2>5. Active' \subseteq Active
    BY <2>4 DEF Active
  <2>6. At(f, "tellEnd")'
    <3>1. PICK k : k = Instead(f, <<>>)
      OBVIOUS
    <3>2. k.plan # <<>> /\ Head(k.plan) = "tellEnd"
      BY <1>t, <2>2, <3>1, GoesOn
    <3>3. flow'[f] = k
      BY <1>t, <2>2, <3>1
    <3>4. QED BY <3>2, <3>3 DEF At
  <2>7. OneActive'
    BY <2>5 DEF OneActive
  <2>8. \A u \in User : \A b : WillShow(u, b) => WillShow(u, b)'
    BY <1>t, <1>l, <2>2, NothingShows
  <2>9. StartsKept
    BY <1>k, <2>2 DEF At
  <2>10. ASSUME NEW d \in Active'
         PROVE  \/ \A u \in User : WillShow(u, d)'
                \/ \E g \in Flow : At(g, "tellStart")' /\ flow'[g].call = d
    BY <2>5, <2>8, <2>9, <2>10 DEF BannersComeRight, StartsKept
  <2>11. BannersComeRight'
    BY <2>6, <2>10 DEF BannersComeRight
  <2>12. \A d \in Call : Ringing(d)'
    BY <2>6 DEF Ringing
  <2>13. QED BY <2>7, <2>11, <2>12, RingsAre
<1>11. CASE TellEnd(f)
  <2>1. PICK c \in Call : c = flow[f].call
    BY <1>11, <1>t DEF TellEnd, At, FlowHolds
  <2>2. call' = call /\ Active = {} /\ ToUsers(User, Msg("ended", c, FALSE))
    BY <1>11, <2>1 DEF TellEnd, ToChannel
  <2>3. PICK m : m = Msg("ended", c, FALSE)
    OBVIOUS
  <2>4. Sends(User, m)
    BY <2>2, <2>3, SendsIt
  <2>5. m.ev = "ended"
    BY <2>3 DEF Msg
  <2>6. Announces(m) /\ Announced(m) = None /\ \A d \in Call : Silences(m, d)
    BY <2>5 DEF Announces, Announced, Silences
  <2>7. \A u \in User : /\ WillShow(u, None)'
                        /\ \A d \in Call : ~Unsilenced(u, d)'
    BY <1>t, <1>l, <2>4, <2>5, <2>6, SentShows
  <2>8. Active' = {}
    BY <1>a, <2>2
  <2>9. OneActive' /\ BannersComeRight'
    BY <2>7, <2>8 DEF OneActive, BannersComeRight
  <2>10. QED BY <2>7, <2>9, RingsAre
<1>12. CASE SetRecording(f)
  <2>1. PICK b \in BOOLEAN : b = flow[f].flag
    BY <1>t DEF FlowRecord
  <2>2. PICK c : c = flow[f].call
    OBVIOUS
  <2>3. PICK r : r = [call[c] EXCEPT !.rec = b]
    OBVIOUS
  <2>4. /\ call' = [call EXCEPT ![c] = r] /\ mail' = mail /\ answered' = answered
        /\ ~At(f, "tellStart") /\ ~At(f, "tellEnd")
    BY <1>12, <2>1, <2>2, <2>3 DEF SetRecording, At
  <2>5. c \in Call => r.state = call[c].state
    BY <1>t, <2>3, RowTypes
  <2>6. Active' = Active
    BY <1>t, <2>4, <2>5 DEF Active
  <2>7. QED BY <1>1, <1>k, <2>4, <2>6
<1>13. CASE Fail(f)
  <2>1. /\ call' = call /\ mail' = mail /\ answered' = answered
        /\ ~At(f, "tellStart") /\ ~At(f, "tellEnd")
    BY <1>13 DEF Fail, At
  <2>2. QED BY <1>3, <2>1
<1>14. CASE \/ JoinAnswered(f) \/ GrantScreenshare(f) \/ CheckRecording(f) \/ Record(f)
            \/ UploadRecording(f) \/ Leave(f)
  <2>1. call' = call /\ mail' = mail /\ answered' = answered
    BY <1>14 DEF JoinAnswered, GrantScreenshare, CheckRecording, Record, UploadRecording, Leave
  <2>2. ~At(f, "tellStart") /\ ~At(f, "tellEnd")
    BY <1>14 DEF JoinAnswered, GrantScreenshare, CheckRecording, Record, UploadRecording, Leave, At
  <2>3. QED BY <1>3, <2>1, <2>2
<1>15. QED BY <1>4, <1>5, <1>6, <1>7, <1>8, <1>9, <1>10, <1>11, <1>12, <1>13, <1>14 DEF Serve

(* Every step leaves the banners and rings to come right, unless it loses  *)
(* an announcement or lets one be overtaken.                               *)
LEMMA ShowsStep ==
  ASSUME CallsTypeOK, FlowsHold, OneActive, BannersComeRight, RingsComeRight,
         [CallsNext]_vars, ~muddled'
  PROVE  OneActive' /\ BannersComeRight' /\ RingsComeRight'
<1>1. ASSUME NEW f \in Flow, Serve(f)
      PROVE  OneActive' /\ BannersComeRight' /\ RingsComeRight'
  BY <1>1, ServeShows
<1>2. ASSUME call' = call, answered' = answered, StartsKept, EndsKept,
             \A u \in User : /\ \A b \in Right : WillShow(u, b) => WillShow(u, b)'
                             /\ \A c \in Call : Unsilenced(u, c)' => Unsilenced(u, c)
      PROVE  OneActive' /\ BannersComeRight' /\ RingsComeRight'
  <2>1. Active' = Active
    BY <1>2 DEF Active
  <2>2. QED BY <1>2, <2>1, BannersStay, RingsStay
<1>3. ASSUME NEW f \in Flow, NEW u \in User, Click(f, u)
      PROVE  OneActive' /\ BannersComeRight' /\ RingsComeRight'
  <2>1. call' = call /\ answered' = answered /\ mail' = mail
    BY <1>3 DEF Click, StartCall, Accept, PressDecline, StartRecording, StopRecording, HangUp,
                PressGrant
  <2>2. flow[f].plan = <<>> /\ \E n : flow' = [flow EXCEPT ![f] = n]
    BY <1>3, ClickFlow
  <2>3. StartsKept /\ EndsKept
    BY <2>2, TellsKept DEF At
  <2>4. \A v \in User : /\ \A b : WillShow(v, b) => WillShow(v, b)'
                        /\ \A c \in Call : Unsilenced(v, c)' => Unsilenced(v, c)
    BY <1>3, <2>1, ClickPages, LooksKept, NothingShows
  <2>5. QED BY <1>2, <2>1, <2>3, <2>4
<1>4. ASSUME NEW u \in User, Receive(u) \/ \E f \in Flow : ReceiveAndFlush(f, u)
      PROVE  OneActive' /\ BannersComeRight' /\ RingsComeRight'
  <2>1. call' = call /\ answered' = answered
    BY <1>4 DEF Receive, ReceiveAndFlush
  <2>2. StartsKept /\ EndsKept
    <3>1. CASE flow' = flow
      BY <3>1 DEF StartsKept, EndsKept, At
    <3>2. CASE \E f \in Flow : ReceiveAndFlush(f, u)
      <4>1. PICK f \in Flow : flow[f].plan = <<>> /\ \E n : flow' = [flow EXCEPT ![f] = n]
        BY <3>2, FlushFlow
      <4>2. QED BY <4>1, TellsKept DEF At
    <3>3. QED BY <1>4, <3>1, <3>2 DEF Receive
  <2>3. /\ mail[u] # <<>> /\ mail'[u] = Tail(mail[u])
        /\ page'[u].banner = Shown(page[u], Head(mail[u])).banner
        /\ page'[u].ring = Shown(page[u], Head(mail[u])).ring
        /\ \A v \in User \ {u} : mail'[v] = mail[v] /\ page'[v] = page[v]
        /\ Heard(u, Head(mail[u]))
    BY <1>4, ReadPages DEF Receive, ReceiveAndFlush
  <2>4. /\ \A b : WillShow(u, b) => WillShow(u, b)'
        /\ \A c \in Call : Unsilenced(u, c)' => Unsilenced(u, c)
    BY <2>3, ReadShows
  <2>5. \A v \in User \ {u} : /\ \A b : WillShow(v, b) => WillShow(v, b)'
                              /\ \A c \in Call : Unsilenced(v, c)' => Unsilenced(v, c)
    BY <2>3, OthersShow DEF Heard
  <2>6. QED BY <1>2, <2>1, <2>2, <2>4, <2>5
<1>5. ASSUME NEW u \in User, Dismiss(u)
      PROVE  OneActive' /\ BannersComeRight' /\ RingsComeRight'
  <2>1. call' = call /\ answered' = answered /\ mail' = mail /\ flow' = flow
    BY <1>5 DEF Dismiss
  <2>2. StartsKept /\ EndsKept
    BY <2>1 DEF StartsKept, EndsKept, At
  <2>3. \A v \in User : /\ \A b : WillShow(v, b) => WillShow(v, b)'
                        /\ \A c \in Call : Unsilenced(v, c)' => Unsilenced(v, c)
    BY <1>5, <2>1, DismissPages, LooksKept, NothingShows
  <2>4. QED BY <1>2, <2>1, <2>2, <2>3
<1>6. ASSUME UNCHANGED vars
      PROVE  OneActive' /\ BannersComeRight' /\ RingsComeRight'
  <2>1. /\ call' = call /\ answered' = answered /\ mail' = mail /\ flow' = flow /\ page' = page
        /\ look' = look /\ misled' = misled /\ stray' = stray
    BY <1>6 DEF vars
  <2>2. StartsKept /\ EndsKept
    BY <2>1 DEF StartsKept, EndsKept, At
  <2>3. \A v \in User : /\ \A b : WillShow(v, b) => WillShow(v, b)'
                        /\ \A c \in Call : Unsilenced(v, c)' => Unsilenced(v, c)
    BY <2>1, NothingShows
  <2>4. QED BY <1>2, <2>1, <2>2, <2>3
<1>7. ASSUME NEW u \in User, Looks(u)
      PROVE  OneActive' /\ BannersComeRight' /\ RingsComeRight'
  <2>1. call' = call /\ answered' = answered /\ flow' = flow
    BY <1>7 DEF Looks, LoseMail, ReadActive, TakeActive
  <2>2. StartsKept /\ EndsKept
    BY <2>1 DEF StartsKept, EndsKept, At
  <2>3. QED BY <1>2, <1>7, <2>1, <2>2, LookShows
<1>8. QED BY <1>1, <1>3, <1>4, <1>5, <1>6, <1>7 DEF CallsNext, Looks

---------------------------------------------------------------------------
(* The theorems.                                                           *)

(* The invariant holds when nothing was clicked yet. *)
LEMMA CallsStart ==
  ASSUME CallsInit
  PROVE  CallsIndInv
<1>1. /\ \A c \in Call : call[c] = NoCall /\ room[c] = {} /\ share[c] = {}
      /\ \A u \in User : page[u] = Blank /\ mail[u] = <<>>
      /\ \A f \in Flow : flow[f] = Idle
      /\ \A t \in Take : uploads[t] = 0
      /\ clicks = 0 /\ failures = 0 /\ answered = {} /\ muddled = FALSE
      /\ misled = {} /\ stray = {} /\ \A u \in User : look[u] = NoLook
  BY DEF CallsInit
<1>2. /\ NoCall \in CallRecord /\ NoCall.state = "none" /\ Blank \in PageRecord
      /\ Blank.overlay = None /\ Blank.take = 0 /\ Blank.ring = None /\ Blank.banner = None
      /\ Idle \in FlowRecord /\ Idle.plan = <<>> /\ NoLook \in LookRecord /\ ~NoLook.asked
  BY DEF NoLook, LookRecord, NoCall, CallRecord, Blank, PageRecord, Idle, FlowRecord
<1>3. CallsTypeOK
  <2>1. call \in [Call -> CallRecord] /\ page \in [User -> PageRecord] /\ flow \in [Flow -> FlowRecord]
    BY <1>2 DEF CallsInit
  <2>2. room \in [Call -> SUBSET User] /\ share \in [Call -> SUBSET User]
        /\ mail \in [User -> Seq(Event)] /\ uploads \in [Take -> Nat]
    BY DEF CallsInit
  <2>3. clicks \in 0 .. MaxRequests /\ failures \in 0 .. MaxFailures
    BY <1>1, CallsAssumption
  <2>4. /\ answered \subseteq Call /\ muddled \in BOOLEAN /\ misled \subseteq User
        /\ stray \subseteq User \X Call /\ look \in [User -> LookRecord]
    BY <1>1, <1>2 DEF CallsInit
  <2>5. QED BY <1>1, <1>2, <2>1, <2>2, <2>3, <2>4 DEF CallsTypeOK
<1>4. FlowsHold
  <2>1. PlanHolds(<<>>) /\ \A s : ~Has(<<>>, s)
    BY DEF PlanHolds, Has
  <2>2. QED BY <1>1, <1>2, <2>1 DEF FlowsHold, FlowHolds
<1>5. CarriedOnce
  <2>1. \A x \in Holder, t \in Take : ~Holds(x, t)
    BY <1>1, <1>2 DEF Holder, Holds, Has, Take
  <2>2. QED BY <1>1, <2>1 DEF CarriedOnce
<1>6. Active = {}
  BY <1>1, <1>2 DEF Active
<1>7. OneActive /\ BannersComeRight
  BY <1>1, <1>2, <1>6 DEF OneActive, BannersComeRight, WillShow, Shows
<1>8. RingsComeRight
  BY <1>1, <1>2, CallsAssumption DEF RingsComeRight
<1>9. QED BY <1>3, <1>4, <1>5, <1>7, <1>8 DEF CallsIndInv

(* Calls are right in every state: who holds a recording, what the plans   *)
(* of the flows may be, and what the mail will make the pages show.        *)
THEOREM CallsInvariant == CallsSpec => []CallsIndInv
<1>1. CallsInit => CallsIndInv
  BY CallsStart
<1>2. CallsIndInv /\ [CallsNext]_vars => CallsIndInv'
  <2> SUFFICES ASSUME CallsIndInv, [CallsNext]_vars
               PROVE  CallsIndInv'
    OBVIOUS
  <2>1. CallsTypeOK' /\ FlowsHold'
    BY CallsTypesStep DEF CallsIndInv
  <2>2. CarriedOnce'
    BY CarriedStep DEF CallsIndInv
  <2>3. ~muddled' => OneActive' /\ BannersComeRight' /\ RingsComeRight'
    BY MuddledStays, ShowsStep DEF CallsIndInv
  <2>4. QED BY <2>1, <2>2, <2>3 DEF CallsIndInv
<1>3. QED BY <1>1, <1>2, PTL DEF CallsSpec

(* Every variable stays in its set, nobody shares the screen of a call     *)
(* whose room he is not in, and a page with an overlay is in its room.     *)
THEOREM CallsTypeCorrect == CallsSpec => []CallsTypeOK
<1>1. CallsIndInv => CallsTypeOK
  BY DEF CallsIndInv
<1>2. QED BY <1>1, CallsInvariant, PTL

(* What a recorder captured is posted at most once, whichever of the       *)
(* button, somebody else's stop and the hang-up flushes it.                *)
THEOREM RecordingPostedOnceAlways == CallsSpec => []RecordingPostedOnce
<1>1. CallsIndInv => RecordingPostedOnce
  BY DEF CallsIndInv, CarriedOnce, RecordingPostedOnce
<1>2. QED BY <1>1, CallsInvariant, PTL

(* When all is delivered every banner shows the channel's active call and  *)
(* no other, unless an announcement was overtaken or its handler died; the *)
(* banners that an old answer replaced, or whose mail was lost, excepted.  *)
THEOREM BannerAgreesAlways == CallsSpec => []BannerAgrees
<1>1. ASSUME CallsIndInv, Quiet, ~muddled, NEW u \in User \ misled
      PROVE  page[u].banner \in (IF Active = {} THEN {None} ELSE Active)
  <2>1. BannersComeRight /\ mail[u] = <<>> /\ \A f \in Flow : \A s : ~At(f, s)
    BY <1>1 DEF CallsIndInv, Quiet, At
  <2>2. \A b : WillShow(u, b) => page[u].banner = b
    BY <2>1 DEF WillShow, Shows
  <2>3. QED BY <2>1, <2>2 DEF BannersComeRight
<1>2. CallsIndInv => BannerAgrees
  BY <1>1 DEF BannerAgrees
<1>3. QED BY <1>2, CallsInvariant, PTL

(* When all is delivered a page rings only for a call that goes on and     *)
(* that nobody has answered, unless the ring itself came after the answer  *)
(* or its end was lost with the socket.                                    *)
THEOREM RingsUnansweredAlways == CallsSpec => []RingsUnanswered
<1>1. ASSUME CallsIndInv, Quiet, ~muddled, NEW u \in User, NEW c \in Call, page[u].ring = c
      PROVE  c \in Active \ answered \/ <<u, c>> \in stray
  <2>1. RingsComeRight /\ mail[u] = <<>> /\ (\A f \in Flow : \A s : ~At(f, s))
    BY <1>1 DEF CallsIndInv, Quiet, At
  <2>2. \/ <<u, c>> \in stray
        \/ Ringing(c) \/ \E j \in DOMAIN mail[u] : Silences(mail[u][j], c)
    BY <1>1, <2>1 DEF RingsComeRight
  <2>3. QED BY <2>1, <2>2 DEF Ringing
<1>2. CallsIndInv => RingsUnanswered
  BY <1>1 DEF RingsUnanswered
<1>3. QED BY <1>2, CallsInvariant, PTL
=============================================================================
