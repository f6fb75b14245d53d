-------------------------- MODULE AutoStart_proofs --------------------------
(***************************************************************************)
(* Proofs about AutoStart: the tick in the menu and the switch on the      *)
(* settings page agree once nothing is on its way, for every number of     *)
(* toggles, menus, edits and pushes, and so for queues of every length.    *)
(*                                                                         *)
(* The argument follows the last push on its way, which shows what Dart    *)
(* holds; where there is none, the runner holds it too, unless the runner  *)
(* has changed its mirror since, and then the last notification on its way *)
(* says so.                                                                *)
(***************************************************************************)
EXTENDS AutoStart, SequenceTheorems, TLAPS

HasPush(s) == \E i \in 1..Len(s) : s[i].kind = "push"

\* The last push in s shows "able" and, where that matters, "on".
LastShows(s, able, on) ==
  \A i \in 1..Len(s) :
    s[i].kind = "push" /\ (\A j \in 1..Len(s) : s[j].kind = "push" => j <= i)
      => s[i].able = able /\ (able => s[i].on = on)

\* The last notification in s says "on".
Tells(s, on) ==
  \E i \in 1..Len(s) :
    /\ s[i].kind = "changed" /\ s[i].on = on
    /\ \A j \in 1..Len(s) : s[j].kind = "changed" => j <= i

-----------------------------------------------------------------------------
(***************************************************************************)
(* Queues                                                                  *)
(***************************************************************************)
LEMMA TailShows ==
  ASSUME NEW E, NEW s \in Seq(E), s # <<>>, NEW able, NEW on, LastShows(s, able, on)
  PROVE  /\ LastShows(Tail(s), able, on)
         /\ ~HasPush(Tail(s)) /\ Head(s).kind = "push"
              => Head(s).able = able /\ (able => Head(s).on = on)
         /\ ~HasPush(Tail(s)) /\ Head(s).kind # "push" => ~HasPush(s)
<1> DEFINE t == Tail(s)
<1>1. /\ Len(s) \in Nat \ {0}
      /\ Len(t) = Len(s) - 1
      /\ s[1] = Head(s)
      /\ \A i \in 1..Len(t) : t[i] = s[i + 1]
  BY HeadTailProperties, LenProperties, EmptySeq
<1>2. \A j \in 1..Len(s) : j = 1 \/ (j - 1 \in 1..Len(t) /\ t[j - 1] = s[j])
  BY <1>1
<1>3. LastShows(t, able, on)
  <2> SUFFICES ASSUME NEW i \in 1..Len(t), t[i].kind = "push",
                      \A j \in 1..Len(t) : t[j].kind = "push" => j <= i
               PROVE  t[i].able = able /\ (able => t[i].on = on)
    BY DEF LastShows
  <2>1. i + 1 \in 1..Len(s) /\ s[i + 1] = t[i]
    BY <1>1
  <2>2. ASSUME NEW j \in 1..Len(s), s[j].kind = "push" PROVE j <= i + 1
    <3>1. CASE j = 1
      BY <3>1
    <3>2. CASE j - 1 \in 1..Len(t) /\ t[j - 1] = s[j]
      <4>1. j - 1 <= i
        BY <3>2, <2>2
      <4> QED BY <4>1, <1>1
    <3> QED BY <3>1, <3>2, <1>2
  <2> QED BY <2>1, <2>2 DEF LastShows
<1>4. ASSUME ~HasPush(t) PROVE \A j \in 1..Len(s) : s[j].kind = "push" => j = 1
  BY <1>2, <1>4 DEF HasPush
<1>5. 1 \in 1..Len(s)
  BY <1>1
<1>6. ASSUME ~HasPush(t), Head(s).kind = "push"
      PROVE  Head(s).able = able /\ (able => Head(s).on = on)
  <2>1. \A j \in 1..Len(s) : s[j].kind = "push" => j <= 1
    BY <1>4, <1>6
  <2> QED BY <2>1, <1>1, <1>5, <1>6 DEF LastShows
<1>7. ASSUME ~HasPush(t), Head(s).kind # "push" PROVE ~HasPush(s)
  BY <1>1, <1>4, <1>7 DEF HasPush
<1> QED BY <1>3, <1>6, <1>7

LEMMA AppendShows ==
  ASSUME NEW E, NEW s \in Seq(E), NEW m \in E, NEW able, NEW on
  PROVE  /\ m.kind # "push" /\ LastShows(s, able, on) => LastShows(Append(s, m), able, on)
         /\ HasPush(s) => HasPush(Append(s, m))
         /\ m.kind = "push" /\ m.able = able /\ (able => m.on = on)
              => LastShows(Append(s, m), able, on) /\ HasPush(Append(s, m))
<1> DEFINE t == Append(s, m)
<1>1. /\ Len(s) \in Nat
      /\ Len(t) = Len(s) + 1
      /\ \A i \in 1..Len(s) : t[i] = s[i]
      /\ t[Len(t)] = m
  BY AppendProperties, LenProperties
<1>2. \A i \in 1..Len(t) : i \in 1..Len(s) \/ i = Len(t)
  BY <1>1
<1>3. 1..Len(s) \subseteq 1..Len(t) /\ Len(t) \in 1..Len(t)
  BY <1>1
<1>4. ASSUME m.kind # "push", LastShows(s, able, on) PROVE LastShows(t, able, on)
  <2> SUFFICES ASSUME NEW i \in 1..Len(t), t[i].kind = "push",
                      \A j \in 1..Len(t) : t[j].kind = "push" => j <= i
               PROVE  t[i].able = able /\ (able => t[i].on = on)
    BY DEF LastShows
  <2>1. i \in 1..Len(s) /\ t[i] = s[i]
    BY <1>1, <1>2, <1>4
  <2>2. \A j \in 1..Len(s) : s[j].kind = "push" => j <= i
    BY <1>1, <1>3
  <2> QED BY <2>1, <2>2, <1>4 DEF LastShows
<1>5. HasPush(s) => HasPush(t)
  BY <1>1, <1>3 DEF HasPush
<1>6. ASSUME m.kind = "push", m.able = able, able => m.on = on
      PROVE  LastShows(t, able, on) /\ HasPush(t)
  <2>1. HasPush(t)
    BY <1>1, <1>3, <1>6 DEF HasPush
  <2>2. ASSUME NEW i \in 1..Len(t), \A j \in 1..Len(t) : t[j].kind = "push" => j <= i
        PROVE  i = Len(t)
    <3>1. Len(t) <= i
      BY <2>2, <1>1, <1>3, <1>6
    <3> QED BY <3>1, <1>1
  <2> QED BY <2>1, <2>2, <1>1, <1>6 DEF LastShows
<1> QED BY <1>4, <1>5, <1>6

LEMMA TailTells ==
  ASSUME NEW E, NEW s \in Seq(E), s # <<>>, NEW on, Tells(s, on)
  PROVE  Tells(Tail(s), on) \/ (Head(s).kind = "changed" /\ Head(s).on = on)
<1> DEFINE t == Tail(s)
<1>1. /\ Len(s) \in Nat \ {0}
      /\ Len(t) = Len(s) - 1
      /\ s[1] = Head(s)
      /\ \A i \in 1..Len(t) : t[i] = s[i + 1]
  BY HeadTailProperties, LenProperties, EmptySeq
<1>2. PICK i \in 1..Len(s) :
        /\ s[i].kind = "changed" /\ s[i].on = on
        /\ \A j \in 1..Len(s) : s[j].kind = "changed" => j <= i
  BY DEF Tells
<1>3. CASE i = 1
  BY <1>1, <1>2, <1>3
<1>4. CASE i # 1
  <2>1. i - 1 \in 1..Len(t) /\ t[i - 1] = s[i]
    BY <1>1, <1>4
  <2>2. ASSUME NEW j \in 1..Len(t), t[j].kind = "changed" PROVE j <= i - 1
    <3>1. j + 1 \in 1..Len(s) /\ s[j + 1].kind = "changed"
      BY <1>1, <2>2
    <3>2. j + 1 <= i
      BY <3>1, <1>2
    <3> QED BY <3>2, <1>1
  <2> QED BY <2>1, <2>2, <1>2 DEF Tells
<1> QED BY <1>3, <1>4

LEMMA AppendTells ==
  ASSUME NEW E, NEW s \in Seq(E), NEW m \in E, NEW on
  PROVE  /\ m.kind # "changed" /\ Tells(s, on) => Tells(Append(s, m), on)
         /\ m.kind = "changed" => Tells(Append(s, m), m.on)
<1> DEFINE t == Append(s, m)
<1>1. /\ Len(s) \in Nat
      /\ Len(t) = Len(s) + 1
      /\ \A i \in 1..Len(s) : t[i] = s[i]
      /\ t[Len(t)] = m
  BY AppendProperties, LenProperties
<1>2. \A i \in 1..Len(t) : i \in 1..Len(s) \/ i = Len(t)
  BY <1>1
<1>3. 1..Len(s) \subseteq 1..Len(t) /\ Len(t) \in 1..Len(t)
  BY <1>1
<1>4. ASSUME m.kind # "changed", Tells(s, on) PROVE Tells(t, on)
  <2>1. PICK i \in 1..Len(s) :
          /\ s[i].kind = "changed" /\ s[i].on = on
          /\ \A j \in 1..Len(s) : s[j].kind = "changed" => j <= i
    BY <1>4 DEF Tells
  <2>2. i \in 1..Len(t) /\ t[i] = s[i]
    BY <1>1, <1>3
  <2>3. \A j \in 1..Len(t) : t[j].kind = "changed" => j <= i
    BY <1>1, <1>2, <1>4, <2>1
  <2> QED BY <2>1, <2>2, <2>3 DEF Tells
<1>5. ASSUME m.kind = "changed" PROVE Tells(t, m.on)
  <2>1. \A j \in 1..Len(t) : j <= Len(t)
    BY <1>1
  <2> QED BY <2>1, <1>1, <1>3, <1>5 DEF Tells
<1> QED BY <1>4, <1>5

-----------------------------------------------------------------------------
(***************************************************************************)
(* Types                                                                   *)
(***************************************************************************)
LEMMA MessageTypes ==
  /\ \A on \in BOOLEAN, able \in BOOLEAN :
       /\ Message("push", on, able) \in Calls
       /\ Message("set", on, able) \in Calls
       /\ Message("query", on, able) \in Calls
       /\ Message("refresh", on, able) \in Calls
       /\ Message("supported", on, able) \in Calls
  /\ \A on \in BOOLEAN :
       \A kind \in {"supported", "refresh", "query", "set", "changed"} :
         Message(kind, on, TRUE) \in Answers
BY DEF Message, Calls, Answers

LEMMA OutcomeTypes ==
  ASSUME run \in Values, NEW on \in BOOLEAN, NEW outcome \in Outcomes(on)
  PROVE  outcome.value \in Values /\ outcome.applied \in BOOLEAN
<1>1. \/ outcome.value = Written(on) /\ outcome.applied = (QueryEnabled(Written(on)) = on)
      \/ outcome.value = run /\ outcome.applied = FALSE
  BY DEF Outcomes
<1>2. Written(on) \in Values
  BY DEF Written, Values
<1>3. (QueryEnabled(Written(on)) = on) \in BOOLEAN
  BY Zenon
<1> QED BY <1>1, <1>2, <1>3

\* What SetAutoStart adds to the answers.
LEMMA SetTells ==
  ASSUME TypeOK, NEW on \in BOOLEAN, NEW answer \in BOOLEAN, SetAutoStart(on, answer)
  PROVE  /\ run' \in Values
         /\ native' \in [on : BOOLEAN, able : BOOLEAN, menu : BOOLEAN]
         /\ native'.able = native.able
         /\ toDart' \in Seq(Answers)
         /\ Tells(toDart', native'.on)
<1>1. PICK outcome \in Outcomes(on) :
        /\ run' = outcome.value
        /\ native' = [native EXCEPT !.on = outcome.applied, !.menu = @ /\ answer]
        /\ toDart' = toDart \o <<Message("changed", outcome.applied, TRUE)>>
             \o (IF answer THEN <<Message("set", outcome.applied, TRUE)>> ELSE <<>>)
  BY DEF SetAutoStart
<1>2. outcome.value \in Values /\ outcome.applied \in BOOLEAN
  BY OutcomeTypes DEF TypeOK
<1> DEFINE told == Message("changed", outcome.applied, TRUE)
           done == Message("set", outcome.applied, TRUE)
           s    == Append(toDart, told)
<1>3. toDart \in Seq(Answers) /\ told \in Answers /\ done \in Answers
  BY <1>2, MessageTypes DEF TypeOK
<1>4. s \in Seq(Answers) /\ toDart \o <<told>> = s
  BY <1>3, AppendProperties, AppendIsConcat
<1>5. toDart' = IF answer THEN Append(s, done) ELSE s
  <2>1. s \o <<done>> = Append(s, done) /\ s \o <<>> = s
    BY <1>3, <1>4, AppendIsConcat, ConcatEmptySeq
  <2> QED BY <1>1, <1>4, <2>1
<1>6. toDart' \in Seq(Answers)
  BY <1>3, <1>4, <1>5, AppendProperties
<1>7. Tells(s, outcome.applied)
  <2>1. told.kind = "changed" /\ told.on = outcome.applied
    BY DEF Message
  <2> QED BY <2>1, <1>3, AppendTells
<1>8. Tells(toDart', outcome.applied)
  <2>1. done.kind # "changed"
    BY DEF Message
  <2>2. Tells(Append(s, done), outcome.applied)
    BY <2>1, <1>3, <1>4, <1>7, AppendTells
  <2> QED BY <2>2, <1>5, <1>7
<1>9. /\ native'.on = outcome.applied
      /\ native'.able = native.able
      /\ native' \in [on : BOOLEAN, able : BOOLEAN, menu : BOOLEAN]
  BY <1>1, <1>2 DEF TypeOK
<1> QED BY <1>1, <1>2, <1>6, <1>8, <1>9

\* What Push adds to the calls: when what is shown has changed, a push that shows it.
LEMMA PushShows ==
  ASSUME TypeOK, dart.sent = <<dart.able, dart.able /\ dart.on>>,
         LastShows(toNative, dart.able, dart.on),
         NEW STATE d, d \in [on : BOOLEAN, able : BOOLEAN, sent : BOOLEAN \X BOOLEAN],
         d.sent = dart.sent, NEW STATE then,
         then = <<>> \/ (\E on \in BOOLEAN : then = <<Message("set", on, TRUE)>>),
         Push(d, then)
  PROVE  /\ dart' \in [on : BOOLEAN, able : BOOLEAN, sent : BOOLEAN \X BOOLEAN]
         /\ dart'.able = d.able /\ dart'.on = d.on
         /\ dart'.sent = <<d.able, d.able /\ d.on>>
         /\ toNative' \in Seq(Calls)
         /\ LastShows(toNative', d.able, d.on)
         /\ HasPush(toNative) => HasPush(toNative')
         /\ ~HasPush(toNative') => d.able = dart.able /\ (d.able => d.on = dart.on)
<1> DEFINE on    == d.able /\ d.on
           shown == <<d.able, on>>
           push  == Message("push", on, d.able)
           first == IF shown = d.sent THEN toNative ELSE Append(toNative, push)
<1>1. dart' = [d EXCEPT !.sent = shown] /\ shown \in BOOLEAN \X BOOLEAN
  BY DEF Push
<1>2. push \in Calls /\ push.kind = "push" /\ push.able = d.able /\ (d.able => push.on = d.on)
  BY MessageTypes DEF Message
<1>3. toNative \in Seq(Calls)
  BY DEF TypeOK
<1>4. first \in Seq(Calls)
  BY <1>2, <1>3, AppendProperties
<1>5. toNative' = first \o then
  <2>1. toNative \o <<push>> = Append(toNative, push) /\ toNative \o <<>> = toNative
    BY <1>2, <1>3, AppendIsConcat, ConcatEmptySeq
  <2>2. toNative' = toNative \o (IF shown = d.sent THEN <<>> ELSE <<push>>) \o then
    BY DEF Push
  <2> QED BY <2>1, <2>2
<1>6. toNative' = first \/ \E m \in Calls : m.kind # "push" /\ toNative' = Append(first, m)
  <2>1. CASE then = <<>>
    BY <2>1, <1>4, <1>5, ConcatEmptySeq
  <2>2. ASSUME NEW x \in BOOLEAN, then = <<Message("set", x, TRUE)>>
        PROVE  \E m \in Calls : m.kind # "push" /\ toNative' = Append(first, m)
    <3>1. PICK m \in Calls : m = Message("set", x, TRUE)
      BY MessageTypes
    <3>2. m.kind # "push"
      BY <3>1 DEF Message
    <3> HIDE DEF first
    <3>3. first \o <<m>> = Append(first, m)
      BY <1>4, AppendIsConcat
    <3> QED BY <2>2, <3>1, <3>2, <3>3, <1>5
  <2> QED BY <2>1, <2>2
<1>7. shown = d.sent => d.able = dart.able /\ (d.able => d.on = dart.on)
  <2>1. ASSUME shown = d.sent PROVE d.able = dart.able /\ on = (dart.able /\ dart.on)
    BY <2>1
  <2>2. /\ d.on \in BOOLEAN /\ d.able \in BOOLEAN
        /\ dart.on \in BOOLEAN /\ dart.able \in BOOLEAN
    BY DEF TypeOK
  <2>3. ASSUME shown = d.sent, d.able PROVE d.on = dart.on
    <3>1. d.on <=> dart.on
      BY <2>1, <2>3, Zenon
    <3> QED BY <3>1, <2>2
  <2> QED BY <2>1, <2>3
<1>8. /\ LastShows(first, d.able, d.on)
      /\ HasPush(toNative) => HasPush(first)
      /\ ~HasPush(first) => shown = d.sent
  <2>1. CASE shown = d.sent
    BY <2>1, <1>7 DEF LastShows
  <2>2. CASE shown # d.sent
    BY <2>2, <1>2, <1>3, AppendShows
  <2> QED BY <2>1, <2>2
<1>9. /\ toNative' \in Seq(Calls)
      /\ LastShows(toNative', d.able, d.on)
      /\ HasPush(first) => HasPush(toNative')
  <2>1. CASE toNative' = first
    BY <2>1, <1>4, <1>8
  <2>2. ASSUME NEW m \in Calls, m.kind # "push", toNative' = Append(first, m)
        PROVE  <1>9!1 /\ <1>9!2 /\ <1>9!3
    BY <2>2, <1>4, <1>8, AppendShows, AppendProperties
  <2> QED BY <2>1, <2>2, <1>6
<1> QED BY <1>1, <1>7, <1>8, <1>9

-----------------------------------------------------------------------------
(***************************************************************************)
(* The invariant                                                           *)
(***************************************************************************)
\* Where no push is on its way the runner holds what Dart holds, or has told it better.
Delivered ==
  ~HasPush(toNative) =>
    /\ native.able = dart.able
    /\ dart.able => native.on = dart.on \/ Tells(toDart, native.on)

Follows ==
  /\ dart.sent = <<dart.able, dart.able /\ dart.on>>
  /\ LastShows(toNative, dart.able, dart.on)
  /\ Delivered

LEMMA InitHolds ==
  ASSUME Init
  PROVE  TypeOK /\ Follows
<1> DEFINE first  == Message("push", FALSE, FALSE)
           second == Message("supported", FALSE, TRUE)
<1>1. first \in Calls /\ second \in Calls
  BY MessageTypes
<1>2. toNative = <<first, second>> /\ toDart = <<>>
  BY DEF Init
<1>3. TypeOK
  <2>1. toNative \in Seq(Calls) /\ toDart \in Seq(Answers)
    <3> HIDE DEF first, second
    <3>1. <<first, second>> \in Seq(Calls)
      BY <1>1
    <3>2. <<>> \in Seq(Answers)
      OBVIOUS
    <3> QED BY <3>1, <3>2, <1>2
  <2>2. native \in [on : BOOLEAN, able : BOOLEAN, menu : BOOLEAN]
    BY DEF Init
  <2>4. dart \in [on : BOOLEAN, able : BOOLEAN, sent : BOOLEAN \X BOOLEAN]
    <3>1. <<FALSE, FALSE>> \in BOOLEAN \X BOOLEAN /\ FALSE \in BOOLEAN
      OBVIOUS
    <3>2. {<<FALSE, FALSE>>} \subseteq BOOLEAN \X BOOLEAN /\ {FALSE} \subseteq BOOLEAN
      BY <3>1
    <3>3. dart \in [on : BOOLEAN, able : {FALSE}, sent : {<<FALSE, FALSE>>}]
      BY DEF Init
    <3> QED BY <3>2, <3>3
  <2>3. budget \in [toggles : 0..MaxToggles, menus : 0..MaxMenus, edits : 0..MaxEdits,
                    pushes : 0..MaxPushes]
    BY AutoStartAssumption DEF Init, AutoStartAssumption
  <2> QED BY <2>1, <2>2, <2>3, <2>4 DEF Init, TypeOK
<1>4. dart.able = FALSE /\ dart.sent = <<FALSE, FALSE>>
  BY DEF Init
<1>5. /\ Len(toNative) = 2 /\ toNative[1] = first /\ toNative[2] = second
      /\ first.kind = "push" /\ first.able = FALSE /\ second.kind # "push"
  BY <1>2 DEF Message
<1>6. LastShows(toNative, dart.able, dart.on) /\ HasPush(toNative)
  <2> HIDE DEF first, second
  <2>1. 1 \in 1..Len(toNative) /\ toNative[1].kind = "push"
    BY <1>5
  <2>2. \A i \in 1..Len(toNative) : i = 1 \/ toNative[i].kind # "push"
    BY <1>5
  <2>3. toNative[1].able = dart.able /\ ~dart.able
    BY <1>4, <1>5
  <2>4. HasPush(toNative)
    BY <2>1 DEF HasPush
  <2>5. LastShows(toNative, dart.able, dart.on)
    BY <2>2, <2>3 DEF LastShows
  <2> QED BY <2>4, <2>5
<1>7. dart.sent = <<dart.able, dart.able /\ dart.on>>
  BY <1>4
<1> QED BY <1>3, <1>6, <1>7 DEF Follows, Delivered

\* A call that is not a push is added.
LEMMA OtherCall ==
  ASSUME TypeOK, Follows, NEW m \in Calls, m.kind # "push",
         toNative' = Append(toNative, m),
         UNCHANGED <<native, dart>>,
         Tells(toDart, native.on) => Tells(toDart', native.on)
  PROVE  toNative' \in Seq(Calls) /\ Follows'
<1>1. toNative \in Seq(Calls)
  BY DEF TypeOK
<1>2. /\ toNative' \in Seq(Calls)
      /\ LastShows(toNative', dart.able, dart.on)
      /\ HasPush(toNative) => HasPush(toNative')
  BY <1>1, AppendProperties, AppendShows DEF Follows
<1> QED BY <1>2 DEF Follows, Delivered

\* An answer that is no notification leaves the queue.
LEMMA AnswerArrives ==
  ASSUME TypeOK, NEW on, NEW kinds, Arrives(kinds), "changed" \notin kinds,
         Tells(toDart, on)
  PROVE  Tells(toDart', on)
BY TailTells DEF Arrives, TypeOK

LEMMA ArrivesTypes ==
  ASSUME TypeOK, NEW kinds, Arrives(kinds)
  PROVE  toDart' \in Seq(Answers) /\ Head(toDart) \in Answers
BY HeadTailProperties DEF Arrives, TypeOK

LEMMA ReceivedTypes ==
  ASSUME TypeOK, Received
  PROVE  toNative' \in Seq(Calls) /\ Head(toNative) \in Calls
BY HeadTailProperties DEF Received, TypeOK

\* What Dart holds has been pushed; the runner still holds what it held, and has told
\* what it told, except for a notification that Dart now follows.
LEMMA PushFollows ==
  ASSUME TypeOK, Follows,
         NEW STATE d, d \in [on : BOOLEAN, able : BOOLEAN, sent : BOOLEAN \X BOOLEAN],
         d.sent = dart.sent, NEW STATE then,
         then = <<>> \/ (\E on \in BOOLEAN : then = <<Message("set", on, TRUE)>>),
         Push(d, then), UNCHANGED native,
         Tells(toDart, native.on) => Tells(toDart', native.on) \/ d.on = native.on
  PROVE  /\ dart' \in [on : BOOLEAN, able : BOOLEAN, sent : BOOLEAN \X BOOLEAN]
         /\ toNative' \in Seq(Calls)
         /\ Follows'
<1>1. dart.sent = <<dart.able, dart.able /\ dart.on>> /\ LastShows(toNative, dart.able, dart.on)
  BY DEF Follows
<1>2. /\ dart' \in [on : BOOLEAN, able : BOOLEAN, sent : BOOLEAN \X BOOLEAN]
      /\ dart'.able = d.able /\ dart'.on = d.on
      /\ dart'.sent = <<d.able, d.able /\ d.on>>
      /\ toNative' \in Seq(Calls)
      /\ LastShows(toNative', d.able, d.on)
      /\ HasPush(toNative) => HasPush(toNative')
      /\ ~HasPush(toNative') => d.able = dart.able /\ (d.able => d.on = dart.on)
  BY <1>1, PushShows
<1>3. Delivered'
  <2> SUFFICES ASSUME ~HasPush(toNative')
               PROVE  /\ native.able = dart'.able
                      /\ dart'.able => native.on = dart'.on \/ Tells(toDart', native.on)
    BY DEF Delivered
  <2>1. d.able = dart.able /\ (d.able => d.on = dart.on) /\ ~HasPush(toNative)
    BY <1>2
  <2>2. native.able = dart.able /\ (dart.able => native.on = dart.on \/ Tells(toDart, native.on))
    BY <2>1 DEF Follows, Delivered
  <2> QED BY <1>2, <2>1, <2>2
<1> QED BY <1>2, <1>3 DEF Follows

\* The budgets.
LEMMA SpendTypes ==
  ASSUME TypeOK, NEW b \in {"toggles", "menus", "edits", "pushes"}, Spend(b)
  PROVE  budget' \in [toggles : 0..MaxToggles, menus : 0..MaxMenus, edits : 0..MaxEdits,
                      pushes : 0..MaxPushes]
<1>1. \A n : n \in Nat => \A k \in 0..n : k > 0 => k - 1 \in 0..n
  OBVIOUS
<1>2. /\ MaxToggles \in Nat /\ MaxMenus \in Nat /\ MaxEdits \in Nat /\ MaxPushes \in Nat
      /\ budget \in [toggles : 0..MaxToggles, menus : 0..MaxMenus, edits : 0..MaxEdits,
                     pushes : 0..MaxPushes]
  BY AutoStartAssumption DEF AutoStartAssumption, TypeOK
<1>3. budget[b] > 0 /\ budget' = [budget EXCEPT ![b] = @ - 1]
  BY DEF Spend
<1>4. CASE b = "toggles"
  BY <1>1, <1>2, <1>3, <1>4
<1>5. CASE b = "menus"
  BY <1>1, <1>2, <1>3, <1>5
<1>6. CASE b = "edits"
  BY <1>1, <1>2, <1>3, <1>6
<1>7. CASE b = "pushes"
  BY <1>1, <1>2, <1>3, <1>7
<1> QED BY <1>4, <1>5, <1>6, <1>7

LEMMA NextKeeps ==
  ASSUME TypeOK, Follows, [Next]_vars
  PROVE  TypeOK' /\ Follows'
<1> DEFINE Mirrors == [on : BOOLEAN, able : BOOLEAN, sent : BOOLEAN \X BOOLEAN]
           Runners == [on : BOOLEAN, able : BOOLEAN, menu : BOOLEAN]
<1>t. /\ run \in Values /\ native \in Runners /\ dart \in Mirrors
      /\ toNative \in Seq(Calls) /\ toDart \in Seq(Answers)
  BY DEF TypeOK
<1>f. /\ dart.sent = <<dart.able, dart.able /\ dart.on>>
      /\ LastShows(toNative, dart.able, dart.on)
      /\ Delivered
  BY DEF Follows
<1>1. CASE ApplyTrayState
  <2>1. toNative # <<>> /\ toNative' = Tail(toNative) /\ Head(toNative).kind = "push"
    BY <1>1 DEF ApplyTrayState, Received
  <2>2. Head(toNative) \in Calls /\ toNative' \in Seq(Calls)
    BY <1>1, ReceivedTypes DEF ApplyTrayState
  <2>3. /\ native' = [native EXCEPT !.able = Head(toNative).able, !.on = Head(toNative).on]
        /\ UNCHANGED <<run, dart, toDart, budget>>
    BY <1>1 DEF ApplyTrayState
  <2>4. Head(toNative).able \in BOOLEAN /\ Head(toNative).on \in BOOLEAN
    BY <2>2 DEF Calls
  <2>5. TypeOK'
    BY <2>2, <2>3, <2>4 DEF TypeOK
  <2>6. /\ LastShows(toNative', dart.able, dart.on)
        /\ ~HasPush(toNative') => /\ Head(toNative).able = dart.able
                                  /\ dart.able => Head(toNative).on = dart.on
    BY <1>t, <1>f, <2>1, TailShows
  <2>7. native'.able = Head(toNative).able /\ native'.on = Head(toNative).on
    BY <1>t, <2>3
  <2> QED BY <1>f, <2>3, <2>5, <2>6, <2>7 DEF Follows, Delivered
<1>2. ASSUME Received, Head(toNative).kind # "push", UNCHANGED dart, native'.able = native.able,
             \/ native'.on = native.on /\ (Tells(toDart, native.on) => Tells(toDart', native.on))
             \/ Tells(toDart', native'.on)
      PROVE  toNative' \in Seq(Calls) /\ Follows'
  <2>1. toNative # <<>> /\ toNative' = Tail(toNative)
    BY <1>2 DEF Received
  <2>2. /\ LastShows(toNative', dart.able, dart.on)
        /\ ~HasPush(toNative') => ~HasPush(toNative)
    BY <1>t, <1>f, <1>2, <2>1, TailShows
  <2>3. Delivered'
    BY <1>2, <1>f, <2>2 DEF Delivered
  <2> QED BY <1>f, <1>2, <2>2, <2>3, ReceivedTypes DEF Follows
<1>3. CASE Answer
  <2> DEFINE m == Message(Head(toNative).kind, QueryEnabled(run), TRUE)
  <2>1. /\ Received /\ Head(toNative).kind \in {"supported", "refresh", "query"}
        /\ toDart' = Append(toDart, m)
        /\ UNCHANGED <<run, native, dart, budget>>
    BY <1>3 DEF Answer
  <2>2. m \in Answers /\ m.kind # "changed"
    <3>1. QueryEnabled(run) \in BOOLEAN
      BY DEF QueryEnabled
    <3> QED BY <2>1, <3>1, MessageTypes DEF Message
  <2>3. toDart' \in Seq(Answers)
    BY <1>t, <2>1, <2>2, AppendProperties
  <2>4. Tells(toDart, native.on) => Tells(toDart', native.on)
    <3> HIDE DEF m
    <3> QED BY <1>t, <2>1, <2>2, AppendTells
  <2>5. toNative' \in Seq(Calls) /\ Follows'
    BY <1>2, <2>1, <2>4
  <2> QED BY <2>1, <2>3, <2>5 DEF TypeOK
<1>4. CASE SetCalled
  <2>1. /\ Received /\ Head(toNative).kind = "set"
        /\ SetAutoStart(Head(toNative).on, TRUE)
        /\ UNCHANGED <<dart, budget>>
    BY <1>4 DEF SetCalled
  <2>2. Head(toNative).on \in BOOLEAN
    BY <2>1, ReceivedTypes DEF Calls
  <2>3. /\ run' \in Values /\ native' \in Runners /\ native'.able = native.able
        /\ toDart' \in Seq(Answers) /\ Tells(toDart', native'.on)
    BY <2>1, <2>2, SetTells
  <2>4. toNative' \in Seq(Calls) /\ Follows'
    BY <1>2, <2>1, <2>3
  <2> QED BY <2>1, <2>3, <2>4 DEF TypeOK
\* The runner changes what it holds, or not, and tells.
<1>5. ASSUME UNCHANGED <<dart, toNative>>, native'.able = native.able,
             \/ native'.on = native.on /\ (Tells(toDart, native.on) => Tells(toDart', native.on))
             \/ Tells(toDart', native'.on)
      PROVE  Follows'
  BY <1>5, <1>f DEF Follows, Delivered
<1>6. CASE ShowTrayMenu
  <2> DEFINE live == QueryEnabled(run)
             m    == Message("changed", live, TRUE)
  <2>1. Spend("menus") /\ UNCHANGED <<run, dart, toNative>>
    BY <1>6 DEF ShowTrayMenu
  <2>2. live \in BOOLEAN
    BY DEF QueryEnabled
  <2>3. m \in Answers /\ m.kind = "changed" /\ m.on = live
    BY <2>2, MessageTypes DEF Message
  <2>4. native' \in Runners /\ native'.able = native.able /\ toDart' \in Seq(Answers)
        /\ \/ native'.on = native.on /\ toDart' = toDart
           \/ Tells(toDart', native'.on)
    <3>1. CASE /\ native' = [native EXCEPT !.menu = TRUE, !.on = live]
               /\ toDart' = Append(toDart, m)
      <4>1. native' \in Runners /\ native'.able = native.able /\ native'.on = live
        BY <1>t, <2>2, <3>1
      <4> HIDE DEF m, live
      <4>2. toDart' \in Seq(Answers) /\ Tells(toDart', live)
        BY <1>t, <2>3, <3>1, AppendProperties, AppendTells
      <4> QED BY <4>1, <4>2
    <3>2. CASE native' = [native EXCEPT !.menu = TRUE] /\ UNCHANGED toDart
      BY <1>t, <3>2
    <3> QED BY <1>6, <3>1, <3>2 DEF ShowTrayMenu
  <2>5. Follows'
    BY <1>5, <2>1, <2>4
  <2> QED BY <2>1, <2>4, <2>5, <1>t, SpendTypes DEF TypeOK
<1>7. CASE MenuAutoStart
  <2>1. native.on \in BOOLEAN /\ (~native.on) \in BOOLEAN
    BY <1>t
  <2>2. /\ run' \in Values /\ native' \in Runners /\ native'.able = native.able
        /\ toDart' \in Seq(Answers) /\ Tells(toDart', native'.on)
    BY <1>7, <2>1, SetTells DEF MenuAutoStart
  <2>3. UNCHANGED <<dart, toNative, budget>>
    BY <1>7 DEF MenuAutoStart
  <2> QED BY <1>5, <2>2, <2>3 DEF TypeOK
<1>8. CASE MenuCloses
  <2>1. native' = [native EXCEPT !.menu = FALSE] /\ UNCHANGED <<run, dart, toNative, toDart, budget>>
    BY <1>8 DEF MenuCloses
  <2>2. native' \in Runners /\ native'.able = native.able /\ native'.on = native.on
    BY <1>t, <2>1
  <2> QED BY <1>5, <2>1, <2>2 DEF TypeOK
<1>9. CASE OtherPush
  <2> DEFINE m == Message("push", dart.able /\ dart.on, dart.able)
  <2>1. /\ Spend("pushes") /\ toNative' = Append(toNative, m)
        /\ UNCHANGED <<run, native, dart, toDart>>
    BY <1>9 DEF OtherPush
  <2>2. m \in Calls
    BY <1>t, MessageTypes
  <2>3. m.kind = "push" /\ m.able = dart.able /\ (dart.able => m.on = dart.on)
    BY <1>t DEF Message
  <2>4. toNative' \in Seq(Calls)
    BY <1>t, <2>1, <2>2, AppendProperties
  <2>5. LastShows(toNative', dart.able, dart.on) /\ HasPush(toNative')
    <3> HIDE DEF m
    <3> QED BY <1>t, <2>1, <2>2, <2>3, AppendShows
  <2> QED BY <1>t, <1>f, <2>1, <2>4, <2>5, SpendTypes DEF TypeOK, Follows, Delivered
<1>10. ASSUME NEW on \in BOOLEAN, SetEnabled(on) PROVE TypeOK' /\ Follows'
  <2> DEFINE d    == [dart EXCEPT !.on = on]
             then == <<Message("set", on, TRUE)>>
  <2>1. Spend("toggles") /\ Push(d, then) /\ UNCHANGED <<run, native, toDart>>
    BY <1>10 DEF SetEnabled
  <2>2. d \in Mirrors /\ d.sent = dart.sent
    BY <1>t
  <2>3. \E x \in BOOLEAN : then = <<Message("set", x, TRUE)>>
    OBVIOUS
  <2>4. dart' \in Mirrors /\ toNative' \in Seq(Calls) /\ Follows'
    <3> HIDE DEF d, then
    <3> QED BY <2>1, <2>2, <2>3, PushFollows
  <2> QED BY <1>t, <2>1, <2>4, SpendTypes DEF TypeOK
<1>11. ASSUME NEW kind \in {"supported", "set"}, NEW m \in Calls, m.kind # "push",
              Arrives({kind}), toNative' = Append(toNative, m),
              UNCHANGED <<run, native, dart, budget>>
       PROVE  TypeOK' /\ Follows'
  <2>1. Tells(toDart, native.on) => Tells(toDart', native.on)
    BY <1>11, AnswerArrives
  <2>2. toNative' \in Seq(Calls) /\ Follows'
    BY <1>11, <2>1, OtherCall
  <2>3. toDart' \in Seq(Answers)
    BY <1>11, ArrivesTypes
  <2> QED BY <1>11, <2>2, <2>3 DEF TypeOK
<1>12. CASE Supported
  <2>1. Message("refresh", FALSE, TRUE) \in Calls /\ Message("refresh", FALSE, TRUE).kind # "push"
    BY MessageTypes DEF Message
  <2> QED BY <1>11, <1>12, <2>1 DEF Supported
<1>13. CASE SetAnswered
  <2>1. Message("query", FALSE, TRUE) \in Calls /\ Message("query", FALSE, TRUE).kind # "push"
    BY MessageTypes DEF Message
  <2> QED BY <1>11, <1>13, <2>1 DEF SetAnswered
<1>14. CASE Mirror
  <2> DEFINE d == [dart EXCEPT !.on = Head(toDart).on,
                               !.able = @ \/ Head(toDart).kind = "refresh"]
  <2>1. /\ Arrives({"refresh", "query", "changed"}) /\ Push(d, <<>>)
        /\ UNCHANGED <<run, native, budget>>
    BY <1>14 DEF Mirror
  <2>2. Head(toDart) \in Answers /\ toDart' \in Seq(Answers)
    BY <2>1, ArrivesTypes
  <2>3. Head(toDart).on \in BOOLEAN /\ (dart.able \/ Head(toDart).kind = "refresh") \in BOOLEAN
    BY <2>2 DEF Answers
  <2>4. d \in Mirrors /\ d.sent = dart.sent /\ d.on = Head(toDart).on
    BY <1>t, <2>3
  <2>5. toDart # <<>> /\ toDart' = Tail(toDart)
    BY <2>1 DEF Arrives
  <2>6. Tells(toDart, native.on) => Tells(toDart', native.on) \/ d.on = native.on
    BY <1>t, <2>4, <2>5, TailTells
  <2>7. dart' \in Mirrors /\ toNative' \in Seq(Calls) /\ Follows'
    <3> HIDE DEF d
    <3> QED BY <2>1, <2>4, <2>6, PushFollows
  <2> QED BY <2>1, <2>2, <2>7 DEF TypeOK
<1>15. CASE UserEdits
  <2>1. Spend("edits") /\ run' \in Values /\ UNCHANGED <<native, dart, toNative, toDart>>
    BY <1>15 DEF UserEdits
  <2> QED BY <1>f, <2>1, SpendTypes DEF TypeOK, Follows, Delivered
<1>16. CASE UNCHANGED vars
  BY <1>f, <1>16 DEF vars, TypeOK, Follows, Delivered
<1> QED
  BY <1>1, <1>3, <1>4, <1>6, <1>7, <1>8, <1>9, <1>10, <1>12, <1>13, <1>14, <1>15, <1>16
     DEF Next, Deliver

-----------------------------------------------------------------------------
\* Every variable keeps to its type, however long the queues become (OnCreate's channel,
\* AutoStartController).
THEOREM TypeCorrect == Spec => []TypeOK
<1>1. TypeOK /\ Follows /\ [Next]_vars => TypeOK' /\ Follows'
  BY NextKeeps
<1>2. Init => TypeOK /\ Follows
  BY InitHolds
<1> QED BY <1>1, <1>2, PTL DEF Spec

\* When nothing is on its way, the tick in the menu of the icon and the switch on the
\* settings page say the same (NotifyAutoStartChanged, SystemTray.sync), however often and
\* in whatever order the two sides and the user have changed the value.
THEOREM AlwaysAgree == Spec => []AgreeWhenQuiet
<1>1. TypeOK /\ Follows /\ [Next]_vars => TypeOK' /\ Follows'
  BY NextKeeps
<1>2. Init => TypeOK /\ Follows
  BY InitHolds
<1>3. Follows => AgreeWhenQuiet
  <2> SUFFICES ASSUME Follows, toNative = <<>>, toDart = <<>>
               PROVE  native.able = dart.able /\ (dart.able => native.on = dart.on)
    BY DEF AgreeWhenQuiet, Quiet
  <2>1. ~HasPush(toNative) /\ ~Tells(toDart, native.on)
    BY DEF HasPush, Tells
  <2> QED BY <2>1 DEF Follows, Delivered
<1> QED BY <1>1, <1>2, <1>3, PTL DEF Spec
=============================================================================
