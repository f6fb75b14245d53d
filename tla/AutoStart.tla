----------------------------- MODULE AutoStart -----------------------------
(***************************************************************************)
(* "Start with the system" on Windows: one value in the registry, a mirror *)
(* of it in the runner (the tick in the menu of the icon) and one in Dart  *)
(* (the switch on the settings page).                                      *)
(*                                                                         *)
(* Each side tells the other in messages that arrive in order; both can    *)
(* change the value, and so can the user from outside.  Dart repeats what  *)
(* it shows with every change of anything else the icon shows, so an old   *)
(* mirror can overtake a new one.                                          *)
(***************************************************************************)
EXTENDS Naturals, Sequences

CONSTANTS MaxToggles, MaxMenus, MaxEdits, MaxPushes  \* bounds on the user and on pushes

ASSUME AutoStartAssumption ==
  MaxToggles \in Nat /\ MaxMenus \in Nat /\ MaxEdits \in Nat /\ MaxPushes \in Nat

VARIABLES
  run,       \* the value in the Run key
  native,    \* the runner: [on, able, menu]: tray_auto_start_, ..._supported_, menu open
  dart,      \* AutoStartController and SystemTray: [on, able, sent]
  toNative,  \* calls on their way
  toDart,    \* answers and notifications on their way
  budget

vars == <<run, native, dart, toNative, toDart, budget>>

\* What login makes of the value: "flagged" is the quoted path of this program with the
\* flag behind it, "bare" is the path alone, "other" names something else.
Values == {"absent", "flagged", "bare", "other"}
StartsUs(value) == value \in {"flagged", "bare"}

\* "able" of a push: Dart has asked what is supported, and says so.
Message(kind, on, able) == [kind |-> kind, on |-> on, able |-> able]
Calls == [kind : {"supported", "refresh", "query", "set", "push"}, on : BOOLEAN, able : BOOLEAN]
Answers ==
  [kind : {"supported", "refresh", "query", "set", "changed"}, on : BOOLEAN, able : {TRUE}]

TypeOK ==
  /\ run \in Values
  /\ native \in [on : BOOLEAN, able : BOOLEAN, menu : BOOLEAN]
  /\ dart \in [on : BOOLEAN, able : BOOLEAN, sent : BOOLEAN \X BOOLEAN]
  /\ toNative \in Seq(Calls)
  /\ toDart \in Seq(Answers)
  /\ budget \in [toggles : 0..MaxToggles, menus : 0..MaxMenus, edits : 0..MaxEdits,
                 pushes : 0..MaxPushes]

\* Start: the mirror of Dart is what it had stored; the first push is made before the
\* runner was asked anything (attach), the first question is whether it can at all.
Init ==
  /\ run \in Values
  /\ native = [on |-> FALSE, able |-> FALSE, menu |-> FALSE]
  /\ dart \in [on : BOOLEAN, able : {FALSE}, sent : {<<FALSE, FALSE>>}]
  /\ toNative = <<Message("push", FALSE, FALSE), Message("supported", FALSE, TRUE)>>
  /\ toDart = <<>>
  /\ budget = [toggles |-> MaxToggles, menus |-> MaxMenus, edits |-> MaxEdits,
               pushes |-> MaxPushes]

Spend(b) == budget[b] > 0 /\ budget' = [budget EXCEPT ![b] = @ - 1]

-----------------------------------------------------------------------------
(***************************************************************************)
(* The registry (auto_start.cc)                                            *)
(***************************************************************************)
\* RegistryIsEnabled compares with the quoted path, as it is.
QueryEnabled(value) == value = "bare"

\* SetEnabled: RegistrySetEnabled writes the path with the flag, or deletes the value;
\* the answer is whether what is then read back is what was wanted.  A write that is
\* refused answers FALSE.
Written(on) == IF on THEN "flagged" ELSE "absent"
Outcomes(on) ==
  {[value |-> Written(on), applied |-> QueryEnabled(Written(on)) = on],
   [value |-> run, applied |-> FALSE]}

\* Mutant: the page is told by the answer to its own call, and otherwise by nothing.
SetSilently(on, answer) ==
  \E outcome \in Outcomes(on) :
    /\ run' = outcome.value
    /\ native' = [native EXCEPT !.on = outcome.applied, !.menu = @ /\ answer]
    /\ toDart' = toDart \o (IF answer THEN <<Message("set", outcome.applied, TRUE)>> ELSE <<>>)

\* setAutoStart, which is answered, and the item of the menu, which has closed by then:
\* the answer becomes the mirror, and Dart is told.
SetAutoStart(on, answer) ==
  \E outcome \in Outcomes(on) :
    /\ run' = outcome.value
    /\ native' = [native EXCEPT !.on = outcome.applied, !.menu = @ /\ answer]
    /\ toDart' = toDart \o <<Message("changed", outcome.applied, TRUE)>>
                \o (IF answer THEN <<Message("set", outcome.applied, TRUE)>> ELSE <<>>)

-----------------------------------------------------------------------------
(***************************************************************************)
(* The runner                                                              *)
(***************************************************************************)
Received == toNative # <<>> /\ toNative' = Tail(toNative)

\* ApplyTrayState.
ApplyTrayState ==
  /\ Received /\ Head(toNative).kind = "push"
  /\ native' = [native EXCEPT !.able = Head(toNative).able, !.on = Head(toNative).on]
  /\ UNCHANGED <<run, dart, toDart, budget>>

\* autoStartSupported and getAutoStart.
Answer ==
  /\ Received /\ Head(toNative).kind \in {"supported", "refresh", "query"}
  /\ toDart' = Append(toDart, Message(Head(toNative).kind, QueryEnabled(run), TRUE))
  /\ UNCHANGED <<run, native, dart, budget>>

SetCalled ==
  /\ Received /\ Head(toNative).kind = "set"
  /\ SetAutoStart(Head(toNative).on, TRUE)
  /\ UNCHANGED <<dart, budget>>

\* ShowTrayMenu reads the registry before it draws the tick; while the menu is open
\* messages are handled.
ShowTrayMenu ==
  /\ ~native.menu /\ Spend("menus")
  /\ LET live == QueryEnabled(run) IN
     IF native.able /\ live # native.on
     THEN /\ native' = [native EXCEPT !.menu = TRUE, !.on = live]
          /\ toDart' = Append(toDart, Message("changed", live, TRUE))
     ELSE native' = [native EXCEPT !.menu = TRUE] /\ UNCHANGED toDart
  /\ UNCHANGED <<run, dart, toNative>>

\* The item of the menu wants the opposite of the mirror as it is by now.
MenuAutoStart ==
  /\ native.menu /\ native.able
  /\ SetAutoStart(~native.on, FALSE)
  /\ UNCHANGED <<dart, toNative, budget>>

\* Anything else, or nothing, is chosen.
MenuCloses ==
  /\ native.menu
  /\ native' = [native EXCEPT !.menu = FALSE]
  /\ UNCHANGED <<run, dart, toNative, toDart, budget>>

-----------------------------------------------------------------------------
(***************************************************************************)
(* Dart                                                                    *)
(***************************************************************************)
\* SystemTray.sync: what is shown is sent when it is not what was sent last, and before
\* "then", which the caller has to send.
Push(d, then) ==
  LET shown == <<d.able, d.able /\ d.on>> IN
  /\ dart' = [d EXCEPT !.sent = shown]
  /\ toNative' = toNative \o (IF shown = d.sent THEN <<>>
                              ELSE <<Message("push", shown[2], shown[1])>>) \o then

\* Something else that the icon shows has changed.
OtherPush ==
  /\ Spend("pushes")
  /\ toNative' = Append(toNative, Message("push", dart.able /\ dart.on, dart.able))
  /\ UNCHANGED <<run, native, dart, toDart>>

\* setEnabled: the mirror and the icon first, then the call.
SetEnabled(on) ==
  /\ dart.able /\ Spend("toggles")
  /\ Push([dart EXCEPT !.on = on], <<Message("set", on, TRUE)>>)
  /\ UNCHANGED <<run, native, toDart>>

Arrives(kinds) == toDart # <<>> /\ Head(toDart).kind \in kinds /\ toDart' = Tail(toDart)

\* refresh: when it can, what is it?
Supported ==
  /\ Arrives({"supported"})
  /\ toNative' = Append(toNative, Message("refresh", FALSE, TRUE))
  /\ UNCHANGED <<run, native, dart, budget>>

\* Mutant: what was not accepted is asked for again.
RetryUntilAccepted ==
  /\ Arrives({"set"})
  /\ toNative' = Append(toNative, Message(IF Head(toDart).on THEN "query" ELSE "set", TRUE, TRUE))
  /\ UNCHANGED <<run, native, dart, budget>>

\* Accepted or not, the answer to the call is followed by a query.
SetAnswered ==
  /\ Arrives({"set"})
  /\ toNative' = Append(toNative, Message("query", FALSE, TRUE))
  /\ UNCHANGED <<run, native, dart, budget>>

\* _mirror, and onNativeChanged: the mirror follows, and the icon follows the mirror.
Mirror ==
  /\ Arrives({"refresh", "query", "changed"})
  /\ Push([dart EXCEPT !.on = Head(toDart).on, !.able = @ \/ Head(toDart).kind = "refresh"],
          <<>>)
  /\ UNCHANGED <<run, native, budget>>

\* The user changes the value in the task manager or elsewhere.
UserEdits ==
  /\ Spend("edits")
  /\ run' \in Values \ {run}
  /\ UNCHANGED <<native, dart, toNative, toDart>>

-----------------------------------------------------------------------------
Deliver ==
  \/ ApplyTrayState \/ Answer \/ SetCalled
  \/ Supported \/ SetAnswered \/ Mirror

Next ==
  \/ Deliver
  \/ ShowTrayMenu \/ MenuAutoStart \/ MenuCloses
  \/ OtherPush \/ (\E on \in BOOLEAN : SetEnabled(on)) \/ UserEdits

Spec == Init /\ [][Next]_vars

\* Messages arrive; a menu does not stay open for ever.
FairSpec == Spec /\ WF_vars(Deliver) /\ WF_vars(MenuCloses)

-----------------------------------------------------------------------------
Quiet == toNative = <<>> /\ toDart = <<>>

\* When nothing is on its way, the tick in the menu and the switch on the settings page
\* say the same, whatever overtook what (NotifyAutoStartChanged, SystemTray.sync).
AgreeWhenQuiet == Quiet => native.able = dart.able /\ (dart.able => native.on = dart.on)

\* The two sides do not go on correcting one another.
FallsQuiet == []<>Quiet

\* What is shown, once nothing is on its way and nobody edits the registry, is whether
\* the login starts the program.
ShownIsTrue == Quiet /\ dart.able => dart.on = StartsUs(run)
=============================================================================
