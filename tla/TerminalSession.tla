-------------------------- MODULE TerminalSession --------------------------
(***************************************************************************)
(* What a session promises to the person at the other end, with none of    *)
(* its tasks, channels, mutexes, buffers and processes: one command, two   *)
(* streams that are neither lost, repeated nor reordered, one exit code    *)
(* that is told after the output, and an end that leaves no command.       *)
(* Session implements it.                                                  *)
(***************************************************************************)
EXTENDS Naturals, Sequences

CONSTANT Codes \* the exit codes a person may be told, -1 for a signal

VARIABLES started, \* the command was started
          exit,    \* its exit code once it has ended and was reaped, or none
          printed, \* the number of bytes printed
          shown,   \* the bytes the person was shown
          typed,   \* the number of bytes typed
          taken,   \* the bytes the programs have read
          told,    \* the exit code the person was told, or none
          here,    \* the person is connected
          damaged, \* the server could not read the terminal
          refused, \* the server was not allowed to end the command
          over     \* the session has ended

vars == <<started, exit, printed, shown, typed, taken, told, here, damaged, refused, over>>

Numbers(from, n) == [i \in 1 .. n |-> from + i]

Init ==
  /\ ~started /\ exit = <<>> /\ printed = 0 /\ shown = <<>> /\ typed = 0 /\ taken = <<>>
  /\ told = <<>> /\ here = TRUE /\ ~damaged /\ ~refused /\ ~over

Start ==
  /\ ~started /\ ~over /\ started'
  /\ UNCHANGED <<exit, printed, shown, typed, taken, told, here, damaged, refused, over>>

\* Nothing is printed after the exit code was told.
Produce ==
  /\ started /\ (told = <<>> \/ damaged) /\ printed' = printed + 1
  /\ UNCHANGED <<started, exit, shown, typed, taken, told, here, damaged, refused, over>>

Show(n) ==
  /\ here /\ told = <<>> /\ Len(shown) + n <= printed
  /\ shown' = shown \o Numbers(Len(shown), n)
  /\ UNCHANGED <<started, exit, printed, typed, taken, told, here, damaged, refused, over>>

Type ==
  /\ here /\ typed' \in Nat /\ typed' > typed
  /\ UNCHANGED <<started, exit, printed, shown, taken, told, here, damaged, refused, over>>

Take ==
  /\ started /\ Len(taken) < typed /\ taken' = Append(taken, Len(taken) + 1)
  /\ UNCHANGED <<started, exit, printed, shown, typed, told, here, damaged, refused, over>>

\* The command ends, by itself or because the session does, and is reaped.
End ==
  /\ started /\ exit = <<>> /\ exit' \in {<<c>> : c \in Codes}
  /\ UNCHANGED <<started, printed, shown, typed, taken, told, here, damaged, refused, over>>

\* The exit code, once, and after all the output unless that could not be read.
Tell ==
  /\ here /\ told = <<>> /\ exit # <<>> /\ told' = exit
  /\ Len(shown) = printed \/ damaged
  /\ UNCHANGED <<started, exit, printed, shown, typed, taken, here, damaged, refused, over>>

Leave ==
  /\ here /\ ~here'
  /\ UNCHANGED <<started, exit, printed, shown, typed, taken, told, damaged, refused, over>>

Damage ==
  /\ started /\ damaged'
  /\ UNCHANGED <<started, exit, printed, shown, typed, taken, told, here, refused, over>>

\* The server may not be allowed to signal the rest of the command's group, even
\* when the command itself has ended.
Refuse ==
  /\ started /\ refused'
  /\ UNCHANGED <<started, exit, printed, shown, typed, taken, told, here, damaged, over>>

\* No session is over before its command is, unless the command may not be ended.
Finish ==
  /\ started => exit # <<>> \/ refused
  /\ ~over /\ over'
  /\ UNCHANGED <<started, exit, printed, shown, typed, taken, told, here, damaged, refused>>

Next ==
  \/ Start \/ Produce \/ Type \/ Take \/ End \/ Tell \/ Leave \/ Damage \/ Refuse \/ Finish
  \/ \E n \in 1 .. printed : Show(n)

Spec == Init /\ [][Next]_vars
=============================================================================
