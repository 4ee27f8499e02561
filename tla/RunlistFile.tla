----------------------------- MODULE RunlistFile -----------------------------
(***************************************************************************)
(* Reading /proc/gpu#/runlist#/runlist: the seq_file operations of         *)
(* src/nvdebug/runlist_procfs.c.  One static iterator serves all readers.  *)
(* The kernel calls start, show, next and stop for as much as fits its     *)
(* buffer, throws away a record that did not fit and has it shown again,   *)
(* and calls start with the position it has come to for every further      *)
(* read.                                                                   *)
(***************************************************************************)
EXTENDS Integers, Sequences

CONSTANTS Readers,    \* the processes that may read the file
          Runlists    \* the runlists by name: the length of a TSG, 0 for a channel

\* A TSG is followed by its channels.
ASSUME RunlistsAssumption ==
  \A rl \in DOMAIN Runlists :
    /\ rl # "none" /\ Runlists[rl] \in Seq(Nat)
    /\ \A i, j \in DOMAIN Runlists[rl] : i < j /\ j <= i + Runlists[rl][i] => Runlists[rl][j] = 0

VARIABLES iter,     \* the static rl_iter
          pos,      \* the position of every reader
          printed,  \* the records a reader has got
          buffer,   \* those and the record that is being printed
          reshown   \* the readers for which a TSG was printed again

fileVars == <<iter, pos, printed, buffer, reshown>>

NoIter == [rl |-> "none", at |-> 0, left |-> 0, len |-> 0]
Missing == <<"missing channel">>

\* get_runlist_iter clears the iterator before it looks for the runlist.
ClearIter == iter' = NoIter
SetIter(rl) == iter' = [rl |-> rl, at |-> 1, left |-> 0, len |-> Len(Runlists[rl])]

\* The iterator has not left its runlist.
InRange == iter.rl # "none" /\ iter.at <= Len(Runlists[iter.rl])
TsgLength == Runlists[iter.rl][iter.at]
AtTsg == TsgLength > 0

\* Mutant: one channel more than the TSG has is expected.
ShowTsgOneMore(p) ==
  /\ buffer' = [buffer EXCEPT ![p] =
                  Append(@ \o [i \in 1..iter.left |-> Missing], <<iter.rl, iter.at>>)]
  /\ iter' = [iter EXCEPT !.left = TsgLength + 2]
  /\ UNCHANGED <<pos, printed, reshown>>

\* runlist_file_seq_show of a TSG: it reports the channels that are still due.
ShowTsg(p) ==
  /\ buffer' = [buffer EXCEPT ![p] =
                  Append(@ \o [i \in 1..iter.left |-> Missing], <<iter.rl, iter.at>>)]
  /\ iter' = [iter EXCEPT !.left = TsgLength + 1]
  /\ UNCHANGED <<pos, printed, reshown>>

ShowChannel(p) ==
  /\ buffer' = [buffer EXCEPT ![p] = Append(@, <<iter.rl, iter.at>>)]
  /\ UNCHANGED <<iter, pos, printed, reshown>>

\* The record fits, or it does not and will be shown again.
Fits(p) ==
  /\ printed' = [printed EXCEPT ![p] = buffer[p]]
  /\ UNCHANGED <<iter, pos, buffer, reshown>>

Overflows(p) ==
  /\ buffer' = [buffer EXCEPT ![p] = printed[p]]
  /\ reshown' = IF InRange /\ AtTsg THEN reshown \cup {p} ELSE reshown
  /\ UNCHANGED <<iter, pos, printed>>

\* runlist_file_seq_next.
SeqNext(p) ==
  /\ pos' = [pos EXCEPT ![p] = @ + 1]
  /\ iter' = [iter EXCEPT !.at = @ + 1, !.left = IF @ > 0 THEN @ - 1 ELSE 0]
  /\ UNCHANGED <<printed, buffer, reshown>>

\* A reader opens the file.
Open(p) ==
  /\ pos' = [pos EXCEPT ![p] = 0]
  /\ printed' = [printed EXCEPT ![p] = <<>>] /\ buffer' = [buffer EXCEPT ![p] = <<>>]
  /\ reshown' = reshown \ {p}
  /\ UNCHANGED iter

FileInit ==
  /\ iter = NoIter /\ pos = [p \in Readers |-> 0] /\ reshown = {}
  /\ printed = [p \in Readers |-> <<>>] /\ buffer = [p \in Readers |-> <<>>]
=============================================================================
