------------------------------ MODULE Delivery ------------------------------
(***************************************************************************)
(* What a migration promises, whatever happens in between: every sink has  *)
(* received, of each of the reader's channels, the beginning of what the   *)
(* rules make of that channel for this sink - nothing twice, nothing out   *)
(* of order, nothing that the rules keep back, and nothing of it is ever   *)
(* taken away again.                                                       *)
(***************************************************************************)
EXTENDS Naturals, Sequences

CONSTANTS
  Sinks,
  Promised(_, _, _)   \* what, by a configuration, a sink is to receive of a sequence of entries

VARIABLES
  rules,           \* the configuration
  sent,            \* per channel, the entries the reader has sent
  out              \* per sink and channel, what has arrived

vars == <<rules, sent, out>>

Begins(s, t) == Len(s) <= Len(t) /\ \A i \in 1..Len(s) : s[i] = t[i]

Init ==
  /\ sent = <<>>
  /\ out = [n \in Sinks |-> <<>>]

Empty(o, chans) ==
  \A n \in Sinks : DOMAIN o[n] = chans /\ \A c \in chans : o[n][c] = <<>>

Grows(old, new) ==
  \A n \in Sinks : DOMAIN new[n] = DOMAIN old[n] /\ \A c \in DOMAIN old[n] : Begins(old[n][c], new[n][c])

Kept(o, s) ==
  \A n \in Sinks : \A c \in DOMAIN s : Begins(o[n][c], Promised(rules, s[c], n))

(* The reader returns its channels. *)
Start ==
  /\ sent = <<>> /\ sent' # <<>>
  /\ \A c \in DOMAIN sent' : sent'[c] = <<>>
  /\ Empty(out', DOMAIN sent')

(* The reader sends more. *)
Send ==
  /\ DOMAIN sent' = DOMAIN sent
  /\ \A c \in DOMAIN sent : Begins(sent[c], sent'[c])
  /\ out' = out

(* More of what was promised arrives. *)
Arrive ==
  /\ sent' = sent
  /\ Grows(out, out')
  /\ Kept(out', sent)

Next == rules' = rules /\ (Start \/ Send \/ Arrive)

Spec == Init /\ [][Next]_vars

=============================================================================
