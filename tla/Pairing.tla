------------------------------- MODULE Pairing -------------------------------
(***************************************************************************)
(* The two sides of the cross-node measurement and the table made of them  *)
(* (src/src/xnode.rs, pair, proxy, pair_files).  A writer on               *)
(* another machine sends the keys of the file and notes when each was sent *)
(* and acknowledged, on ITS clock; the reader of XnodeRead notes when it   *)
(* first served each, on its own.  `now` is the reader's clock, and the    *)
(* writer's reads Skew more.                                               *)
(***************************************************************************)
EXTENDS XnodeRead, Integers

CONSTANTS
  Written, \* the keys this writer sends; another run's are in the file too
  Skews,   \* how far the writer's clock may be ahead, or behind
  Margin,  \* margin_ms: the clock bound given to `proxy`
  Grain    \* what the files round a time in ms to, a tenth of one

ASSUME PairingAssumption ==
  Written \subseteq Key /\ Skews \subseteq Int /\ Margin \in Nat /\ Grain \in Nat \ {0}

VARIABLES
  skew,     \* the writer's clock less the reader's
  sentAt,   \* when each key was sent, NotYet before; by `now`
  ackAt     \* when each acknowledgement arrived, NotYet before; by `now`

wvars == <<sentAt, ackAt>>
NotYet == -1

PInit ==
  /\ Init
  /\ skew \in Skews
  /\ sentAt = [k \in Written |-> NotYet]
  /\ ackAt = [k \in Written |-> NotYet]

(* The writer's side, as the reader's machine would date it.               *)
Sends(k) ==
  /\ Running /\ sentAt[k] = NotYet
  /\ sentAt' = [sentAt EXCEPT ![k] = now]
  /\ UNCHANGED <<vars, skew, ackAt>>

Acks(k) ==
  /\ Running /\ sentAt[k] # NotYet /\ ackAt[k] = NotYet
  /\ ackAt' = [ackAt EXCEPT ![k] = now]
  /\ UNCHANGED <<vars, skew, sentAt>>

PNext ==
  \/ Next /\ UNCHANGED <<skew, wvars>>
  \/ \E k \in Written : Sends(k) \/ Acks(k)

PSpec == PInit /\ [][PNext]_<<vars, skew, wvars>>
PFairSpec == PSpec /\ WF_<<vars, skew, wvars>>(Reader /\ UNCHANGED <<skew, wvars>>)

-----------------------------------------------------------------------------
(* The lines of the two files: a PUT line for each key sent, with the      *)
(* writer's own times, a READ line for each key read.  What a READ line    *)
(* says is when the round that read the key was over.                      *)
rounded(t) == LET up == t + Grain \div 2 IN up - (up % Grain)

Sent == {k \in Written : sentAt[k] # NotYet}
sent_ns(k) == sentAt[k] + skew
ack_ms(k) == rounded(ackAt[k] - sentAt[k])
Acked(k) == ackAt[k] # NotYet
at_msStart(k) == rounded(hit_at[k] - Burst)  \* Slip: the round's beginning
at_ms(k) == rounded(hit_at[k])

(* pair: every READ line is joined with the PUT line of its key, unless it *)
(* has none, or was read before it was sent.                               *)
far_ms(k) == at_ms(k) - sent_ns(k)
unmatched == Range(reads) \ Sent
refused == {k \in Range(reads) \cap Sent : far_ms(k) < 0}

deltas == (Range(reads) \cap Sent) \ refused

(* proxy: which came first, as far as the clocks can tell.                 *)
far_firstBare ==   \* Slip: the clock bound is not taken off
  {k \in deltas : Acked(k) /\ far_ms(k) < ack_ms(k)}
far_first == {k \in deltas : Acked(k) /\ far_ms(k) + Margin < ack_ms(k)}
ack_first == {k \in deltas : Acked(k) /\ ack_ms(k) + Margin < far_ms(k)}
far_without_ack == {k \in deltas : ~Acked(k)}

-----------------------------------------------------------------------------
(* Properties.                                                             *)

(* The clocks differ by less than the bound, which has room for what the   *)
(* two roundings may add.                                                  *)
Close == skew + (Grain - 1) <= Margin /\ (Grain - 1) - skew <= Margin

(* When the far node handed over a block that was read: its probe's unit   *)
(* of time was over.                                                       *)
served(k) == looked[k] + 1

(* With such clocks no pair is called sound whose block was served before  *)
(* its send by more than the bound and the rest of a round, a refused one  *)
(* was indeed served before, or within the bound of, its send, and no hit  *)
(* is lost between the three counts.                                       *)
PairsAreSound ==
  Close =>
    /\ \A k \in deltas : served(k) + (Burst - 1) >= sentAt[k] - Margin
    /\ \A k \in refused : served(k) < sentAt[k] + Margin
    /\ Range(reads) = deltas \cup refused \cup unmatched

(* "The far node was first" is said only of blocks that were served there  *)
(* before their acknowledgement arrived, and "the ack was first" only of   *)
(* blocks whose acknowledgement arrived before the end of the round that   *)
(* read them, for any such clocks; "readable, never acknowledged" is true  *)
(* whatever the clocks say.                                                *)
FarFirstIsTrue ==
  /\ Close => /\ \A k \in far_first : served(k) < ackAt[k]
              /\ \A k \in ack_first : ackAt[k] < served(k) + (Burst - 1)
  /\ far_without_ack \subseteq has
=============================================================================
