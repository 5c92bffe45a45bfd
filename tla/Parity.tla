------------------------------- MODULE Parity -------------------------------
(***************************************************************************)
(* The group probe as it is run (src/src/parity.rs): `write`, then `read`  *)
(* on the far node, `reput` of the keys that were missed, `read` again of  *)
(* the re-put file, and `score`.  The roles are processes of their own;    *)
(* they share the files they leave and nothing else.                       *)
(***************************************************************************)
EXTENDS ParityWrite

CONSTANTS
  PerKey,      \* per_key_secs: how long a reader goes on
  ProbeTime,   \* the longest a probe takes: its send, then probe_ms
  Thresholds   \* the times the tables ask about

ASSUME ParityAssumption ==
  PerKey \in Nat \ {0} /\ ProbeTime \in Nat /\ Thresholds \subseteq Nat

VARIABLES
  role,     \* the role that runs: write, read, reput, reread, then score
  todo,     \* keys this round has still to ask
  still,    \* keys of this round that stay cold
  asking,   \* the probe's key, NoName between probes
  clock,    \* the role's clock
  gets,     \* keys with a GET the node may still answer
  found,    \* READ lines of this round, not flushed
  reads,    \* the two read files: outcome per key, Miss for a MISS line
  acks,     \* the re-put's acknowledgements
  again,    \* the re-put file: outcome per re-put key
  resent,   \* the blocks the re-put has sent
  placed    \* blocks the far node can serve

rvars == <<todo, still, asking, clock, gets, found, reads>>
pvars == <<acks, again, resent>>
vars == <<wvars, role, rvars, pvars, placed>>

Miss == -1
Readers == {"read", "reread"}

(* What a reader asks for: all of a full group, the data of a control one. *)
Asked(bs) == {b \in bs : Plan[b[1]].arm = Full \/ ~IsParity(b)}

(* The files a writer leaves: the plan up to some block.                   *)
UpTo(b) == {c \in Blocks : c = b \/ Before(c, b)}
Left == {{}} \cup {UpTo(b) : b \in Blocks}

(* A run begins with the writer, or with a reader on a file that a writer  *)
(* left; which acknowledgements it holds plays no part in reading it.      *)
Init ==
  /\ WInit
  /\ \/ role = "write" /\ disk = NoFile /\ todo = {}
     \/ /\ role = "read"
        /\ \E bs \in Left \ {{}} : disk = [blocks |-> bs, acks |-> {}]
        /\ todo = Asked(disk.blocks)
  /\ still = {} /\ asking = NoName /\ clock = 0
  /\ gets = {} /\ found = <<>> /\ reads = [r \in Readers |-> <<>>]
  /\ acks = <<>> /\ again = <<>> /\ resent = {} /\ placed = {}

-----------------------------------------------------------------------------
(* A role that starts is a new process: new clock, new connection.         *)
NewClock == clock' = 0 /\ gets' = {} /\ found' = <<>> /\ still' = {} /\ asking' = NoName

WriteOver ==
  /\ role = "write" /\ phase \in Ended
  /\ role' = "over"
  /\ UNCHANGED <<wvars, rvars, pvars, placed>>

InRead == role \in Readers
Cold == todo \cup still
first(bs) == CHOOSE b \in bs : \A c \in bs : ~Before(c, b)
key == first(todo)

(* The round-robin asks its next key, unless the deadline has passed.      *)
Ask ==
  /\ InRead /\ asking = NoName /\ todo # {} /\ clock < PerKey
  /\ asking' = key /\ gets' = gets \cup {key}
  /\ UNCHANGED <<wvars, role, todo, still, clock, found, reads, pvars, placed>>

(* Slip: the answer that comes is taken for the probe's.                   *)
ReadAnswerAny(b) ==
  /\ InRead /\ asking # NoName /\ b \in gets \cap placed
  /\ gets' = gets \ {b}
  /\ found' = insert(found, asking, clock)
  /\ todo' = todo \ {asking} /\ asking' = NoName
  /\ UNCHANGED <<wvars, role, still, clock, reads, pvars, placed>>

(* A GetResponse is read: its own key's ends the probe, any other is       *)
(* consumed and credited to nobody.                                        *)
ReadAnswer(b) ==
  /\ InRead /\ asking # NoName /\ b \in gets \cap placed
  /\ gets' = gets \ {b}
  /\ IF b = asking
     THEN /\ found' = insert(found, b, clock)
          /\ todo' = todo \ {b} /\ asking' = NoName
     ELSE UNCHANGED <<found, todo, asking>>
  /\ UNCHANGED <<wvars, role, still, clock, reads, pvars, placed>>

(* The probe's bound passes, or an error comes, and its key stays cold.    *)
ProbeEnds ==
  /\ InRead /\ asking # NoName
  /\ todo' = todo \ {asking} /\ still' = still \cup {asking}
  /\ asking' = NoName
  /\ UNCHANGED <<wvars, role, clock, gets, found, reads, pvars, placed>>

(* A round is over: its lines are flushed.  With no key cold, or the       *)
(* deadline passed, the role ends with a MISS line for each key still cold.*)
RoundOver ==
  /\ InRead /\ asking = NoName /\ (todo = {} \/ clock >= PerKey)
  /\ IF Cold # {} /\ clock < PerKey
     THEN /\ reads' = [reads EXCEPT ![role] = over(found, @)]
          /\ todo' = still /\ still' = {} /\ found' = <<>>
          /\ UNCHANGED <<role, clock, gets, asking>>
     ELSE /\ reads' = [reads EXCEPT ![role] =
                         over(found, over([b \in Cold |-> Miss], @))]
          /\ role' = IF role = "read" THEN "reput" ELSE "score"
          /\ todo' = {} /\ NewClock
  /\ UNCHANGED <<wvars, pvars, placed>>

(* A reader is killed: the round's lines are gone, and no MISS is written. *)
ReaderKilled ==
  /\ InRead
  /\ role' = IF role = "read" THEN "reput" ELSE "score"
  /\ todo' = {} /\ NewClock
  /\ UNCHANGED <<wvars, reads, pvars, placed>>

-----------------------------------------------------------------------------
(* Slip: the keys of the groups file that no READ line names.              *)
stuckUnread == {b \in disk.blocks : b \notin DOMAIN reads.read \/ reads.read[b] = Miss}

(* reput puts again, from their seeds, the keys with a MISS line.          *)
stuck == {b \in disk.blocks : b \in DOMAIN reads.read /\ reads.read[b] = Miss}

(* They are sent one after the other, in the order of the file, before any *)
(* acknowledgement is read; how long that takes is compared with nothing.  *)
ReputSend ==
  /\ role = "reput" /\ resent # stuck
  /\ resent' = resent \cup {first(stuck \ resent)}
  /\ UNCHANGED <<wvars, role, rvars, acks, again, placed>>

(* Its acknowledgements are kept by key; a repeat replaces the first.      *)
ReputAck(b) ==
  /\ role = "reput" /\ resent = stuck
  /\ b \in stuck /\ DOMAIN acks # stuck
  /\ acks' = insert(acks, b, IF clock > Bound THEN "Late" ELSE "Within")
  /\ UNCHANGED <<wvars, role, rvars, again, resent, placed>>

(* A send fails, a seed does not give its block again, or the role is      *)
(* killed: its lines are all written at its end, so its file stays empty,  *)
(* and `read` refuses a file without any.                                  *)
ReputDies ==
  /\ role = "reput"
  /\ role' = "score" /\ acks' = <<>>
  /\ todo' = {} /\ NewClock
  /\ UNCHANGED <<wvars, reads, again, resent, placed>>

(* All are in, or the grace is over; the file holds each block's outcome.  *)
ReputOver ==
  /\ role = "reput" /\ resent = stuck
  /\ DOMAIN acks = stuck \/ clock >= 2 * Bound
  /\ again' = [b \in stuck |-> IF b \in DOMAIN acks THEN acks[b] ELSE "Never"]
  /\ acks' = <<>>
  /\ role' = IF stuck = {} THEN "score" ELSE "reread"
  /\ todo' = Asked(stuck) /\ NewClock
  /\ UNCHANGED <<wvars, reads, resent, placed>>

ScoreOver ==
  /\ role = "score" /\ role' = "over"
  /\ UNCHANGED <<wvars, rvars, pvars, placed>>

(* Time passes in the roles that wait on a node.  A reader begins no probe *)
(* after its deadline; one begun before it takes the time it takes.        *)
Latest == PerKey + ProbeTime
RTick ==
  /\ \/ InRead /\ clock < (IF asking = NoName THEN PerKey ELSE Latest)
     \/ role = "reput" /\ resent = stuck /\ stuck # {} /\ clock < 2 * Bound
  /\ clock' = clock + 1
  /\ UNCHANGED <<wvars, role, todo, still, asking, gets, found, reads, pvars, placed>>

(* A block becomes fetchable at the far node, some time or never.          *)
Place(b) ==
  /\ role \in Readers /\ b \in Asked(disk.blocks) \ placed
  /\ placed' = placed \cup {b}
  /\ UNCHANGED <<wvars, role, rvars, pvars>>

Write == role = "write" /\ WNext /\ UNCHANGED <<role, rvars, pvars, placed>>

Read == Ask \/ ProbeEnds \/ RoundOver \/ (\E b \in Blocks : ReadAnswer(b))
Roles == WriteOver \/ Read \/ ReputSend \/ ReputOver \/ ScoreOver

Next ==
  \/ Write \/ Roles \/ ReaderKilled \/ ReputDies \/ RTick
  \/ \E b \in Blocks : ReputAck(b) \/ Place(b)

Spec == Init /\ [][Next]_vars

-----------------------------------------------------------------------------
(* The score: what the tables say of a file and the reads of it.           *)
Never == Latest + 1
hasRead(b) == b \in DOMAIN reads.read
timeOf(b) == IF hasRead(b) /\ reads.read[b] # Miss THEN reads.read[b] ELSE Never
fetched(b, t) == timeOf(b) <= t

(* Table 1: of the blocks that were asked for.                             *)
asked == {b \in disk.blocks : hasRead(b)}

(* Table 3: groups with m fetched of their data and first p parity blocks. *)
Of(g) == {b \in disk.blocks : b[1] = g}
scored == {g \in {b[1] : b \in disk.blocks} : Plan[g].arm = Full}

readableMore(g, p, t) ==   \* Slip: one more than m is asked for
  Cardinality({b \in Of(g) : b[2] <= Plan[g].m + p /\ fetched(b, t)}) > Plan[g].m

readable(g, p, t) ==
  Cardinality({b \in Of(g) : b[2] <= Plan[g].m + p /\ fetched(b, t)}) >= Plan[g].m

(* Table 4: a group's misses.                                              *)
misses(g) == Cardinality({b \in Of(g) : timeOf(b) = Never})

(* Table 5: when the m-th block of a group was there, and its whole data.  *)
mth(bs, m) ==
  LET ts == {timeOf(b) : b \in bs}
      enough == {t \in ts : Cardinality({b \in bs : timeOf(b) <= t}) >= m}
  IN  IF enough = {} THEN Never ELSE Min(enough)
with(g) == mth(Of(g), Plan[g].m)
without(g) == mth({b \in Of(g) : ~IsParity(b)}, Plan[g].m)

(* Table 7: keys asked for and missed, and those the re-put brought back.  *)
stuckAsked == {b \in asked : timeOf(b) = Never}
back == {b \in stuckAsked : b \in DOMAIN reads.reread /\ reads.reread[b] # Miss}

-----------------------------------------------------------------------------
(* Properties.                                                             *)

Written == Lines(disk, sink)

(* Every key's outcome is its own: it has an ACK line exactly when the     *)
(* node acknowledged that very put and the answer was read, whatever was   *)
(* read in between and however many times; so no group's late answers are  *)
(* counted for another's.                                                  *)
OwnAck ==
  role = "write" /\ phase # "killed" =>
    \A b \in sent :
      /\ AckLines(Written, b) # {} => b \in done
      /\ b \in done \ ToSet(socket) => AckLines(Written, b) # {}

(* "A run that dies leaves every completed group readable": an ACK line is *)
(* never on disk without its record, a group that was gone on from is      *)
(* there whole, and the file is the plan up to some block.                 *)
CrashSafe ==
  role = "write" =>
    /\ \A l \in disk.acks : l[1] \in disk.blocks
    /\ phase \notin {"drain", "flush", "killed"} =>
         \A g \in 1 .. next[1] - 1 : Members(g) \subseteq disk.blocks
    /\ disk.blocks \in Left

(* The role bails on its own file only when a put was answered with an     *)
(* error, which the recording pairs with a put and the file with none, or  *)
(* when an acknowledgement came after the bound and was written as within  *)
(* it: nothing else sets the file and the recording apart.                 *)
BailIsExplained ==
  phase = "bailed" /\ disk.blocks # {} =>
    \/ faults.err > 0
    \/ \E b \in DOMAIN ackMs : ackMs[b] > Bound /\ rounded(ackMs[b]) <= Bound

(* A READ line is of a block the far node had, whatever answers came while *)
(* it was asked for; and a read file with a MISS line accounts for every   *)
(* key that was to be read and for no other.                               *)
HonestReads ==
  \A r \in Readers :
    /\ \A b \in DOMAIN reads[r] : reads[r][b] # Miss => b \in placed
    /\ Miss \in {reads[r][b] : b \in DOMAIN reads[r]} =>
         DOMAIN reads[r] = IF r = "read" THEN Asked(disk.blocks)
                           ELSE Asked(DOMAIN again)

(* The tables of the score agree on every group that was written whole: a  *)
(* group readable with all its parity in the reader's time has no more     *)
(* misses than that, and one that is not has more of them, or a block that *)
(* was read by a probe that ran past that time; more parity never makes it *)
(* less readable, and the times of table 5 are those at which table 3      *)
(* begins to count it.                                                     *)
SectionsAgree ==
  role = "score" =>
    \A g \in scored : Of(g) = Members(g) =>
        /\ readable(g, Parity, PerKey) => misses(g) <= Parity
        /\ misses(g) <= Parity =>
             \/ readable(g, Parity, PerKey)
             \/ \E b \in Of(g) : PerKey < timeOf(b) /\ timeOf(b) < Never
        /\ \A t \in Thresholds, p \in 0 .. Parity :
             readable(g, p, t) => readable(g, Parity, t)
        /\ \A t \in Thresholds :
             /\ readable(g, Parity, t) <=> with(g) <= t
             /\ readable(g, 0, t) <=> without(g) <= t

(* However far the re-put got, it sent only what a reader that ran to its  *)
(* end asked for and missed, never a control group's parity; its file      *)
(* names all of that or nothing; and the score counts a key as recovered   *)
(* only when every key it sets it against was put again.                   *)
RecoveryIsOwn ==
  role = "score" =>
    /\ resent \subseteq stuckAsked
    /\ \A b \in resent : Plan[b[1]].arm = Full \/ ~IsParity(b)
    /\ DOMAIN again \in {{}, stuckAsked}
    /\ back # {} => resent = stuckAsked
=============================================================================
