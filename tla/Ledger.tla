-------------------------------- MODULE Ledger --------------------------------
(***************************************************************************)
(* The hash-chained ledger (core/ledger/ledger.ts) and the storage it is   *)
(* kept in.                                                                *)
(*                                                                         *)
(* Every call is one step: it reads and writes localStorage without an     *)
(* await.  A hash is the tuple of what is hashed, so two entries hash      *)
(* alike exactly when they are alike; what an entry says is one of Bodies. *)
(* The clock may step backwards.  Storage can be damaged between calls: an *)
(* entry edited or lost, the chain cut, the bytes made unreadable.         *)
(***************************************************************************)
EXTENDS Naturals, Sequences, Functions

CONSTANTS
  Bodies,       \* what an entry records
  LedgerLimit,  \* entries that prune keeps
  MaxSeq,       \* bound on sequence numbers
  MaxNow,       \* bound on instants
  MaxDamages    \* how often storage is damaged

ASSUME LedgerConstants == {LedgerLimit, MaxSeq, MaxNow, MaxDamages} \subseteq Nat /\ LedgerLimit > 0

VARIABLES
  now,         \* the clock
  chain,       \* the stored anchor and entries, or unreadable bytes
  checkpoint,  \* a head someone took and kept outside
  damaged,     \* was storage damaged since it last was whole?
  damages,     \* how often it was damaged at all
  quarantine   \* the broken chains set aside, each told by its damage, by instant

ledgerVars == <<now, chain, checkpoint, damaged, damages, quarantine>>

Genesis == [seq |-> 0, hash |-> <<>>, at |-> 0]
NoChain == [anchor |-> Genesis, entries |-> <<>>]
Unreadable == [anchor |-> Genesis, entries |-> <<>>, unreadable |-> TRUE]
Readable == chain # Unreadable

HashOf(e) == <<e.seq, e.at, e.body, e.prev>>
Checkpoint(e) == [seq |-> e.seq, hash |-> e.hash, at |-> e.at]

(* headOf: the last entry as a checkpoint, or the anchor. *)
HeadOf(c) == IF c.entries = <<>> THEN c.anchor ELSE Checkpoint(c.entries[Len(c.entries)])

(* build: the entry that follows a checkpoint. *)
Build(previous, body, at) ==
  LET e == [seq |-> previous.seq + 1, at |-> at, body |-> body, prev |-> previous.hash]
  IN [seq |-> e.seq, at |-> at, body |-> body, prev |-> e.prev, hash |-> HashOf(e)]

(* verifyLedgerChain: may entry n follow what precedes it? *)
Follows(c, n) ==
  LET e == c.entries[n]
      previous == IF n = 1 THEN c.anchor ELSE Checkpoint(c.entries[n - 1])
  IN e.seq = previous.seq + 1 /\ e.prev = previous.hash /\ HashOf(e) = e.hash /\ e.at >= previous.at

(* How many entries verify, from the anchor on. *)
Verified(c) ==
  CHOOSE n \in 0..Len(c.entries) :
    /\ \A m \in 1..n : Follows(c, m)
    /\ n < Len(c.entries) => ~Follows(c, n + 1)

Intact(c) == Verified(c) = Len(c.entries)
Verifies(c) == Readable /\ Intact(c)

(* Mutant: only the head itself counts as being on the chain. *)
VerifiesOnlyHead(c, expected) == Verifies(c) /\ HeadOf(c).seq = expected.seq /\ HeadOf(c).hash = expected.hash

(* ... and, given an expected head, is that head on the chain? *)
VerifiesHead(c, expected) ==
  /\ Verifies(c)
  /\ [seq |-> expected.seq, hash |-> expected.hash] \in
       {[seq |-> p.seq, hash |-> p.hash] : p \in {c.anchor, HeadOf(c)} \cup Range(c.entries)}

(* findIndex: where the entry with a sequence number is. *)
IndexOfSeq(c, seq) ==
  CHOOSE n \in DOMAIN c.entries : c.entries[n].seq = seq /\ \A m \in 1..(n - 1) : c.entries[m].seq # seq

(* Mutant: a part of the chain is exported under the chain's own anchor. *)
PartUnanchored(c, from) ==
  [anchor |-> c.anchor,
   entries |-> IF from <= c.anchor.seq + 1 THEN c.entries
               ELSE SubSeq(c.entries, IndexOfSeq(c, from), Len(c.entries))]

(* The part of the chain from a sequence number on: the entry before it is *)
(* its anchor.                                                             *)
PartFrom(c, from) ==
  IF from <= c.anchor.seq + 1
  THEN [anchor |-> c.anchor, entries |-> c.entries]
  ELSE [anchor |-> Checkpoint(c.entries[IndexOfSeq(c, from) - 1]),
        entries |-> SubSeq(c.entries, IndexOfSeq(c, from), Len(c.entries))]

(* export: the part under a header with its head and its length. *)
Exported(c, from) ==
  LET part == PartFrom(c, from)
  IN [anchor |-> part.anchor, entries |-> part.entries, head |-> HeadOf(part), count |-> Len(part.entries)]

(* verifyLedgerExport. *)
VerifiesExport(x) == Intact(x) /\ HeadOf(x) = x.head /\ Len(x.entries) = x.count

-----------------------------------------------------------------------------
(* The instant a caller gives is optional. *)
FromClock == <<>>

(* Mutant: an instant from the clock is taken as it is. *)
InstantUnclamped(given, head) == IF given = FromClock THEN now ELSE Head(given)

(* The instant of an entry: one read from the clock is clamped. *)
Instant(given, head) == IF given = FromClock THEN (IF now < head.at THEN head.at ELSE now) ELSE Head(given)

(* append, with an instant given by the caller or read from the clock. *)
AppendEntry(body, given) ==
  LET head == HeadOf(chain)
  IN /\ Readable
     /\ LET n == Len(chain.entries) IN n > 0 => HashOf(chain.entries[n]) = chain.entries[n].hash
     /\ given # FromClock => Head(given) >= head.at
     /\ head.seq < MaxSeq
     /\ chain' = [chain EXCEPT !.entries = Append(@, Build(head, body, Instant(given, head)))]
     /\ UNCHANGED <<now, checkpoint, damaged, damages, quarantine>>

(* Mutant: the anchor becomes the first entry that is kept. *)
AnchorAfter(entries, dropped) == Checkpoint(entries[dropped + 1])

AnchorAt(entries, dropped) == Checkpoint(entries[dropped])

Prune ==
  LET dropped == Len(chain.entries) - LedgerLimit
  IN /\ Readable /\ Len(chain.entries) > LedgerLimit
     /\ chain' = [anchor |-> AnchorAt(chain.entries, dropped),
                  entries |-> SubSeq(chain.entries, dropped + 1, Len(chain.entries))]
     /\ UNCHANGED <<now, checkpoint, damaged, damages, quarantine>>

(* Mutant: what does not verify is kept as well. *)
KeptAll(c) == c.entries

Kept(c) == SubSeq(c.entries, 1, Verified(c))

(* reseal: the chain is set aside; the part that verifies, and an entry that says so. *)
Reseal ==
  LET good == HeadOf([chain EXCEPT !.entries = SubSeq(chain.entries, 1, Verified(chain))])
      at == IF good.at > now THEN good.at ELSE now
  IN /\ ~Verifies(chain)
     /\ good.seq < MaxSeq
     /\ chain' = [anchor |-> chain.anchor, entries |-> Append(Kept(chain), Build(good, "resealed", at))]
     /\ quarantine' = [quarantine EXCEPT ![now] = damages]
     /\ damaged' = FALSE
     /\ UNCHANGED <<now, checkpoint, damages>>

(* reset: the chain is gone and starts again; so does what may be expected of it. *)
ResetLedger ==
  /\ chain' = NoChain /\ damaged' = FALSE /\ checkpoint' = Genesis
  /\ UNCHANGED <<now, damages, quarantine>>

(* head(), kept outside the browser. *)
TakeCheckpoint ==
  /\ Readable
  /\ checkpoint' = HeadOf(chain)
  /\ UNCHANGED <<now, chain, damaged, damages, quarantine>>

ClockMoves ==
  /\ now' \in 0..MaxNow
  /\ UNCHANGED <<chain, checkpoint, damaged, damages, quarantine>>

WithoutEntry(entries, n) == SubSeq(entries, 1, n - 1) \o SubSeq(entries, n + 1, Len(entries))
Edited(entries, n, body) == [entries EXCEPT ![n].body = body]

StorageDamaged ==
  /\ damages < MaxDamages /\ damages' = damages + 1 /\ damaged' = TRUE
  /\ Readable
  /\ \/ chain' = Unreadable
     \/ \E n \in 1..Len(chain.entries) : chain' = [chain EXCEPT !.entries = WithoutEntry(@, n)]
     \/ \E n \in 1..Len(chain.entries), body \in Bodies : chain' = [chain EXCEPT !.entries = Edited(@, n, body)]
  /\ UNCHANGED <<now, checkpoint, quarantine>>

LedgerInit ==
  /\ now = 0 /\ chain = NoChain /\ checkpoint = Genesis
  /\ damaged = FALSE /\ damages = 0
  /\ quarantine = [at \in 0..MaxNow |-> 0]

LedgerNext ==
  \/ \E body \in Bodies, given \in {FromClock} \cup {<<at>> : at \in 0..MaxNow} : AppendEntry(body, given)
  \/ Prune \/ Reseal \/ ResetLedger \/ TakeCheckpoint \/ ClockMoves \/ StorageDamaged

LedgerSpec == LedgerInit /\ [][LedgerNext]_ledgerVars

-----------------------------------------------------------------------------
(***************************************************************************)
(* Every check the ledger offers passes on what nothing damaged. The chain *)
(* verifies after every append, whatever the clock did, after every prune, *)
(* and after a reseal of a chain damaged in any of its parts; so does,     *)
(* from whichever entry it starts, every export of it, and none that lost  *)
(* an entry; and a checkpoint taken from a chain that was never damaged    *)
(* stays on it, as far back as entries are retained (append, prune,        *)
(* reseal, verify, export, verifyLedgerExport: "so a trimmed export is not *)
(* mistaken for a complete one").                                          *)
(***************************************************************************)
UndamagedVerifies ==
  /\ ~damaged =>
       /\ Verifies(chain)
       /\ \A from \in 1..HeadOf(chain).seq :
            LET x == Exported(chain, from)
            IN /\ VerifiesExport(x)
               /\ \A n \in DOMAIN x.entries : ~VerifiesExport([x EXCEPT !.entries = WithoutEntry(@, n)])
  /\ damages = 0 /\ checkpoint.seq >= chain.anchor.seq => VerifiesHead(chain, checkpoint)

(***************************************************************************)
(* What reseal moved aside stays there ("Nothing about the broken chain is *)
(* discarded").  It does not hold: the key is the instant, and a second    *)
(* reseal within it, or after the clock stepped back, takes the key        *)
(* (README).                                                               *)
(***************************************************************************)
EvidenceKept ==
  [][\A at \in 0..MaxNow : quarantine[at] # 0 => quarantine'[at] = quarantine[at]]_ledgerVars
=============================================================================
