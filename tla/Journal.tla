------------------------------- MODULE Journal -------------------------------
(***************************************************************************)
(* The journal (src/backend/src: services/ledger_service.py,               *)
(* journal_service.py, lock_date_service.py, secure_hash_service.py,       *)
(* journal_registry.py, document_edit_service.py): entries posted, drafted,*)
(* rewritten, reset, cancelled, reversed and deleted, the date up to which *)
(* the books are locked, and the chain of digests of a restricted journal. *)
(*                                                                         *)
(* A request that posts checks the lock date, takes the row of             *)
(* journal_sequence if its entry needs a number, which it holds until it   *)
(* commits, and reads the end of the chain; then it commits.  The other    *)
(* requests run at one instant.  What an entry says, its lines, is an      *)
(* element of Text; a digest is modelled by all that went into it.         *)
(***************************************************************************)
EXTENDS Integers, Sequences, FiniteSets, FiniteSetsExt, NullValue

CONSTANTS
    Entry,         \* entries, each made once
    ByHand,        \* those that no document owns
    JournalId, Misc,  \* journals; reversals go to Misc
    Month, Year,   \* months, and the year each belongs to
    Text,
    Poster,        \* concurrent requests that post
    JournalOps    \* which operations there are

ASSUME MonthAssumption == Month \subseteq Nat
ASSUME EntryAssumption == IsFiniteSet(Entry) /\ ByHand \subseteq Entry /\ Misc \in JournalId

EntryRow ==
    [state : {"draft", "posted", "cancelled"}, journal : JournalId, month : Month, text : Text,
     reverses : Entry \cup {Null}, numbered : BOOLEAN, place : Nat,
     seal : Seq(Entry \X JournalId \X Month \X Text)]

PostingRow == [entry : Entry, row : EntryRow, chained : BOOLEAN, last : Nat]

ASSUME JournalNull == Null \notin Entry \cup EntryRow \cup PostingRow

VARIABLES
    entry,      \* rows of ledger_entry
    born,       \* the entries ever made
    lockedTo,   \* fiscalyear_lock_date
    restricted, \* the journals that keep a chain
    posting     \* what a request that posts has read

journalVars == <<entry, born, lockedTo, restricted, posting>>

Existing == {e \in Entry : entry[e] # Null}
Open(m) == m > lockedTo
Sealed(e) == entry[e].seal # <<>>
Posted(e) == entry[e].state = "posted"
ReversalsOf(e) == {x \in Existing : entry[x].reverses = e}

Blank(j, m, text) ==
    [state |-> "draft", journal |-> j, month |-> m, text |-> text, reverses |-> Null,
     numbered |-> FALSE, place |-> 0, seal |-> <<>>]

-----------------------------------------------------------------------------
(* The chain. *)

InChain(j) == {e \in Existing : entry[e].journal = j /\ entry[e].place > 0}

LastPlace(j) == Max({entry[e].place : e \in InChain(j)} \cup {0})

Content(e, row) == <<e, row.journal, row.month, row.text>>

(* _previous, _digest: the digest covers that of the entry before it.       *)
Seal(e, row, place) ==
    LET earlier == {x \in InChain(row.journal) : entry[x].place < place}
        last == CHOOSE x \in earlier : \A y \in earlier : entry[y].place =< entry[x].place
    IN  Append(IF earlier = {} THEN <<>> ELSE entry[last].seal, Content(e, row))

(* _stamp_posted, for a request that saw the chain end at place.            *)
Stamped(e, row, chained, place) ==
    [row EXCEPT !.state = "posted", !.numbered = TRUE,
                !.place = IF chained THEN place + 1 ELSE 0,
                !.seal = IF chained THEN Seal(e, row, place + 1) ELSE <<>>]

-----------------------------------------------------------------------------
(* Requests that post. *)

(* Wrong on purpose: the row of journal_sequence is read without a lock.    *)
SequenceFreeAnyway(j, m) == TRUE

(* The row of a journal and year that another request has taken.            *)
SequenceFree(j, m) ==
    \A r \in Poster : posting[r] # Null /\ ~ posting[r].row.numbered =>
        posting[r].row.journal # j \/ Year[posting[r].row.month] # Year[m]

Begin(r, op, e, row) ==
    /\ op \in JournalOps
    /\ posting[r] = Null /\ Open(row.month)
    /\ ~ row.numbered => SequenceFree(row.journal, row.month)
    /\ posting' = [posting EXCEPT ![r] = [entry |-> e, row |-> row,
                     chained |-> row.journal \in restricted, last |-> LastPlace(row.journal)]]
    /\ UNCHANGED <<entry, born, lockedTo, restricted>>

(* The entries that were made, and those that are being made.               *)
Taken == born \cup {posting[q].entry : q \in {r \in Poster : posting[r] # Null}}

PostNew(r, e, j, m, text) ==
    /\ e \notin Taken
    /\ Begin(r, "post", e, Blank(j, m, text))

PostDraft(r, e) ==
    /\ e \in Existing /\ entry[e].state = "draft"
    /\ Begin(r, "draft", e, entry[e])

(* reverse_entry asks neither for the state of the entry nor for an earlier *)
(* reversal.                                                                *)
ReverseEntry(r, e, x) ==
    /\ e \in Existing /\ x \in ByHand \ Taken
    /\ Begin(r, "reverse", x, [Blank(Misc, entry[e].month, entry[e].text) EXCEPT !.reverses = e])

(* A draft is still there, posted or not; reverses_entry_id is unique and   *)
(* names an entry.                                                          *)
Commit(r) ==
    LET p == posting[r]
        old == p.row.reverses
    IN
    /\ p # Null
    /\ p.entry \in born => p.entry \in Existing
    /\ old # Null => old \in Existing /\ ReversalsOf(old) \ {p.entry} = {}
    /\ entry' = [entry EXCEPT ![p.entry] = Stamped(p.entry, p.row, p.chained, p.last)]
    /\ born' = born \cup {p.entry}
    /\ posting' = [posting EXCEPT ![r] = Null]
    /\ UNCHANGED <<lockedTo, restricted>>

Abandon(r) ==
    /\ posting[r] # Null
    /\ posting' = [posting EXCEPT ![r] = Null]
    /\ UNCHANGED <<entry, born, lockedTo, restricted>>

-----------------------------------------------------------------------------
(* Requests at one instant. *)

Write(e, row) ==
    /\ entry' = [entry EXCEPT ![e] = row]
    /\ UNCHANGED <<lockedTo, restricted, posting>>

Draft(e, j, m, text) ==
    /\ "draft" \in JournalOps
    /\ e \in ByHand \ Taken /\ Open(m)
    /\ Write(e, Blank(j, m, text))
    /\ born' = born \cup {e}

(* No lock date binds a draft.                                              *)
UpdateDraft(e, j, m, text) ==
    /\ "draft" \in JournalOps
    /\ e \in Existing /\ entry[e].state = "draft"
    /\ Write(e, [entry[e] EXCEPT !.journal = j, !.month = m, !.text = text])
    /\ UNCHANGED born

(* Wrong on purpose: only the lock date protects an entry, or only its      *)
(* digest.                                                                  *)
AlterableSealed(e) == Open(entry[e].month)
AlterableLocked(e) == ~ Sealed(e)

(* A posted entry may be taken back: it has no digest, its month is open.   *)
Alterable(e) == ~ Sealed(e) /\ Open(entry[e].month)

ResetToDraft(e) ==
    /\ "reset" \in JournalOps
    /\ e \in Existing /\ entry[e].state # "draft" /\ Alterable(e)
    /\ Write(e, [entry[e] EXCEPT !.state = "draft"])
    /\ UNCHANGED born

CancelEntry(e) ==
    /\ "reset" \in JournalOps
    /\ e \in Existing /\ (Posted(e) => Alterable(e))
    /\ Write(e, [entry[e] EXCEPT !.state = "cancelled"])
    /\ UNCHANGED born

(* replace_entry: a posted entry is stamped anew, under its number.         *)
Replace(e, j, m, text) ==
    LET row == [entry[e] EXCEPT !.journal = j, !.month = m, !.text = text] IN
    /\ "replace" \in JournalOps
    /\ e \in Existing \cap ByHand
    /\ entry[e].reverses = Null /\ ReversalsOf(e) = {}
    /\ entry[e].state # "cancelled"
    /\ Open(entry[e].month) /\ Open(m)
    /\ Posted(e) => ~ Sealed(e)
    /\ Write(e, IF Posted(e) THEN Stamped(e, row, j \in restricted, LastPlace(j)) ELSE row)
    /\ UNCHANGED born

(* _drop_entry: the entry must have no digest, its reversals are not asked. *)
(* One that is itself reversed stops it, by the foreign key.                *)
Drop(e) ==
    /\ ~ Sealed(e)
    /\ \A x \in ReversalsOf(e) : ReversalsOf(x) = {}
    /\ entry' = [x \in Entry |-> IF x = e \/ x \in ReversalsOf(e) THEN Null ELSE entry[x]]
    /\ UNCHANGED <<born, lockedTo, restricted, posting>>

OwnedByHand(e) ==
    e \in ByHand /\ (entry[e].reverses = Null \/ entry[e].reverses \in ByHand)

DeleteEntry(e) ==
    /\ "delete" \in JournalOps
    /\ e \in Existing /\ OwnedByHand(e)
    /\ \A x \in {e} \cup ReversalsOf(e) : Posted(x) => Open(entry[x].month)
    /\ Drop(e)

(* A document that is deleted, or purged to be edited, drops its entry,     *)
(* whatever its month.                                                      *)
DropOfDocument(e) ==
    /\ "document" \in JournalOps
    /\ e \in Existing \ ByHand /\ entry[e].reverses = Null
    /\ Drop(e)

SetLockDate(m) ==
    /\ "lock" \in JournalOps
    /\ lockedTo' = m
    /\ UNCHANGED <<entry, born, restricted, posting>>

(* A chain is not given up once it has begun.                               *)
StartChain(j) ==
    /\ "restrict" \in JournalOps
    /\ restricted' = restricted \cup {j}
    /\ UNCHANGED <<entry, born, lockedTo, posting>>

StopChain(j) ==
    /\ "restrict" \in JournalOps
    /\ \A e \in Existing : entry[e].journal = j => ~ Sealed(e)
    /\ restricted' = restricted \ {j}
    /\ UNCHANGED <<entry, born, lockedTo, posting>>

-----------------------------------------------------------------------------
JournalInit ==
    /\ entry = [e \in Entry |-> Null] /\ born = {}
    /\ lockedTo = 0 /\ restricted = {}
    /\ posting = [r \in Poster |-> Null]

JournalNext ==
    \/ \E e \in Entry, j \in JournalId, m \in Month, text \in Text :
          \/ Draft(e, j, m, text) \/ UpdateDraft(e, j, m, text) \/ Replace(e, j, m, text)
          \/ \E r \in Poster : PostNew(r, e, j, m, text)
    \/ \E r \in Poster :
          \/ \E e \in Entry : PostDraft(r, e)
          \/ \E e, x \in Entry : ReverseEntry(r, e, x)
          \/ Commit(r) \/ Abandon(r)
    \/ \E e \in Entry : ResetToDraft(e) \/ CancelEntry(e) \/ DeleteEntry(e) \/ DropOfDocument(e)
    \/ \E m \in Month \cup {0} : SetLockDate(m)
    \/ \E j \in JournalId : StartChain(j) \/ StopChain(j)

JournalSpec == JournalInit /\ [][JournalNext]_journalVars

(* Requests only post new entries, and entries stay as they are, or go      *)
(* unless they have a digest.                                               *)
OnlyNew ==
    /\ \A r \in Poster : posting'[r] # Null => posting'[r].entry \notin born
    /\ \A e \in Existing : entry'[e] \in {entry[e], Null} /\ (Sealed(e) => entry'[e] = entry[e])

-----------------------------------------------------------------------------
JournalTypeOK ==
    /\ entry \in [Entry -> EntryRow \cup {Null}]
    /\ born \subseteq Entry /\ Existing \subseteq born
    /\ lockedTo \in Month \cup {0} /\ restricted \subseteq JournalId
    /\ posting \in [Poster -> PostingRow \cup {Null}]
    /\ \A e \in Existing :
          /\ entry[e].place > 0 <=> Sealed(e)
          /\ entry[e].reverses # Null => entry[e].reverses \in Existing

(* check_journal reports no problem: in each journal the places follow each *)
(* other, every entry that has one is posted, and its digest is that of its *)
(* content and of the entry before it.                                      *)
ChainIntact ==
    \A j \in JournalId : \A e \in InChain(j) :
        /\ Posted(e)
        /\ \A x \in InChain(j) \ {e} : entry[x].place # entry[e].place
        /\ LET earlier == {x \in InChain(j) : entry[x].place < entry[e].place} IN
           IF earlier = {} THEN entry[e].seal = <<Content(e, entry[e])>>
           ELSE \E x \in earlier :
                   /\ entry[x].place = entry[e].place - 1
                   /\ entry[e].seal = Append(entry[x].seal, Content(e, entry[e]))

(* "An entry of a chained journal is neither changed nor deleted", unless   *)
(* it is the reversal of an entry that is deleted.                          *)
SealedStays ==
    \A e \in Existing : Sealed(e) =>
        \/ entry'[e] = entry[e]
        \/ entry[e].reverses # Null /\ entry'[e] = Null /\ entry'[entry[e].reverses] = Null

(* What the requests under way have read is still so: the month of their    *)
(* entry is open, and its draft has not been touched.                       *)
UpToDate ==
    \A r \in Poster : posting[r] # Null =>
        /\ Open(posting[r].row.month)
        /\ entry[posting[r].entry] \in {Null, posting[r].row}

Locked(e) == Posted(e) /\ ~ Open(entry[e].month)

(* "The lock keeps entries in as it keeps them out": what is posted in a    *)
(* locked month does not change.                                            *)
LockedStays ==
    [][\A e \in Existing : Locked(e) => entry'[e] = entry[e]]_journalVars

(* Entries made by hand, at least, are not changed in a locked month, nor   *)
(* posted into one.                                                         *)
LockedStaysByHand ==
    \A e \in Entry :
        /\ e \in Existing /\ OwnedByHand(e) /\ Locked(e) => entry'[e] = entry[e]
        /\ entry'[e] # Null /\ entry'[e].state = "posted" /\ entry'[e] # entry[e] =>
              entry'[e].month > lockedTo

(* A hashed entry neither changes nor goes (secure_hash_service.py:         *)
(* assert_editable), but for the reversals of an entry that is deleted;     *)
(* what was entered by hand in a locked month stays, and nothing is posted  *)
(* into one (lock_date_service.py), unless the lock date or the draft       *)
(* changed while a request was under way.                                   *)
HeldFast == [][UpToDate => SealedStays /\ LockedStaysByHand]_journalVars
=============================================================================
