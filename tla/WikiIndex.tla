------------------------------- MODULE WikiIndex -------------------------------
(*****************************************************************************)
(* Recall without a database (BORING_VECTOR=off): the notes under vault/wiki *)
(* are scored in memory (drudge/src/wiki_recall.rs), through the resident    *)
(* index of /search (serve.rs) or one made for a single /ask (ask.rs), while *)
(* people and agents save and delete notes.                                  *)
(*                                                                           *)
(* A step is a listing, a stat, a read, or what happens in memory after the  *)
(* last of them. A text stands for the title, body and project parsed from   *)
(* it; a time is twice a tick of the file system's clock, odd between ticks. *)
(*                                                                           *)
(* KeepAll, StampRaw and FirstFound are wrong on purpose: they show that     *)
(* the properties can fail.                                                  *)
(*****************************************************************************)
EXTENDS Integers, FiniteSets, FiniteSetsExt

CONSTANTS
  Files, Texts, Terms, Projects,
  InTitle, InBody,  \* InTitle[t][w]: how often term w occurs in the title of t
  ProjectOf,
  Garbled,          \* texts that are not UTF-8
  Absent, None,
  Indexes, Resident,\* the indexes at work, and those that outlive a request
  Requests,         \* Requests[i]: what i is asked, [terms, k, project, since]
  SavesPerTick,     \* saves of one file that share a modification time
  MaxChanges          \* bound

ASSUME WikiAssumption ==
  /\ InTitle \in [Texts -> [Terms -> Nat]] /\ InBody \in [Texts -> [Terms -> Nat]]
  /\ ProjectOf \in [Texts -> Projects] /\ Garbled \subseteq Texts
  /\ Absent \notin Texts \cup [text: Texts, at: Nat] \cup [text: Texts, mtime: Nat]
  /\ None \notin Projects \cup Int
  /\ Resident \subseteq Indexes
  /\ Requests \in [Indexes -> SUBSET [terms: SUBSET Terms, k: Nat,
                                     project: Projects \cup {None}, since: Nat \cup {None}]]
  /\ SavesPerTick \in Nat \ {0} /\ MaxChanges \in Nat /\ IsFiniteSet(Files)

VARIABLES
  disk,   \* disk[f]: the text of note f and the save it is of
  there,  \* is there a wiki directory
  clock,  \* changes of the vault so far
  index,  \* index[i]: the cache, and where its refresh stands
  lately, \* lately[i][f]: history, what f has been since the last listing
  unread  \* unread[i]: history, the notes that refresh could not read

vars == <<disk, there, clock, index, lately, unread>>

Saved == [text: Texts, at: 1..MaxChanges]
Cached == [text: Texts, mtime: Nat]
Nowhere == [f \in Files |-> Absent]

Tick(at) == 2 * ((at + SavesPerTick - 1) \div SavesPerTick)
Now == Tick(clock) + 1

OnDisk(f) == IF there THEN disk[f] ELSE Absent
TextOf(note) == IF note = Absent THEN Absent ELSE note.text

Fresh == [pc |-> "idle", docs |-> Nowhere, seen |-> {}, todo |-> {},
          file |-> None, mtime |-> None, request |-> None, hits |-> {}]

NoHistory == [f \in Files |-> {}]

Init ==
  /\ disk = Nowhere /\ there = TRUE /\ clock = 0
  /\ index = [i \in Indexes |-> Fresh]
  /\ lately = [i \in Indexes |-> NoHistory]
  /\ unread = [i \in Indexes |-> {}]

-------------------------------------------------------------------------------
(* Refresh *)

\* The request of an index is over, and `docs` is what it keeps.
End(i, docs) ==
  /\ index' = [index EXCEPT ![i] = [Fresh EXCEPT !.docs = docs]]
  /\ lately' = [lately EXCEPT ![i] = NoHistory]
  /\ unread' = [unread EXCEPT ![i] = {}]
  /\ UNCHANGED <<disk, there, clock>>

\* A request comes in. The directory is listed, or the cache is cleared if there
\* is none.
Begin(i, q) ==
  /\ index[i].pc = "idle"
  /\ LET listed == {f \in Files : OnDisk(f) # Absent}
     IN index' = [index EXCEPT ![i] =
          [Fresh EXCEPT !.pc = "refresh", !.request = q, !.seen = listed, !.todo = listed,
                        !.docs = IF there THEN index[i].docs ELSE @]]
  /\ lately' = [lately EXCEPT ![i] = [f \in Files |-> {OnDisk(f)}]]
  /\ unread' = [unread EXCEPT ![i] = {}]
  /\ UNCHANGED <<disk, there, clock>>

\* A note with the modification time it is cached with is not read again.
Stat(i, f) ==
  LET mtime == IF OnDisk(f) = Absent THEN None ELSE Tick(disk[f].at)
      cached == index[i].docs[f]
  IN /\ index[i].pc = "refresh" /\ f \in index[i].todo
     /\ index' = IF mtime # None /\ cached # Absent /\ cached.mtime = mtime
                   THEN [index EXCEPT ![i].todo = @ \ {f}]
                   ELSE [index EXCEPT ![i].pc = "read", ![i].file = f, ![i].mtime = mtime]
     /\ UNCHANGED <<disk, there, clock, lately, unread>>

StampRaw(i) == index[i].mtime

\* The time a note that was read is cached with: the one from before the read.
Stamp(i) == IF index[i].mtime = None THEN Now ELSE index[i].mtime

\* A note that cannot be read stays in the cache as it was.
Read(i) ==
  LET f == index[i].file
      fails == OnDisk(f) = Absent \/ TextOf(OnDisk(f)) \in Garbled
  IN /\ index[i].pc = "read"
     /\ index' = [index EXCEPT
          ![i].pc = "refresh", ![i].todo = @ \ {f}, ![i].file = None, ![i].mtime = None,
          ![i].docs[f] = IF fails THEN @ ELSE [text |-> disk[f].text, mtime |-> Stamp(i)]]
     /\ unread' = IF fails THEN [unread EXCEPT ![i] = @ \cup {f}] ELSE unread
     /\ UNCHANGED <<disk, there, clock, lately>>

\* An entry of the listing cannot be read: the request fails, and what is
\* cached so far stays, the vanished notes with it.
ListingFails(i) ==
  /\ index[i].pc = "refresh" /\ index[i].todo # {}
  /\ End(i, index[i].docs)

-------------------------------------------------------------------------------
(* Search *)

\* Occurrences, those in the title three times over, and one for each term found.
Score(text, terms) ==
  LET Of(w) == InBody[text][w] + 3 * InTitle[text][w] +
               (IF InBody[text][w] + InTitle[text][w] > 0 THEN 1 ELSE 0)
  IN MapThenSumSet(Of, terms)

\* A project given, the age is not looked at.
Eligible(q, doc) ==
  IF q.project # None THEN ProjectOf[doc.text] = q.project
  ELSE q.since = None \/ doc.mtime >= q.since

Matching(q, docs) ==
  {f \in Files : docs[f] # Absent /\ Eligible(q, docs[f]) /\ Score(docs[f].text, q.terms) > 0}

FirstFound(q, docs, hits) == hits \subseteq Matching(q, docs)

\* The k best; which of two equal ones comes first is up to the hash table.
Best(q, docs, hits) ==
  \A h \in hits, f \in Matching(q, docs) \ hits :
    Score(docs[h].text, q.terms) >= Score(docs[f].text, q.terms)

KeepAll(docs, seen) == docs

\* Notes that were not listed are dropped.
Retained(docs, seen) == [f \in Files |-> IF f \in seen THEN docs[f] ELSE Absent]

\* All notes looked at, the vanished are dropped and the request is answered.
Search(i) ==
  LET q == index[i].request
      docs == Retained(index[i].docs, index[i].seen)
      found == Matching(q, docs)
  IN /\ index[i].pc = "refresh" /\ index[i].todo = {}
     /\ \E hits \in kSubset(IF q.k < Cardinality(found) THEN q.k ELSE Cardinality(found), found) :
          /\ Best(q, docs, hits)
          /\ index' = [index EXCEPT ![i].pc = "answered", ![i].docs = docs,
                                    ![i].hits = {[file |-> f, text |-> docs[f].text] : f \in hits}]
     /\ UNCHANGED <<disk, there, clock, lately, unread>>

\* The hits go out as they are, or as the prompt of an answer; without any, a
\* notice does.
Respond(i) ==
  /\ index[i].pc = "answered"
  /\ End(i, IF i \in Resident THEN index[i].docs ELSE Nowhere)

\* The process starts again with nothing in the cache.
Restart(i) ==
  /\ index[i] # Fresh
  /\ End(i, Nowhere)

-------------------------------------------------------------------------------
(* The vault *)

\* What the requests under way could find from now on.
Becomes(note) ==
  lately' = [i \in Indexes |-> IF index[i].pc = "idle" THEN lately[i]
                                ELSE [f \in Files |-> lately[i][f] \cup {note[f]}]]

Save(f, text) ==
  /\ there /\ clock < MaxChanges
  /\ clock' = clock + 1
  /\ disk' = [disk EXCEPT ![f] = [text |-> text, at |-> clock + 1]]
  /\ Becomes(disk')
  /\ UNCHANGED <<there, index, unread>>

Delete(f) ==
  /\ there /\ clock < MaxChanges /\ disk[f] # Absent
  /\ clock' = clock + 1
  /\ disk' = [disk EXCEPT ![f] = Absent]
  /\ Becomes(disk')
  /\ UNCHANGED <<there, index, unread>>

\* The vault is unmounted, or comes back.
Move ==
  /\ clock < MaxChanges
  /\ clock' = clock + 1
  /\ there' = ~there
  /\ Becomes(IF there THEN Nowhere ELSE disk)
  /\ UNCHANGED <<disk, index, unread>>

Next ==
  \/ \E i \in Indexes :
       \/ \E q \in Requests[i] : Begin(i, q)
       \/ \E f \in Files : Stat(i, f)
       \/ Read(i) \/ Search(i) \/ Respond(i) \/ ListingFails(i) \/ Restart(i)
  \/ \E f \in Files : Delete(f) \/ \E text \in Texts : Save(f, text)
  \/ Move

Spec == Init /\ [][Next]_vars

-------------------------------------------------------------------------------
(* Properties *)

\* Every variable has its type; at rest an index keeps its cache only.
TypeOK ==
  /\ disk \in [Files -> Saved \cup {Absent}]
  /\ there \in BOOLEAN /\ clock \in 0..MaxChanges
  /\ index \in [Indexes ->
       [pc: {"idle", "refresh", "read", "answered"}, docs: [Files -> Cached \cup {Absent}],
        seen: SUBSET Files, todo: SUBSET Files, file: Files \cup {None},
        mtime: Nat \cup {None}, request: (UNION {Requests[i] : i \in Indexes}) \cup {None},
        hits: SUBSET [file: Files, text: Texts]]]
  /\ \A i \in Indexes : index[i].pc = "idle" => index[i] = [Fresh EXCEPT !.docs = index[i].docs]
  /\ lately \in [Indexes -> [Files -> SUBSET (Saved \cup {Absent})]]
  /\ unread \in [Indexes -> SUBSET Files]

\* What a request is answered with was in the vault at some moment of the
\* request, never before it alone: saves and deletions between two requests
\* are always seen, those during one may be. A note that exists but cannot be
\* read is the exception: it is served as it was last read.
HitsAreHonest ==
  \A i \in Indexes : \A h \in index[i].hits :
    h.file \in unread[i] \/ \E note \in lately[i][h.file] : TextOf(note) = h.text

\* A note that stayed as it is throughout the request is in the answer, unless
\* the request does not ask for it or k notes score as high.
NothingBetterMissed ==
  \A i \in Indexes : index[i].pc = "answered" =>
    LET q == index[i].request
        hits == index[i].hits
    IN \A f \in Files :
         /\ OnDisk(f) # Absent /\ lately[i][f] = {disk[f]} /\ disk[f].text \notin Garbled
         /\ Eligible(q, [text |-> disk[f].text, mtime |-> Tick(disk[f].at)])
         /\ Score(disk[f].text, q.terms) > 0
         => \/ [file |-> f, text |-> disk[f].text] \in hits
            \/ /\ Cardinality(hits) = q.k
               /\ \A h \in hits : Score(h.text, q.terms) >= Score(disk[f].text, q.terms)
===============================================================================
