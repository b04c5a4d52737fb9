---------------------------- MODULE WikiIndexProofs ----------------------------
(*****************************************************************************)
(* For any notes, texts, indexes and requests of recall without a database:  *)
(* every variable has its type; and as long as no two saves of a note have   *)
(* one modification time, the hits were in the vault during the request, and *)
(* no readable note that stayed as it was is missed for a worse one.         *)
(*****************************************************************************)
EXTENDS WikiIndex, TLAPS, FiniteSetTheorems

\* The saves so far are of the past, and the vault is there or not.
VaultInv ==
  /\ DOMAIN disk = Files /\ there \in BOOLEAN /\ clock \in Nat
  /\ \A f \in Files : disk[f] # Absent => disk[f].at \in Nat /\ disk[f].at <= clock
  /\ DOMAIN index = Indexes /\ DOMAIN lately = Indexes /\ DOMAIN unread = Indexes

Fields == {"pc", "docs", "seen", "todo", "file", "mtime", "request", "hits"}

\* An index is a record, and notes are read one at a time.
ShapeInv(i) ==
  /\ DOMAIN index[i] = Fields /\ DOMAIN index[i].docs = Files /\ DOMAIN lately[i] = Files
  /\ index[i].pc \in {"idle", "refresh", "read", "answered"}
  /\ index[i].seen \subseteq Files /\ index[i].todo \subseteq Files
  /\ index[i].pc = "read" =>
       /\ index[i].file \in index[i].todo
       /\ index[i].mtime = None \/ (index[i].mtime \in Nat /\ index[i].mtime <= 2 * clock)

\* A cached note is not from the future, and one with the modification time of
\* the note on disk has its text.
CacheInv(i) ==
  \A f \in Files : index[i].docs[f] # Absent =>
    /\ index[i].docs[f].mtime \in Nat /\ index[i].docs[f].mtime <= 2 * clock + 1
    /\ disk[f] # Absent /\ 2 * disk[f].at = index[i].docs[f].mtime
         => disk[f].text = index[i].docs[f].text

\* Text `text` of note f is one that a request of index i may answer with.
Recent(i, f, text) == f \in unread[i] \/ \E note \in lately[i][f] : TextOf(note) = text

Later(i, f, text) == f \in unread'[i] \/ \E note \in lately'[i][f] : TextOf(note) = text

\* The window of a request holds what is there, what the refresh has behind it is
\* in the window, and so is the answer.
WindowInv(i) ==
  /\ index[i].pc # "idle" => \A f \in Files : OnDisk(f) \in lately[i][f]
  /\ index[i].pc \in {"refresh", "read"} => \A f \in index[i].seen \ index[i].todo :
       index[i].docs[f] # Absent => Recent(i, f, index[i].docs[f].text)
  /\ \A h \in index[i].hits : h.file \in Files /\ Recent(i, h.file, h.text)
  /\ index[i].pc # "answered" => index[i].hits = {}

IndexInv(i) == ShapeInv(i) /\ CacheInv(i) /\ WindowInv(i)

WikiInv == VaultInv /\ \A i \in Indexes : IndexInv(i)

\* With one save to a tick, modification times tell saves apart.
LEMMA TickIsExact ==
  ASSUME SavesPerTick = 1, NEW at \in Nat
  PROVE  Tick(at) = 2 * at
<1>1. at + 1 - 1 = at /\ at \div 1 = at
  OBVIOUS
<1> QED
  BY <1>1 DEF Tick

LEMMA NowIsAfter ==
  ASSUME SavesPerTick = 1, VaultInv
  PROVE  Now = 2 * clock + 1
<1>1. clock \in Nat
  BY DEF VaultInv
<1> QED
  BY <1>1, TickIsExact DEF Now

\* A step of index i alone leaves the others as they are.
LEMMA OneIndex ==
  ASSUME WikiInv, NEW i \in Indexes, UNCHANGED <<disk, there, clock>>,
         DOMAIN index' = Indexes, DOMAIN lately' = Indexes, DOMAIN unread' = Indexes,
         \A j \in Indexes \ {i} :
           index'[j] = index[j] /\ lately'[j] = lately[j] /\ unread'[j] = unread[j],
         IndexInv(i)'
  PROVE  WikiInv'
<1>1. VaultInv'
  BY DEF WikiInv, VaultInv
<1>2. ASSUME NEW j \in Indexes, j # i PROVE IndexInv(j)'
  <2>1. IndexInv(j) /\ index'[j] = index[j] /\ lately'[j] = lately[j] /\ unread'[j] = unread[j]
    BY <1>2 DEF WikiInv
  <2> QED
    BY <2>1 DEF IndexInv, ShapeInv, CacheInv, WindowInv, Recent, OnDisk
<1> QED
  BY <1>1, <1>2 DEF WikiInv

LEMMA EndKeeps ==
  ASSUME WikiInv, NEW i \in Indexes, NEW docs, End(i, docs),
         docs = index[i].docs \/ docs = Nowhere
  PROVE  WikiInv'
<1>1. /\ index' = [index EXCEPT ![i] = [Fresh EXCEPT !.docs = docs]]
      /\ lately' = [lately EXCEPT ![i] = NoHistory]
      /\ unread' = [unread EXCEPT ![i] = {}]
      /\ UNCHANGED <<disk, there, clock>>
  BY DEF End
<1>2. /\ DOMAIN index'[i] = Fields /\ index'[i].pc = "idle" /\ index'[i].docs = docs
      /\ index'[i].seen = {} /\ index'[i].todo = {} /\ index'[i].hits = {}
      /\ lately'[i] = NoHistory
  BY <1>1 DEF WikiInv, VaultInv, Fresh, Fields
<1>3. IndexInv(i)
  BY DEF WikiInv
<1>4. ShapeInv(i)'
  BY <1>2, <1>3 DEF IndexInv, ShapeInv, Nowhere, NoHistory
<1>5. CacheInv(i)'
  <2>1. ASSUME NEW f \in Files, docs[f] # Absent PROVE docs = index[i].docs
    BY <2>1 DEF Nowhere
  <2> QED
    BY <1>1, <1>2, <1>3, <2>1 DEF IndexInv, CacheInv
<1>6. WindowInv(i)'
  BY <1>2 DEF WindowInv
<1>7. IndexInv(i)'
  BY <1>4, <1>5, <1>6 DEF IndexInv
<1> QED
  BY <1>1, <1>7, OneIndex DEF WikiInv, VaultInv

LEMMA BeginKeeps ==
  ASSUME WikiInv, NEW i \in Indexes, NEW q, Begin(i, q)
  PROVE  WikiInv'
<1> DEFINE listed == {f \in Files : OnDisk(f) # Absent}
           docs == IF there THEN index[i].docs ELSE Nowhere
<1>1. /\ index' = [index EXCEPT ![i] =
           [Fresh EXCEPT !.pc = "refresh", !.request = q, !.seen = listed, !.todo = listed,
                         !.docs = docs]]
      /\ lately' = [lately EXCEPT ![i] = [f \in Files |-> {OnDisk(f)}]]
      /\ unread' = [unread EXCEPT ![i] = {}]
      /\ UNCHANGED <<disk, there, clock>>
  BY DEF Begin, Fresh
<1>2. /\ DOMAIN index'[i] = Fields /\ index'[i].pc = "refresh" /\ index'[i].docs = docs
      /\ index'[i].seen = listed /\ index'[i].todo = listed /\ index'[i].hits = {}
      /\ lately'[i] = [f \in Files |-> {OnDisk(f)}]
  BY <1>1 DEF WikiInv, VaultInv, Fresh, Fields
<1>3. IndexInv(i)
  BY DEF WikiInv
<1>4. ShapeInv(i)'
  BY <1>2, <1>3 DEF IndexInv, ShapeInv, Nowhere
<1>5. CacheInv(i)'
  <2>1. ASSUME NEW f \in Files, docs[f] # Absent PROVE docs = index[i].docs
    BY <2>1 DEF Nowhere
  <2> QED
    BY <1>1, <1>2, <1>3, <2>1 DEF IndexInv, CacheInv
<1>6. WindowInv(i)'
  BY <1>1, <1>2 DEF WindowInv, OnDisk
<1>7. IndexInv(i)'
  BY <1>4, <1>5, <1>6 DEF IndexInv
<1> QED
  BY <1>1, <1>7, OneIndex DEF WikiInv, VaultInv

\* A note is passed over when it is the one that is cached.
LEMMA StatKeeps ==
  ASSUME SavesPerTick = 1, WikiInv, NEW i \in Indexes, NEW f \in Files, Stat(i, f)
  PROVE  WikiInv'
<1> DEFINE mtime == IF OnDisk(f) = Absent THEN None ELSE Tick(disk[f].at)
           cached == index[i].docs[f]
<1>1. UNCHANGED <<disk, there, clock, lately, unread>> /\ index[i].pc = "refresh" /\ f \in index[i].todo
  BY DEF Stat
<1>2. IndexInv(i) /\ VaultInv
  BY DEF WikiInv
<1>3. OnDisk(f) # Absent => OnDisk(f) = disk[f] /\ disk[f].at \in Nat /\ mtime = 2 * disk[f].at /\ disk[f].at <= clock
  BY <1>2, TickIsExact DEF OnDisk, VaultInv
<1>4. CASE mtime # None /\ cached # Absent /\ cached.mtime = mtime
  <2>1. index' = [index EXCEPT ![i] = [index[i] EXCEPT !.todo = index[i].todo \ {f}]]
    BY <1>4 DEF Stat
  <2>2. /\ DOMAIN index'[i] = Fields /\ index'[i].pc = "refresh" /\ index'[i].docs = index[i].docs
        /\ index'[i].seen = index[i].seen /\ index'[i].todo = index[i].todo \ {f}
        /\ index'[i].hits = index[i].hits
    BY <1>1, <1>2, <2>1 DEF VaultInv, IndexInv, ShapeInv, Fields
  <2>3. Recent(i, f, cached.text)
    <3>1. OnDisk(f) # Absent /\ OnDisk(f) \in lately[i][f]
      BY <1>1, <1>2, <1>4 DEF IndexInv, WindowInv
    <3>2. disk[f].text = cached.text
      BY <1>2, <1>3, <1>4, <3>1 DEF IndexInv, CacheInv
    <3>3. TextOf(OnDisk(f)) = cached.text
      BY <1>3, <3>1, <3>2 DEF TextOf
    <3> QED
      BY <3>1, <3>3 DEF Recent
  <2>4. WindowInv(i)'
    BY <1>1, <1>2, <2>2, <2>3 DEF IndexInv, WindowInv, Recent, OnDisk
  <2>5. ShapeInv(i)' /\ CacheInv(i)'
    BY <1>1, <1>2, <2>2 DEF IndexInv, ShapeInv, CacheInv
  <2> QED
    BY <1>1, <2>1, <2>4, <2>5, OneIndex DEF IndexInv, WikiInv, VaultInv
<1>5. CASE ~(mtime # None /\ cached # Absent /\ cached.mtime = mtime)
  <2>1. index' = [index EXCEPT ![i] = [index[i] EXCEPT !.pc = "read", !.file = f, !.mtime = mtime]]
    BY <1>5 DEF Stat
  <2>2. /\ DOMAIN index'[i] = Fields /\ index'[i].pc = "read" /\ index'[i].docs = index[i].docs
        /\ index'[i].seen = index[i].seen /\ index'[i].todo = index[i].todo
        /\ index'[i].hits = index[i].hits /\ index'[i].file = f /\ index'[i].mtime = mtime
    BY <1>1, <1>2, <2>1 DEF VaultInv, IndexInv, ShapeInv, Fields
  <2>3. mtime = None \/ (mtime \in Nat /\ mtime <= 2 * clock)
    <3>1. CASE OnDisk(f) # Absent
      <4>1. /\ disk[f].at \in Nat /\ disk[f].at <= clock /\ clock \in Nat
            /\ mtime = 2 * disk[f].at
        BY <1>2, <1>3, <3>1 DEF VaultInv
      <4> HIDE DEF mtime
      <4> QED
        BY <4>1
    <3>2. CASE OnDisk(f) = Absent
      <4>1. mtime = None
        BY <3>2
      <4> HIDE DEF mtime
      <4> QED
        BY <4>1
    <3> QED
      BY <3>1, <3>2
  <2>4. ShapeInv(i)'
    BY <1>1, <1>2, <2>2, <2>3 DEF IndexInv, ShapeInv
  <2>5. CacheInv(i)' /\ WindowInv(i)'
    BY <1>1, <1>2, <2>2 DEF IndexInv, CacheInv, WindowInv, Recent, OnDisk
  <2> QED
    BY <1>1, <2>1, <2>4, <2>5, OneIndex DEF IndexInv, WikiInv, VaultInv
<1> QED
  BY <1>4, <1>5

\* A note is cached with a time that no later save has.
LEMMA ReadKeeps ==
  ASSUME SavesPerTick = 1, WikiInv, NEW i \in Indexes, Read(i)
  PROVE  WikiInv'
<1> DEFINE f == index[i].file
           fails == OnDisk(f) = Absent \/ TextOf(OnDisk(f)) \in Garbled
           doc == IF fails THEN index[i].docs[f] ELSE [text |-> disk[f].text, mtime |-> Stamp(i)]
<1>1. /\ UNCHANGED <<disk, there, clock, lately>>
      /\ index[i].pc = "read"
      /\ index' = [index EXCEPT
           ![i].pc = "refresh", ![i].todo = @ \ {f}, ![i].file = None, ![i].mtime = None,
           ![i].docs[f] = IF fails THEN @ ELSE [text |-> disk[f].text, mtime |-> Stamp(i)]]
      /\ unread' = IF fails THEN [unread EXCEPT ![i] = unread[i] \cup {f}] ELSE unread
  BY DEF Read
<1>2. IndexInv(i) /\ VaultInv
  BY DEF WikiInv
<1>3. f \in index[i].todo /\ f \in Files
  BY <1>1, <1>2 DEF IndexInv, ShapeInv
<1>4. /\ DOMAIN index'[i] = Fields /\ index'[i].pc = "refresh"
      /\ index'[i].docs = [index[i].docs EXCEPT ![f] = doc]
      /\ index'[i].seen = index[i].seen /\ index'[i].todo = index[i].todo \ {f}
      /\ index'[i].hits = index[i].hits
      /\ \A j \in Indexes \ {i} : index'[j] = index[j]
      /\ DOMAIN index' = Indexes
  <2>1. index' = [index EXCEPT
           ![i].pc = "refresh", ![i].todo = @ \ {f}, ![i].file = None, ![i].mtime = None,
           ![i].docs[f] = doc]
    BY <1>1
  <2>2. DOMAIN index[i] = Fields /\ DOMAIN index = Indexes
    BY <1>2 DEF IndexInv, ShapeInv, VaultInv
  <2> HIDE DEF f, fails, doc
  <2> QED
    BY <2>1, <2>2 DEF Fields
<1>5. ~fails => OnDisk(f) = disk[f] /\ disk[f] # Absent
  BY DEF OnDisk
<1>6. Stamp(i) \in Nat /\ Stamp(i) <= 2 * clock + 1
  BY <1>1, <1>2, NowIsAfter DEF Stamp, IndexInv, ShapeInv, VaultInv
<1>7. /\ index'[i].docs[f] = doc
      /\ \A g \in Files \ {f} : index'[i].docs[g] = index[i].docs[g]
  BY <1>2, <1>3, <1>4 DEF IndexInv, ShapeInv
<1>8. /\ fails => f \in unread'[i]
      /\ unread[i] \subseteq unread'[i]
  BY <1>1, <1>2 DEF VaultInv
<1>9. ~fails => \E note \in lately[i][f] : TextOf(note) = disk[f].text
  <2>1. OnDisk(f) \in lately[i][f]
    BY <1>1, <1>2, <1>3 DEF IndexInv, WindowInv
  <2> QED
    BY <1>5, <2>1 DEF TextOf
<1>10. ShapeInv(i)'
  BY <1>1, <1>2, <1>4 DEF IndexInv, ShapeInv
<1>11. CacheInv(i)'
  <2> SUFFICES ASSUME NEW g \in Files, index'[i].docs[g] # Absent
               PROVE  /\ index'[i].docs[g].mtime \in Nat /\ index'[i].docs[g].mtime <= 2 * clock + 1
                      /\ disk[g] # Absent /\ 2 * disk[g].at = index'[i].docs[g].mtime
                           => disk[g].text = index'[i].docs[g].text
    BY <1>1 DEF CacheInv
  <2>1. CASE index'[i].docs[g] = index[i].docs[g]
    BY <1>2, <2>1 DEF IndexInv, CacheInv
  <2>2. CASE g = f /\ ~fails
    <3>1. index'[i].docs[g].text = disk[g].text /\ index'[i].docs[g].mtime = Stamp(i)
      BY <1>7, <2>2
    <3> QED
      BY <1>6, <3>1
  <2> QED
    BY <1>7, <2>1, <2>2
<1>12. WindowInv(i)'
  <2>1. ASSUME NEW g \in index'[i].seen \ index'[i].todo, index'[i].docs[g] # Absent
        PROVE  Later(i, g, index'[i].docs[g].text)
    <3>1. CASE g = f
      <4>1. CASE fails
        BY <1>8, <3>1, <4>1 DEF Later
      <4>2. CASE ~fails
        <5>1. index'[i].docs[f].text = disk[f].text
          BY <1>7, <4>2
        <5>2. lately'[i] = lately[i]
          BY <1>1
        <5>3. \E note \in lately'[i][f] : TextOf(note) = index'[i].docs[f].text
          BY <1>9, <4>2, <5>1, <5>2
        <5> QED
          BY <3>1, <5>3 DEF Later
      <4> QED
        BY <4>1, <4>2
    <3>2. CASE g # f
      <4>1. g \in index[i].seen \ index[i].todo /\ g \in Files
        BY <1>2, <1>4, <2>1, <3>2 DEF IndexInv, ShapeInv
      <4>2. index'[i].docs[g] = index[i].docs[g]
        BY <1>7, <3>2, <4>1
      <4>3. Recent(i, g, index[i].docs[g].text)
        BY <1>1, <1>2, <2>1, <4>1, <4>2 DEF IndexInv, WindowInv
      <4> QED
        BY <1>1, <1>8, <4>2, <4>3 DEF Recent, Later
    <3> QED
      BY <3>1, <3>2
  <2>2. index'[i].hits = {} /\ \A g \in Files : OnDisk(g)' \in lately'[i][g]
    BY <1>1, <1>2, <1>4 DEF IndexInv, WindowInv, OnDisk
  <2> QED
    BY <1>4, <2>1, <2>2 DEF WindowInv, Recent, Later
<1>13. /\ DOMAIN index' = Indexes /\ DOMAIN lately' = Indexes /\ DOMAIN unread' = Indexes
       /\ \A j \in Indexes \ {i} :
            index'[j] = index[j] /\ lately'[j] = lately[j] /\ unread'[j] = unread[j]
  BY <1>1, <1>2, <1>4 DEF VaultInv
<1> QED
  BY <1>1, <1>10, <1>11, <1>12, <1>13, OneIndex DEF IndexInv

\* The answer is of notes that were listed and looked at.
LEMMA SearchKeeps ==
  ASSUME WikiInv, NEW i \in Indexes, Search(i)
  PROVE  WikiInv'
<1> DEFINE q == index[i].request
           docs == Retained(index[i].docs, index[i].seen)
<1>1. /\ UNCHANGED <<disk, there, clock, lately, unread>>
      /\ index[i].pc = "refresh" /\ index[i].todo = {}
  BY DEF Search
<1>2. PICK hits \in SUBSET Matching(q, docs) :
        index' = [index EXCEPT ![i].pc = "answered", ![i].docs = docs,
                               ![i].hits = {[file |-> f, text |-> docs[f].text] : f \in hits}]
  BY DEF Search, kSubset
<1> DEFINE answer == {[file |-> f, text |-> docs[f].text] : f \in hits}
<1>3. index' = [index EXCEPT ![i] = [index[i] EXCEPT !.pc = "answered", !.docs = docs, !.hits = answer]]
  BY <1>2
<1>4. IndexInv(i) /\ VaultInv
  BY DEF WikiInv
<1>5. /\ DOMAIN index'[i] = Fields /\ index'[i].pc = "answered" /\ index'[i].docs = docs
      /\ index'[i].seen = index[i].seen /\ index'[i].todo = {} /\ index'[i].hits = answer
  BY <1>1, <1>3, <1>4 DEF VaultInv, IndexInv, ShapeInv, Fields
<1>6. \A f \in Files : docs[f] # Absent => f \in index[i].seen /\ docs[f] = index[i].docs[f]
  BY DEF Retained
<1>7. ShapeInv(i)'
  BY <1>1, <1>4, <1>5 DEF IndexInv, ShapeInv, Retained
<1>8. CacheInv(i)'
  BY <1>1, <1>4, <1>5, <1>6 DEF IndexInv, CacheInv
<1>9. WindowInv(i)'
  <2>1. ASSUME NEW f \in hits
        PROVE  f \in Files /\ Later(i, f, docs[f].text)
    <3>1. f \in Files /\ docs[f] # Absent
      BY DEF Matching
    <3>2. Recent(i, f, docs[f].text)
      BY <1>1, <1>4, <1>6, <3>1 DEF IndexInv, WindowInv
    <3> QED
      BY <1>1, <3>1, <3>2 DEF Recent, Later
  <2>2. \A h \in answer : h.file \in Files /\ Later(i, h.file, h.text)
    BY <2>1
  <2> HIDE DEF answer
  <2> QED
    BY <1>1, <1>4, <1>5, <2>2 DEF IndexInv, WindowInv, Recent, Later, OnDisk
<1> QED
  BY <1>1, <1>2, <1>7, <1>8, <1>9, OneIndex DEF IndexInv, WikiInv, VaultInv

\* The vault changes under the indexes.
LEMMA VaultMoves ==
  ASSUME WikiInv, UNCHANGED index, UNCHANGED unread, DOMAIN disk' = Files, there' \in BOOLEAN, clock' = clock + 1,
         NEW now, Becomes(now), \A f \in Files : OnDisk(f)' = now[f],
         \A f \in Files : disk'[f] # Absent =>
           \/ disk'[f] = disk[f]
           \/ disk'[f].at = clock + 1
  PROVE  WikiInv'
<1>1. VaultInv /\ clock \in Nat
  BY DEF WikiInv, VaultInv
<1>2. VaultInv'
  BY <1>1 DEF VaultInv, Becomes
<1>3. ASSUME NEW i \in Indexes PROVE IndexInv(i)'
  <2>1. IndexInv(i)
    BY DEF WikiInv
  <2>2. lately'[i] = IF index[i].pc = "idle" THEN lately[i]
                     ELSE [f \in Files |-> lately[i][f] \cup {now[f]}]
    BY DEF Becomes
  <2>3. ShapeInv(i)'
    <3>1. \A mtime \in Nat : mtime <= 2 * clock => mtime <= 2 * clock'
      BY <1>1
    <3>2. DOMAIN lately'[i] = Files
      BY <2>1, <2>2 DEF IndexInv, ShapeInv
    <3>3. index[i].pc = "read" =>
            index[i].mtime = None \/ (index[i].mtime \in Nat /\ index[i].mtime <= 2 * clock')
      BY <2>1, <3>1 DEF IndexInv, ShapeInv
    <3> QED
      BY <2>1, <3>2, <3>3 DEF IndexInv, ShapeInv
  <2>4. CacheInv(i)'
    <3> SUFFICES ASSUME NEW f \in Files, index[i].docs[f] # Absent
                 PROVE  /\ index[i].docs[f].mtime \in Nat
                        /\ index[i].docs[f].mtime <= 2 * clock' + 1
                        /\ disk'[f] # Absent /\ 2 * disk'[f].at = index[i].docs[f].mtime
                             => disk'[f].text = index[i].docs[f].text
      BY DEF CacheInv
    <3>1. /\ index[i].docs[f].mtime \in Nat /\ index[i].docs[f].mtime <= 2 * clock + 1
          /\ disk[f] # Absent /\ 2 * disk[f].at = index[i].docs[f].mtime
               => disk[f].text = index[i].docs[f].text
      BY <2>1 DEF IndexInv, CacheInv
    <3>2. CASE disk'[f] # Absent /\ disk'[f].at = clock + 1
      BY <1>1, <3>1, <3>2
    <3>3. CASE disk'[f] # Absent => disk'[f] = disk[f]
      BY <1>1, <3>1, <3>3
    <3> QED
      BY <3>2, <3>3
  <2>5. WindowInv(i)'
    <3>1. \A f \in Files : lately[i][f] \subseteq lately'[i][f]
      BY <2>2
    <3>2. index[i].pc # "idle" => \A f \in Files : OnDisk(f)' \in lately'[i][f]
      BY <2>2
    <3>3. ASSUME NEW f \in Files, NEW text, Recent(i, f, text)
          PROVE  Later(i, f, text)
      BY <3>1, <3>3 DEF Recent, Later
    <3>4. index[i].pc \in {"refresh", "read"} => \A f \in index[i].seen \ index[i].todo :
            index[i].docs[f] # Absent => Later(i, f, index[i].docs[f].text)
      BY <2>1, <3>3 DEF IndexInv, ShapeInv, WindowInv
    <3>5. \A h \in index[i].hits : h.file \in Files /\ Later(i, h.file, h.text)
      BY <2>1, <3>3 DEF IndexInv, WindowInv
    <3> QED
      BY <2>1, <3>2, <3>4, <3>5 DEF IndexInv, WindowInv, Recent, Later
  <2> QED
    BY <2>3, <2>4, <2>5 DEF IndexInv
<1> QED
  BY <1>2, <1>3 DEF WikiInv

\* Save, Delete and Move are such changes.
LEMMA ChangeKeeps ==
  ASSUME WikiInv,
         \/ \E f \in Files : Delete(f) \/ \E text \in Texts : Save(f, text)
         \/ Move
  PROVE  WikiInv'
<1>1. VaultInv
  BY DEF WikiInv
<1>2. ASSUME NEW f \in Files, NEW text \in Texts, Save(f, text) PROVE WikiInv'
  <2>1. /\ there /\ UNCHANGED <<there, index, unread>> /\ clock' = clock + 1 /\ Becomes(disk')
        /\ disk' = [disk EXCEPT ![f] = [text |-> text, at |-> clock + 1]]
    BY <1>2 DEF Save
  <2>2. /\ DOMAIN disk' = Files /\ there' \in BOOLEAN
        /\ \A g \in Files : OnDisk(g)' = disk'[g]
        /\ \A g \in Files : disk'[g] = disk[g] \/ disk'[g].at = clock + 1
    BY <1>1, <2>1 DEF VaultInv, OnDisk
  <2> QED
    BY <2>1, <2>2, VaultMoves
<1>3. ASSUME NEW f \in Files, Delete(f) PROVE WikiInv'
  <2>1. /\ there /\ UNCHANGED <<there, index, unread>> /\ clock' = clock + 1 /\ Becomes(disk')
        /\ disk' = [disk EXCEPT ![f] = Absent]
    BY <1>3 DEF Delete
  <2>2. /\ DOMAIN disk' = Files /\ there' \in BOOLEAN
        /\ \A g \in Files : OnDisk(g)' = disk'[g]
        /\ \A g \in Files : disk'[g] # Absent => disk'[g] = disk[g]
    BY <1>1, <2>1 DEF VaultInv, OnDisk
  <2> QED
    BY <2>1, <2>2, VaultMoves
<1>4. ASSUME Move PROVE WikiInv'
  <2> DEFINE now == IF there THEN Nowhere ELSE disk
  <2>1. /\ UNCHANGED <<disk, index, unread>> /\ clock' = clock + 1 /\ Becomes(now) /\ there' = ~there
    BY <1>4 DEF Move
  <2>2. /\ DOMAIN disk' = Files /\ there' \in BOOLEAN
        /\ \A g \in Files : OnDisk(g)' = now[g]
        /\ \A g \in Files : disk'[g] = disk[g]
    BY <1>1, <2>1 DEF VaultInv, OnDisk, Nowhere
  <2> HIDE DEF now
  <2> QED
    BY <2>1, <2>2, VaultMoves
<1> QED
  BY <1>2, <1>3, <1>4

LEMMA WikiInductive ==
  ASSUME SavesPerTick = 1, WikiInv, [Next]_vars
  PROVE  WikiInv'
<1>1. ASSUME NEW i \in Indexes, NEW q \in Requests[i], Begin(i, q)
      PROVE  WikiInv'
  BY <1>1, BeginKeeps
<1>2. ASSUME NEW i \in Indexes, NEW f \in Files, Stat(i, f)
      PROVE  WikiInv'
  BY <1>2, StatKeeps
<1>3. ASSUME NEW i \in Indexes, Read(i) \/ Search(i)
      PROVE  WikiInv'
  BY <1>3, ReadKeeps, SearchKeeps
<1>4. ASSUME NEW i \in Indexes, Respond(i) \/ ListingFails(i) \/ Restart(i)
      PROVE  WikiInv'
  BY <1>4, EndKeeps DEF Respond, ListingFails, Restart
<1>5. CASE UNCHANGED vars
  BY <1>5 DEF vars, WikiInv, VaultInv, IndexInv, ShapeInv, CacheInv, WindowInv, Recent, OnDisk
<1> QED
  BY <1>1, <1>2, <1>3, <1>4, <1>5, ChangeKeeps DEF Next

LEMMA WikiInit == Init => WikiInv
<1> SUFFICES ASSUME Init PROVE WikiInv
  OBVIOUS
<1>1. VaultInv
  BY DEF Init, VaultInv, Nowhere
<1>2. ASSUME NEW i \in Indexes PROVE IndexInv(i)
  <2>1. /\ DOMAIN index[i] = Fields /\ index[i].pc = "idle" /\ index[i].docs = Nowhere
        /\ index[i].seen = {} /\ index[i].todo = {} /\ index[i].hits = {}
    BY DEF Init, Fresh, Fields
  <2>2. DOMAIN lately[i] = Files
    BY DEF Init, NoHistory
  <2> QED
    BY <2>1, <2>2 DEF IndexInv, ShapeInv, CacheInv, WindowInv, Nowhere
<1> QED
  BY <1>1, <1>2 DEF WikiInv

\* As long as no two saves of a note share a modification time, a request is
\* answered with texts that were in the vault while it was answered, or with one of
\* a note that it could not read.
THEOREM HonestAnswers ==
  ASSUME SavesPerTick = 1
  PROVE  Spec => []HitsAreHonest
<1>1. WikiInv /\ [Next]_vars => WikiInv'
  BY WikiInductive
<1>2. WikiInv => HitsAreHonest
  BY DEF WikiInv, IndexInv, WindowInv, Recent, HitsAreHonest
<1> QED
  BY <1>1, <1>2, WikiInit, PTL DEF Spec

-------------------------------------------------------------------------------
(* Types, however many saves share a modification time.                         *)

IndexType ==
  [pc: {"idle", "refresh", "read", "answered"}, docs: [Files -> Cached \cup {Absent}],
   seen: SUBSET Files, todo: SUBSET Files, file: Files \cup {None},
   mtime: Nat \cup {None}, request: (UNION {Requests[i] : i \in Indexes}) \cup {None},
   hits: SUBSET [file: Files, text: Texts]]

AtRest(entry) == entry = [Fresh EXCEPT !.docs = entry.docs]

\* What TypeOK leaves open is that a note is being read only when there is one.
TypeInv == TypeOK /\ \A i \in Indexes : index[i].pc = "read" => index[i].file \in Files

LEMMA TickTyped == \A at \in Nat : Tick(at) \in Nat
<1> SUFFICES ASSUME NEW at \in Nat PROVE Tick(at) \in Nat
  OBVIOUS
<1>1. SavesPerTick \in Nat /\ SavesPerTick > 0
  BY WikiAssumption
<1>2. PICK sum \in Nat : sum = at + SavesPerTick - 1
  BY <1>1
<1>3. sum \div SavesPerTick \in Nat
  BY <1>1
<1> QED
  BY <1>2, <1>3 DEF Tick

LEMMA FreshTyped == Fresh \in IndexType /\ Fresh.pc = "idle" /\ Fresh.docs = Nowhere
<1>1. Nowhere \in [Files -> Cached \cup {Absent}]
  BY DEF Nowhere
<1>2. None \in Files \cup {None} /\ None \in Nat \cup {None}
      /\ None \in (UNION {Requests[i] : i \in Indexes}) \cup {None}
  OBVIOUS
<1>3. {} \in SUBSET Files /\ {} \in SUBSET [file: Files, text: Texts]
  OBVIOUS
<1>4. PICK asked : asked = (UNION {Requests[i] : i \in Indexes}) \cup {None}
  OBVIOUS
<1>5. PICK answers : answers = SUBSET [file: Files, text: Texts]
  OBVIOUS
<1>6. IndexType = [pc: {"idle", "refresh", "read", "answered"}, docs: [Files -> Cached \cup {Absent}],
                   seen: SUBSET Files, todo: SUBSET Files, file: Files \cup {None},
                   mtime: Nat \cup {None}, request: asked, hits: answers]
  BY <1>4, <1>5 DEF IndexType
<1> QED
  BY <1>1, <1>2, <1>3, <1>4, <1>5, <1>6 DEF Fresh

\* A step of one index.
LEMMA IndexTyped ==
  ASSUME TypeInv, NEW i \in Indexes, NEW v \in IndexType, index' = [index EXCEPT ![i] = v],
         v.pc = "idle" => AtRest(v), v.pc = "read" => v.file \in Files,
         UNCHANGED <<disk, there, clock>>,
         lately' \in [Indexes -> [Files -> SUBSET (Saved \cup {Absent})]],
         unread' \in [Indexes -> SUBSET Files]
  PROVE  TypeInv'
<1>1. index \in [Indexes -> IndexType]
  BY DEF TypeInv, TypeOK, IndexType
<1>2. index' \in [Indexes -> IndexType]
  BY <1>1
<1>3. \A j \in Indexes : index'[j].pc = "idle" => AtRest(index'[j])
  BY <1>1 DEF TypeInv, TypeOK, AtRest
<1>4. \A j \in Indexes : index'[j].pc = "read" => index'[j].file \in Files
  BY <1>1 DEF TypeInv
<1>5. /\ disk \in [Files -> Saved \cup {Absent}]
      /\ there \in BOOLEAN /\ clock \in 0..MaxChanges
  BY DEF TypeInv, TypeOK
<1> QED
  BY <1>2, <1>3, <1>4, <1>5 DEF TypeInv, TypeOK, IndexType, AtRest

LEMMA EndTyped ==
  ASSUME TypeInv, NEW i \in Indexes, NEW docs \in [Files -> Cached \cup {Absent}], End(i, docs)
  PROVE  TypeInv'
<1>1. PICK v : v = [Fresh EXCEPT !.docs = docs]
  OBVIOUS
<1>2. v \in IndexType /\ v.pc = "idle" /\ v.docs = docs /\ AtRest(v)
  BY <1>1, FreshTyped DEF IndexType, AtRest, Fresh
<1>3. NoHistory \in [Files -> SUBSET (Saved \cup {Absent})]
  BY DEF NoHistory
<1>4. /\ lately' \in [Indexes -> [Files -> SUBSET (Saved \cup {Absent})]]
      /\ unread' \in [Indexes -> SUBSET Files]
  BY <1>3 DEF End, TypeInv, TypeOK
<1> QED
  BY <1>1, <1>2, <1>4, IndexTyped DEF End

\* What is on disk is a save, or there is nothing.
LEMMA OnDiskTyped ==
  ASSUME TypeInv, NEW f \in Files
  PROVE  /\ OnDisk(f) \in Saved \cup {Absent}
         /\ OnDisk(f) # Absent => disk[f] \in Saved /\ Tick(disk[f].at) \in Nat
<1>1. disk[f] \in Saved \cup {Absent}
  BY DEF TypeInv, TypeOK
<1>2. disk[f] \in Saved => disk[f].at \in Nat
  BY DEF Saved
<1> QED
  BY <1>1, <1>2, TickTyped DEF OnDisk

LEMMA RefreshTyped ==
  ASSUME TypeInv, NEW i \in Indexes,
         \/ \E q \in Requests[i] : Begin(i, q)
         \/ \E f \in Files : Stat(i, f)
         \/ Read(i)
  PROVE  TypeInv'
<1>1. index[i] \in IndexType /\ UNCHANGED <<disk, there, clock>>
  BY DEF TypeInv, TypeOK, IndexType, Begin, Stat, Read
<1>2. ASSUME NEW q \in Requests[i], Begin(i, q) PROVE TypeInv'
  <2>1. PICK listed \in SUBSET Files : listed = {f \in Files : OnDisk(f) # Absent}
    OBVIOUS
  <2>2. PICK docs : docs = IF there THEN index[i].docs ELSE Nowhere
    OBVIOUS
  <2>3. docs \in [Files -> Cached \cup {Absent}]
    BY <1>1, <2>2 DEF IndexType, Nowhere
  <2>4. PICK v : v = [Fresh EXCEPT !.pc = "refresh", !.request = q, !.seen = listed,
                                   !.todo = listed, !.docs = docs]
    OBVIOUS
  <2>5. v \in IndexType /\ v.pc = "refresh"
    <3>1. PICK asked : asked = (UNION {Requests[j] : j \in Indexes}) \cup {None}
      OBVIOUS
    <3>2. q \in asked
      BY <3>1
    <3>3. PICK answers : answers = SUBSET [file: Files, text: Texts]
      OBVIOUS
    <3>4. IndexType = [pc: {"idle", "refresh", "read", "answered"}, docs: [Files -> Cached \cup {Absent}],
                       seen: SUBSET Files, todo: SUBSET Files, file: Files \cup {None},
                       mtime: Nat \cup {None}, request: asked, hits: answers]
      BY <3>1, <3>3 DEF IndexType
    <3> QED
      BY <2>3, <2>4, <3>2, <3>4, FreshTyped
  <2>6. index' = [index EXCEPT ![i] = v]
    BY <1>2, <2>1, <2>2, <2>4 DEF Begin, Fresh
  <2>7. [f \in Files |-> {OnDisk(f)}] \in [Files -> SUBSET (Saved \cup {Absent})]
    BY OnDiskTyped
  <2>8. /\ lately' \in [Indexes -> [Files -> SUBSET (Saved \cup {Absent})]]
        /\ unread' \in [Indexes -> SUBSET Files]
    BY <1>2, <2>7 DEF Begin, TypeInv, TypeOK
  <2> QED
    BY <1>1, <2>5, <2>6, <2>8, IndexTyped
<1>3. ASSUME NEW f \in Files, Stat(i, f) PROVE TypeInv'
  <2>1. PICK mtime \in Nat \cup {None} : mtime = IF OnDisk(f) = Absent THEN None ELSE Tick(disk[f].at)
    BY OnDiskTyped
  <2>2. index[i].pc = "refresh" /\ UNCHANGED <<lately, unread>>
    BY <1>3 DEF Stat
  <2>3. PICK v : /\ index' = [index EXCEPT ![i] = v]
                 /\ \/ v = [index[i] EXCEPT !.todo = @ \ {f}]
                    \/ v = [index[i] EXCEPT !.pc = "read", !.file = f, !.mtime = mtime]
    BY <1>3, <2>1 DEF Stat
  <2>4. v \in IndexType /\ v.pc # "idle" /\ (v.pc = "read" => v.file \in Files)
    BY <1>1, <2>2, <2>3, ZenonT(60) DEF IndexType
  <2>5. /\ lately' \in [Indexes -> [Files -> SUBSET (Saved \cup {Absent})]]
        /\ unread' \in [Indexes -> SUBSET Files]
    BY <2>2 DEF TypeInv, TypeOK
  <2> QED
    BY <1>1, <2>3, <2>4, <2>5, IndexTyped
<1>4. ASSUME Read(i) PROVE TypeInv'
  <2>1. PICK f \in Files : f = index[i].file
    BY <1>4 DEF Read, TypeInv
  <2>2. PICK doc : doc = IF OnDisk(f) = Absent \/ TextOf(OnDisk(f)) \in Garbled THEN index[i].docs[f]
                         ELSE [text |-> disk[f].text, mtime |-> Stamp(i)]
    OBVIOUS
  <2>3. doc \in Cached \cup {Absent}
    <3>1. Now \in Nat
      <4>1. clock \in Nat
        BY DEF TypeInv, TypeOK
      <4> QED
        BY <4>1, TickTyped DEF Now
    <3>2. Stamp(i) \in Nat
      BY <1>1, <3>1 DEF Stamp, IndexType
    <3>3. OnDisk(f) # Absent => [text |-> disk[f].text, mtime |-> Stamp(i)] \in Cached
      BY <3>2, OnDiskTyped DEF Cached, Saved
    <3> QED
      BY <1>1, <2>2, <3>3 DEF IndexType
  <2>4. PICK docs : docs = [index[i].docs EXCEPT ![f] = doc]
    OBVIOUS
  <2>5. docs \in [Files -> Cached \cup {Absent}]
    BY <1>1, <2>3, <2>4 DEF IndexType
  <2>6. PICK v : v = [index[i] EXCEPT !.pc = "refresh", !.todo = index[i].todo \ {f}, !.file = None,
                                      !.mtime = None, !.docs = docs]
    OBVIOUS
  <2>7. v \in IndexType /\ v.pc = "refresh"
    BY <1>1, <2>5, <2>6 DEF IndexType
  <2>8. index' = [index EXCEPT ![i] = v]
    <3>1. index' = [index EXCEPT
              ![i].pc = "refresh", ![i].todo = @ \ {f}, ![i].file = None, ![i].mtime = None,
              ![i].docs[f] = doc]
      BY <1>4, <2>1, <2>2 DEF Read
    <3> QED
      BY <1>1, <2>4, <2>6, <3>1 DEF IndexType
  <2>9. /\ lately' \in [Indexes -> [Files -> SUBSET (Saved \cup {Absent})]]
        /\ unread' \in [Indexes -> SUBSET Files]
    BY <1>4, <2>1 DEF Read, TypeInv, TypeOK
  <2> QED
    BY <1>1, <2>7, <2>8, <2>9, IndexTyped
<1> QED
  BY <1>2, <1>3, <1>4

LEMMA SearchTyped ==
  ASSUME TypeInv, NEW i \in Indexes, Search(i)
  PROVE  TypeInv'
<1>1. index[i] \in IndexType /\ UNCHANGED <<disk, there, clock, lately, unread>>
  BY DEF TypeInv, TypeOK, IndexType, Search
<1> DEFINE q == index[i].request
           docs == Retained(index[i].docs, index[i].seen)
<1>4. docs \in [Files -> Cached \cup {Absent}]
  BY <1>1 DEF IndexType, Retained
<1>5. PICK hits \in SUBSET Matching(q, docs) :
        index' = [index EXCEPT ![i].pc = "answered", ![i].docs = docs,
                               ![i].hits = {[file |-> f, text |-> docs[f].text] : f \in hits}]
  BY DEF Search, kSubset
<1>6. PICK answer : answer = {[file |-> f, text |-> docs[f].text] : f \in hits}
  OBVIOUS
<1>7. answer \subseteq [file: Files, text: Texts]
  BY <1>4, <1>6 DEF Matching, Cached
<1>8. PICK v : v = [index[i] EXCEPT !.pc = "answered", !.docs = docs, !.hits = answer]
  OBVIOUS
<1>9. v \in IndexType /\ v.pc = "answered"
  BY <1>1, <1>4, <1>7, <1>8 DEF IndexType
<1>10. index' = [index EXCEPT ![i] = v]
  BY <1>5, <1>6, <1>8
<1>11. /\ lately' \in [Indexes -> [Files -> SUBSET (Saved \cup {Absent})]]
       /\ unread' \in [Indexes -> SUBSET Files]
  BY <1>1 DEF TypeInv, TypeOK
<1> QED
  BY <1>1, <1>9, <1>10, <1>11, IndexTyped

LEMMA ChangeTyped ==
  ASSUME TypeInv,
         \/ \E f \in Files : Delete(f) \/ \E text \in Texts : Save(f, text)
         \/ Move
  PROVE  TypeInv'
<1>1. PICK now : Becomes(now) /\ now \in [Files -> Saved \cup {Absent}]
  <2>1. ASSUME NEW f \in Files, Delete(f) \/ \E text \in Texts : Save(f, text)
        PROVE  Becomes(disk')
    BY <2>1 DEF Delete, Save
  <2>2. ASSUME NEW f \in Files, Delete(f) \/ \E text \in Texts : Save(f, text)
        PROVE  disk' \in [Files -> Saved \cup {Absent}]
    <3>1. ASSUME NEW text \in Texts, Save(f, text) PROVE disk' \in [Files -> Saved \cup {Absent}]
      <4>1. clock + 1 \in 1..MaxChanges
        BY <3>1, WikiAssumption DEF Save, TypeInv, TypeOK
      <4>2. [text |-> text, at |-> clock + 1] \in Saved
        BY <4>1 DEF Saved
      <4> QED
        BY <3>1, <4>2 DEF Save, TypeInv, TypeOK
    <3>2. CASE Delete(f)
      BY <3>2 DEF Delete, TypeInv, TypeOK
    <3> QED
      BY <2>2, <3>1, <3>2
  <2>3. CASE Move
    <3>1. Nowhere \in [Files -> Saved \cup {Absent}] /\ disk \in [Files -> Saved \cup {Absent}]
      BY DEF Nowhere, TypeInv, TypeOK
    <3>2. Becomes(IF there THEN Nowhere ELSE disk)
      BY <2>3 DEF Move
    <3> QED
      BY <3>1, <3>2
  <2> QED
    BY <2>1, <2>2, <2>3
<1>2. lately' \in [Indexes -> [Files -> SUBSET (Saved \cup {Absent})]]
  BY <1>1 DEF Becomes, TypeInv, TypeOK
<1>3. UNCHANGED <<index, unread>> /\ clock' \in 0..MaxChanges
  BY WikiAssumption DEF Delete, Save, Move, TypeInv, TypeOK
<1>4. disk' \in [Files -> Saved \cup {Absent}]
  <2>1. ASSUME NEW f \in Files, NEW text \in Texts, Save(f, text)
        PROVE  disk' \in [Files -> Saved \cup {Absent}]
    <3>1. clock + 1 \in 1..MaxChanges
      BY <2>1, WikiAssumption DEF Save, TypeInv, TypeOK
    <3>2. [text |-> text, at |-> clock + 1] \in Saved
      BY <3>1 DEF Saved
    <3> QED
      BY <2>1, <3>2 DEF Save, TypeInv, TypeOK
  <2>2. ASSUME NEW f \in Files, Delete(f) PROVE disk' \in [Files -> Saved \cup {Absent}]
    BY <2>2 DEF Delete, TypeInv, TypeOK
  <2>3. CASE Move
    BY <2>3 DEF Move, TypeInv, TypeOK
  <2> QED
    BY <2>1, <2>2, <2>3
<1>5. there' \in BOOLEAN
  <2>1. CASE Move
    <3>1. there' = ~there
      BY <2>1 DEF Move
    <3> QED
      BY <3>1
  <2>2. ASSUME NEW f \in Files, Delete(f) \/ \E text \in Texts : Save(f, text)
        PROVE  there' = there
    BY <2>2 DEF Delete, Save
  <2> QED
    BY <2>1, <2>2 DEF TypeInv, TypeOK
<1> QED
  BY <1>2, <1>3, <1>4, <1>5 DEF TypeInv, TypeOK

LEMMA TypeStep == TypeInv /\ [Next]_vars => TypeInv'
<1> SUFFICES ASSUME TypeInv, [Next]_vars PROVE TypeInv'
  OBVIOUS
<1>1. ASSUME NEW i \in Indexes, Respond(i) \/ ListingFails(i) \/ Restart(i)
      PROVE  TypeInv'
  <2>1. index[i].docs \in [Files -> Cached \cup {Absent}] /\ Nowhere \in [Files -> Cached \cup {Absent}]
    BY DEF TypeInv, TypeOK, Nowhere
  <2> QED
    BY <1>1, <2>1, EndTyped DEF Respond, ListingFails, Restart
<1>2. CASE UNCHANGED vars
  BY <1>2 DEF vars, TypeInv, TypeOK
<1> QED
  BY <1>1, <1>2, RefreshTyped, SearchTyped, ChangeTyped DEF Next

LEMMA TypeInit == Init => TypeInv
<1> SUFFICES ASSUME Init PROVE TypeInv
  OBVIOUS
<1>1. index = [i \in Indexes |-> Fresh] /\ Fresh \in IndexType /\ Fresh.pc = "idle"
  BY FreshTyped DEF Init
<1>2. Fresh = [Fresh EXCEPT !.docs = Fresh.docs]
  BY DEF Fresh
<1>3. clock \in 0..MaxChanges
  BY WikiAssumption DEF Init
<1> QED
  BY <1>1, <1>2, <1>3 DEF Init, TypeInv, TypeOK, IndexType, Nowhere, NoHistory

\* Every variable has its type, whatever is saved, deleted or moved under however
\* many indexes.
THEOREM RecallTyped == Spec => []TypeOK
<1>1. TypeInv => TypeOK
  BY DEF TypeInv
<1> QED
  BY <1>1, TypeInit, TypeStep, PTL DEF Spec
-------------------------------------------------------------------------------
(* What is not missed. A note that stays as it is while a request is answered   *)
(* is listed, and cached as it is by the time it is looked at; so the answer is *)
(* the best of a set it is in.                                                  *)

Entry(note) == [text |-> note.text, mtime |-> Tick(note.at)]

\* All that note f has been during the request of index i is this, and readable.
Steady(i, f, note) == lately[i][f] = {note} /\ note # Absent /\ note.text \notin Garbled

\* The request of index i is answered as well as note f allows.
Served(i, f, note) ==
  LET q == index[i].request IN
  Eligible(q, Entry(note)) /\ Score(note.text, q.terms) > 0 =>
    \/ [file |-> f, text |-> note.text] \in index[i].hits
    \/ /\ Cardinality(index[i].hits) = q.k
       /\ \A h \in index[i].hits : Score(h.text, q.terms) >= Score(note.text, q.terms)

BestInv(i) ==
  \A f \in Files : \A note \in lately[i][f] : Steady(i, f, note) =>
    /\ index[i].pc \in {"refresh", "read"} =>
         f \in index[i].seen /\ (f \notin index[i].todo => index[i].docs[f] = Entry(note))
    /\ index[i].pc = "read" /\ index[i].file = f => index[i].mtime = Tick(note.at)
    /\ index[i].pc = "answered" => Served(i, f, note)

BestEver == WikiInv /\ TypeInv /\ \A i \in Indexes : BestInv(i)

\* A note that stayed as it is is the one on disk.
LEMMA SteadyIsThere ==
  ASSUME WikiInv, TypeInv, NEW i \in Indexes, index[i].pc # "idle",
         NEW f \in Files, NEW note, Steady(i, f, note)
  PROVE  OnDisk(f) = note /\ disk[f] = note /\ note \in Saved /\ Tick(note.at) \in Nat
<1>1. OnDisk(f) \in lately[i][f]
  BY DEF WikiInv, IndexInv, WindowInv
<1>2. OnDisk(f) = note /\ note # Absent
  BY <1>1 DEF Steady
<1> QED
  BY <1>2, OnDiskTyped DEF OnDisk

LEMMA EntryTyped == \A note \in Saved : Entry(note) \in Cached /\ Entry(note) # Absent
<1> SUFFICES ASSUME NEW note \in Saved PROVE Entry(note) \in Cached /\ Entry(note) # Absent
  OBVIOUS
<1>1. note.text \in Texts /\ note.at \in Nat
  BY DEF Saved
<1>2. Tick(note.at) \in Nat
  BY <1>1, TickTyped
<1>3. Entry(note) \in [text: Texts, mtime: Nat]
  BY <1>1, <1>2 DEF Entry
<1> QED
  BY <1>3, WikiAssumption DEF Cached

LEMMA BestOneIndex ==
  ASSUME BestEver, NEW i \in Indexes, BestInv(i)',
         \A j \in Indexes \ {i} : index'[j] = index[j] /\ lately'[j] = lately[j]
  PROVE  \A j \in Indexes : BestInv(j)'
<1>1. ASSUME NEW j \in Indexes \ {i} PROVE BestInv(j)'
  BY <1>1 DEF BestEver, BestInv, Steady, Served
<1> QED
  BY <1>1

LEMMA EndBest ==
  ASSUME BestEver, NEW i \in Indexes, NEW docs, End(i, docs)
  PROVE  \A j \in Indexes : BestInv(j)'
<1>1. /\ DOMAIN index = Indexes /\ DOMAIN lately = Indexes
      /\ index' = [index EXCEPT ![i] = [Fresh EXCEPT !.docs = docs]]
      /\ lately' = [lately EXCEPT ![i] = NoHistory]
  BY DEF End, BestEver, WikiInv, VaultInv
<1>2. index'[i].pc = "idle"
  BY <1>1 DEF Fresh
<1>3. BestInv(i)'
  BY <1>2 DEF BestInv
<1> QED
  BY <1>1, <1>3, BestOneIndex

LEMMA BeginBest ==
  ASSUME BestEver, NEW i \in Indexes, NEW q \in Requests[i], Begin(i, q)
  PROVE  \A j \in Indexes : BestInv(j)'
<1>1. /\ DOMAIN index = Indexes /\ DOMAIN lately = Indexes
      /\ lately' = [lately EXCEPT ![i] = [f \in Files |-> {OnDisk(f)}]]
  BY DEF Begin, BestEver, WikiInv, VaultInv
<1>2. PICK listed : listed = {f \in Files : OnDisk(f) # Absent}
  OBVIOUS
<1>3. PICK docs : docs = IF there THEN index[i].docs ELSE Nowhere
  OBVIOUS
<1>4. index' = [index EXCEPT ![i] = [Fresh EXCEPT !.pc = "refresh", !.request = q, !.seen = listed,
                                                   !.todo = listed, !.docs = docs]]
  BY <1>2, <1>3 DEF Begin, Fresh
<1>5. index'[i].pc = "refresh" /\ index'[i].seen = listed /\ index'[i].todo = listed
  BY <1>1, <1>4 DEF Fresh
<1>6. ASSUME NEW f \in Files, NEW note, Steady(i, f, note)'
      PROVE  f \in listed
  BY <1>1, <1>2, <1>6 DEF Steady
<1>7. BestInv(i)'
  BY <1>5, <1>6 DEF BestInv
<1> QED
  BY <1>1, <1>4, <1>7, BestOneIndex

LEMMA StatBest ==
  ASSUME SavesPerTick = 1, BestEver, NEW i \in Indexes, NEW f \in Files, Stat(i, f)
  PROVE  \A j \in Indexes : BestInv(j)'
<1>1. /\ index \in [Indexes -> IndexType] /\ index[i] \in IndexType /\ lately' = lately
      /\ index[i].pc = "refresh" /\ BestInv(i) /\ CacheInv(i)
  BY DEF Stat, BestEver, TypeInv, TypeOK, IndexType, WikiInv, IndexInv
<1>2. PICK mtime : mtime = IF OnDisk(f) = Absent THEN None ELSE Tick(disk[f].at)
  OBVIOUS
<1>3. PICK v : index' = [index EXCEPT ![i] = v] /\ v = index'[i]
  BY <1>1, <1>2 DEF Stat
<1>4. ASSUME NEW note, Steady(i, f, note)
      PROVE  mtime = Tick(note.at) /\ mtime # None /\ mtime = 2 * note.at /\ OnDisk(f) # Absent /\ disk[f] = note
  <2>1. /\ OnDisk(f) = note /\ disk[f] = note /\ note \in Saved /\ Tick(note.at) \in Nat
        /\ note # Absent
    BY <1>1, <1>4, SteadyIsThere DEF Steady, BestEver
  <2>2. note.at \in Nat
    BY <2>1 DEF Saved
  <2>3. mtime = Tick(note.at) /\ mtime # None
    BY <1>2, <2>1, WikiAssumption
  <2> QED
    BY <2>1, <2>2, <2>3, TickIsExact
<1>5. ASSUME NEW note, Steady(i, f, note), index[i].docs[f] # Absent, index[i].docs[f].mtime = mtime
      PROVE  index[i].docs[f] = Entry(note)
  <2>1. index[i].docs[f] \in Cached
    BY <1>1, <1>5 DEF IndexType
  <2>2. index[i].docs[f].text = note.text
    BY <1>1, <1>4, <1>5 DEF CacheInv, OnDisk
  <2> QED
    BY <1>4, <1>5, <2>1, <2>2 DEF Entry, Cached
<1>6. /\ v.seen = index[i].seen /\ v.docs = index[i].docs
      /\ \/ /\ v.pc = "refresh" /\ v.todo = index[i].todo \ {f}
            /\ index[i].docs[f] # Absent /\ index[i].docs[f].mtime = mtime
         \/ v.pc = "read" /\ v.todo = index[i].todo /\ v.file = f /\ v.mtime = mtime /\ f \in v.todo
  BY <1>1, <1>2, <1>3 DEF Stat, IndexType
<1>7. BestInv(i)'
  <2> SUFFICES ASSUME NEW g \in Files, NEW note \in lately[i][g], Steady(i, g, note)
               PROVE  /\ g \in v.seen /\ (g \notin v.todo => v.docs[g] = Entry(note))
                      /\ v.pc = "read" /\ v.file = g => v.mtime = Tick(note.at)
    BY <1>1, <1>3, <1>6 DEF BestInv, Steady
  <2>1. g \in index[i].seen /\ (g \notin index[i].todo => index[i].docs[g] = Entry(note))
    BY <1>1 DEF BestInv
  <2> QED
    BY <1>4, <1>5, <1>6, <2>1
<1> QED
  BY <1>1, <1>3, <1>7, BestOneIndex

LEMMA ReadBest ==
  ASSUME BestEver, NEW i \in Indexes, Read(i)
  PROVE  \A j \in Indexes : BestInv(j)'
<1>1. /\ index \in [Indexes -> IndexType] /\ index[i] \in IndexType /\ lately' = lately
      /\ index[i].pc = "read" /\ BestInv(i) /\ index[i].file \in Files
  BY DEF Read, BestEver, TypeInv, TypeOK, IndexType
<1>2. PICK f \in Files : f = index[i].file
  BY <1>1
<1>3. PICK doc : doc = IF OnDisk(f) = Absent \/ TextOf(OnDisk(f)) \in Garbled THEN index[i].docs[f]
                       ELSE [text |-> disk[f].text, mtime |-> Stamp(i)]
  OBVIOUS
<1>4. index' = [index EXCEPT
         ![i].pc = "refresh", ![i].todo = @ \ {f}, ![i].file = None, ![i].mtime = None,
         ![i].docs[f] = doc]
  BY <1>2, <1>3 DEF Read
<1>5. /\ index'[i].pc = "refresh" /\ index'[i].todo = index[i].todo \ {f}
      /\ index'[i].seen = index[i].seen
      /\ index'[i].docs = [index[i].docs EXCEPT ![f] = doc]
      /\ \A j \in Indexes \ {i} : index'[j] = index[j]
  BY <1>1, <1>4 DEF IndexType
<1>6. ASSUME NEW note, note \in lately[i][f], Steady(i, f, note)
      PROVE  doc = Entry(note)
  <2>1. OnDisk(f) = note /\ disk[f] = note /\ note # Absent /\ note.text \notin Garbled /\ Tick(note.at) \in Nat
    BY <1>1, <1>6, SteadyIsThere DEF Steady, BestEver
  <2>2. index[i].mtime = Tick(note.at)
    BY <1>1, <1>2, <1>6 DEF BestInv
  <2>3. Stamp(i) = Tick(note.at)
    BY <2>1, <2>2, WikiAssumption DEF Stamp
  <2> QED
    BY <1>3, <2>1, <2>3 DEF TextOf, Entry
<1>7. DOMAIN index[i].docs = Files
  BY <1>1 DEF IndexType
<1>8. BestInv(i)'
  <2> SUFFICES ASSUME NEW g \in Files, NEW note \in lately[i][g], Steady(i, g, note)
               PROVE  /\ g \in index'[i].seen
                      /\ g \notin index'[i].todo => index'[i].docs[g] = Entry(note)
    BY <1>1, <1>5 DEF BestInv, Steady
  <2>1. g \in index[i].seen /\ (g \notin index[i].todo => index[i].docs[g] = Entry(note))
    BY <1>1 DEF BestInv
  <2>2. CASE g = f
    BY <1>5, <1>6, <1>7, <2>1, <2>2
  <2>3. CASE g # f
    BY <1>5, <1>7, <2>1, <2>3
  <2> QED
    BY <2>2, <2>3
<1> QED
  BY <1>1, <1>5, <1>8, BestOneIndex

\* The best k of what matches leave out only what scores no better.
LEMMA BestServe ==
  ASSUME NEW q, NEW docs, NEW hits \in SUBSET Matching(q, docs),
         Cardinality(hits) = IF q.k < Cardinality(Matching(q, docs)) THEN q.k
                             ELSE Cardinality(Matching(q, docs)),
         Best(q, docs, hits), NEW f \in Matching(q, docs) \ hits,
         NEW answer, answer = {[file |-> g, text |-> docs[g].text] : g \in hits}
  PROVE  /\ Cardinality(answer) = q.k
         /\ \A h \in answer : Score(h.text, q.terms) >= Score(docs[f].text, q.terms)
<1>1. IsFiniteSet(Matching(q, docs)) /\ IsFiniteSet(hits)
  BY WikiAssumption, FS_Subset DEF Matching
<1>2. Cardinality(hits) # Cardinality(Matching(q, docs))
  BY <1>1, FS_Subset
<1>3. Cardinality(hits) = q.k
  BY <1>2
<1>4. PICK bij : bij = [g \in hits |-> [file |-> g, text |-> docs[g].text]]
  OBVIOUS
<1>5. ExistsBijection(hits, answer)
  <2>1. bij \in [hits -> answer]
    BY <1>4
  <2>2. \A a, b \in hits : bij[a] = bij[b] => a = b
    <3> SUFFICES ASSUME NEW a \in hits, NEW b \in hits, bij[a] = bij[b] PROVE a = b
      OBVIOUS
    <3>1. bij[a].file = a /\ bij[b].file = b
      BY <1>4
    <3> QED
      BY <3>1
  <2>3. \A h \in answer : \E a \in hits : bij[a] = h
    BY <1>4
  <2> QED
    BY <2>1, <2>2, <2>3 DEF ExistsBijection, Bijection, Injection, Surjection, IsInjective
<1>6. Cardinality(answer) = Cardinality(hits)
  BY <1>1, <1>5, FS_Bijection
<1>7. \A g \in hits : Score(docs[g].text, q.terms) >= Score(docs[f].text, q.terms)
  BY DEF Best
<1> QED
  BY <1>3, <1>6, <1>7

LEMMA SearchBest ==
  ASSUME BestEver, NEW i \in Indexes, Search(i)
  PROVE  \A j \in Indexes : BestInv(j)'
<1> DEFINE q == index[i].request
           docs == Retained(index[i].docs, index[i].seen)
<1>1. /\ index \in [Indexes -> IndexType] /\ index[i] \in IndexType /\ lately' = lately
      /\ index[i].pc = "refresh" /\ index[i].todo = {} /\ BestInv(i)
  BY DEF Search, BestEver, TypeInv, TypeOK, IndexType
<1>2. PICK hits \in SUBSET Matching(q, docs) :
        /\ Cardinality(hits) = IF q.k < Cardinality(Matching(q, docs)) THEN q.k
                               ELSE Cardinality(Matching(q, docs))
        /\ Best(q, docs, hits)
        /\ index' = [index EXCEPT ![i].pc = "answered", ![i].docs = docs,
                               ![i].hits = {[file |-> f, text |-> docs[f].text] : f \in hits}]
  BY DEF Search, kSubset
<1>3. PICK answer : answer = {[file |-> f, text |-> docs[f].text] : f \in hits}
  OBVIOUS
<1>4. /\ index'[i].pc = "answered" /\ index'[i].hits = answer /\ index'[i].request = q
      /\ \A j \in Indexes \ {i} : index'[j] = index[j]
  BY <1>1, <1>2, <1>3 DEF IndexType
<1>5. ASSUME NEW f \in Files, NEW note \in lately[i][f], Steady(i, f, note),
             Eligible(q, Entry(note)), Score(note.text, q.terms) > 0
      PROVE  \/ [file |-> f, text |-> note.text] \in answer
             \/ /\ Cardinality(answer) = q.k
                /\ \A h \in answer : Score(h.text, q.terms) >= Score(note.text, q.terms)
  <2>1. f \in index[i].seen /\ index[i].docs[f] = Entry(note)
    BY <1>1, <1>5 DEF BestInv
  <2>2. note \in Saved
    BY <1>1, <1>5, SteadyIsThere DEF BestEver
  <2>3. docs[f] = Entry(note)
    BY <2>1 DEF Retained
  <2>4. docs[f].text = note.text
    BY <2>3 DEF Entry
  <2>5. f \in Matching(q, docs)
    <3>1. docs[f] # Absent
      BY <2>2, <2>3, EntryTyped
    <3> QED
      BY <1>5, <2>3, <2>4, <3>1 DEF Matching
  <2>6. CASE f \in hits
    BY <1>3, <2>4, <2>6
  <2>7. CASE f \notin hits
    <3> HIDE DEF q, docs
    <3> QED
      BY <1>2, <1>3, <2>4, <2>5, <2>7, BestServe
  <2> QED
    BY <2>6, <2>7
<1>6. BestInv(i)'
  <2> HIDE DEF q, docs
  <2> QED
    BY <1>1, <1>4, <1>5 DEF BestInv, Served, Steady
<1> QED
  BY <1>1, <1>4, <1>6, BestOneIndex

LEMMA ChangeBest ==
  ASSUME BestEver,
         \/ \E f \in Files : Delete(f) \/ \E text \in Texts : Save(f, text)
         \/ Move
  PROVE  \A i \in Indexes : BestInv(i)'
<1>1. index' = index /\ \E now : Becomes(now)
  BY DEF Delete, Save, Move
<1>2. ASSUME NEW i \in Indexes PROVE BestInv(i)'
  <2>1. CASE index[i].pc = "idle"
    BY <1>1, <2>1 DEF BestInv
  <2>2. CASE index[i].pc # "idle"
    <3>1. BestInv(i)
      BY DEF BestEver
    <3>2. ASSUME NEW f \in Files, NEW note, Steady(i, f, note)'
          PROVE  Steady(i, f, note) /\ note \in lately[i][f]
      <4>1. OnDisk(f) \in lately[i][f]
        BY <2>2 DEF BestEver, WikiInv, IndexInv, WindowInv
      <4>2. lately[i][f] \subseteq lately'[i][f]
        BY <1>1, <2>2 DEF Becomes
      <4> QED
        BY <3>2, <4>1, <4>2 DEF Steady
    <3> QED
      BY <1>1, <3>1, <3>2 DEF BestInv, Served
  <2> QED
    BY <2>1, <2>2
<1> QED
  BY <1>2

LEMMA BestStep ==
  ASSUME SavesPerTick = 1, BestEver, [Next]_vars
  PROVE  BestEver'
<1>1. WikiInv' /\ TypeInv'
  BY WikiInductive, TypeStep DEF BestEver
<1>2. \A i \in Indexes : BestInv(i)'
  <2>1. ASSUME NEW i \in Indexes, Respond(i) \/ ListingFails(i) \/ Restart(i)
        PROVE  \A j \in Indexes : BestInv(j)'
    BY <2>1, EndBest DEF Respond, ListingFails, Restart
  <2>2. CASE UNCHANGED vars
    BY <2>2 DEF vars, BestEver, BestInv, Steady, Served
  <2> QED
    BY <2>1, <2>2, BeginBest, StatBest, ReadBest, SearchBest, ChangeBest DEF Next
<1> QED
  BY <1>1, <1>2 DEF BestEver

\* As long as no two saves of a note share a modification time, a note that could be
\* read and stayed as it was throughout a request is in the answer, unless the
\* request does not ask for it or k notes that score as high are.
THEOREM NothingBetterIsMissed ==
  ASSUME SavesPerTick = 1
  PROVE  Spec => []NothingBetterMissed
<1>1. Init => BestEver
  <2> SUFFICES ASSUME Init PROVE BestEver
    OBVIOUS
  <2>1. \A i \in Indexes : index[i].pc = "idle"
    BY DEF Init, Fresh
  <2>2. \A i \in Indexes : BestInv(i)
    BY <2>1 DEF BestInv
  <2> QED
    BY <2>2, WikiInit, TypeInit DEF BestEver
<1>2. BestEver => NothingBetterMissed
  <2> SUFFICES ASSUME BestEver, NEW i \in Indexes, index[i].pc = "answered", NEW f \in Files,
                      OnDisk(f) # Absent, lately[i][f] = {disk[f]}, disk[f].text \notin Garbled,
                      Eligible(index[i].request, [text |-> disk[f].text, mtime |-> Tick(disk[f].at)]),
                      Score(disk[f].text, index[i].request.terms) > 0
               PROVE  \/ [file |-> f, text |-> disk[f].text] \in index[i].hits
                      \/ /\ Cardinality(index[i].hits) = index[i].request.k
                         /\ \A h \in index[i].hits : Score(h.text, index[i].request.terms)
                              >= Score(disk[f].text, index[i].request.terms)
    BY DEF NothingBetterMissed
  <2>1. Steady(i, f, disk[f]) /\ disk[f] \in lately[i][f]
    BY DEF Steady, OnDisk
  <2>2. Served(i, f, disk[f])
    BY <2>1 DEF BestEver, BestInv
  <2> QED
    BY <2>2 DEF Served, Entry
<1> QED
  BY <1>1, <1>2, BestStep, PTL DEF Spec
===============================================================================
