---------------------------- MODULE CollectionId ----------------------------
(***************************************************************************)
(* The identifier of a collection (createCollectionId of                   *)
(* lib/threads/frontend.js) and what it is for: a document that was        *)
(* rendered for a collection is served whenever a collection with the same *)
(* identifier is asked for.                                                *)
(*                                                                         *)
(* The identifier is the hash of lines written for the metabook, and of    *)
(* the writer.  Keys and values are escaped, so that a line is a pair and  *)
(* the text that is hashed a sequence of pairs; SHA-1 is taken to tell any *)
(* two texts apart, and the text is the identifier.                        *)
(*                                                                         *)
(* A metabook has top-level keys other than "items" and "settings" (a key  *)
(* that is Absent writes no line, a value that is Empty an empty one) and  *)
(* a sequence of items.  An item is an article or a chapter of articles.   *)
(* Values are strings: what String() makes of others is left out.          *)
(***************************************************************************)
EXTENDS Integers, SequencesExt, FiniteSets

CONSTANTS Keys,      \* a sequence: the top-level keys as they are sorted
          Titles,
          Urls,
          Revisions,
          Writers,
          Absent,    \* no such key
          Empty,     \* a field that is absent or empty
          MaxItems,     \* bounds of the model: the items of a book,
          MaxChapter,   \* the articles of a chapter
          MaxRendered   \* and the documents that are kept

ASSUME KeysAssumption == Keys \in Seq(Range(Keys))

VARIABLES rendered,   \* identifiers and the collections rendered under them
          asked,      \* the last collection that was asked for
          served      \* the collection whose document was served for it

vars == <<rendered, asked, served>>

UpTo(n, S) == UNION {[1..k -> S] : k \in 0..n}

Article == [type : {"article"}, title : Titles \cup {Empty}, url : Urls \cup {Empty},
            revision : Revisions \cup {Empty}]

Chapter == [type : {"chapter"}, title : Titles \cup {Empty}, items : UpTo(MaxChapter, Article)]

Metabook == [keys : [Range(Keys) -> Titles \cup {Empty, Absent}],
             items : UpTo(MaxItems, Article \cup Chapter)]

Collection == [metabook : Metabook, writer : Writers]

-----------------------------------------------------------------------------

UpdateLine(k, value) == <<[key |-> k, value |-> value]>>

UpdateKeys(keys) ==
  FlattenSeq([i \in DOMAIN Keys |->
                IF keys[Keys[i]] = Absent THEN << >> ELSE UpdateLine(Keys[i], keys[Keys[i]])])

\* Faulty: the revision is left out.
UpdateArticleWithoutRevision(item) ==
  IF item.url # Empty THEN UpdateLine("url", item.url) ELSE UpdateLine("title", item.title)

UpdateArticle(item) ==
  (IF item.url # Empty THEN UpdateLine("url", item.url) ELSE UpdateLine("title", item.title))
  \o (IF item.revision # Empty THEN UpdateLine("revision", item.revision) ELSE << >>)

\* The end of a chapter leaves no trace.
UpdateItem(item) ==
  IF item.type = "chapter"
  THEN UpdateLine("title", item.title)
       \o FlattenSeq([i \in DOMAIN item.items |-> UpdateArticle(item.items[i])])
  ELSE UpdateArticle(item)

CreateCollectionId(metabook, writer) ==
  [lines  |-> UpdateKeys(metabook.keys)
              \o FlattenSeq([i \in DOMAIN metabook.items |-> UpdateItem(metabook.items[i])]),
   writer |-> writer]

IdOf(collection) == CreateCollectionId(collection.metabook, collection.writer)

-----------------------------------------------------------------------------

Init == \E collection \in Collection :
  /\ rendered = {<<IdOf(collection), collection>>}
  /\ asked = collection
  /\ served = collection

\* A status with this identifier is there and finished: its document is
\* served.  Otherwise the collection is rendered and then served.
HandleRender(collection) ==
  /\ asked' = collection
  /\ \/ \E job \in rendered :
          /\ job[1] = IdOf(collection)
          /\ served' = job[2]
          /\ UNCHANGED rendered
     \/ /\ \A job \in rendered : job[1] # IdOf(collection)
        /\ Cardinality(rendered) < MaxRendered
        /\ rendered' = rendered \cup {<<IdOf(collection), collection>>}
        /\ served' = collection

\* The garbage collector removes a status object.
CleanJobStatusObjects ==
  /\ \E job \in rendered : rendered' = rendered \ {job}
  /\ UNCHANGED <<asked, served>>

Next ==
  \/ \E collection \in Collection : HandleRender(collection)
  \/ CleanJobStatusObjects

Spec == Init /\ [][Next]_vars

-----------------------------------------------------------------------------

\* "Create a SHA hash of all pertinent metadata that affects how a book is
\* rendered": two collections of one title and one writer that share a document
\* have the same chapters with the same articles in them.
ServesWhatWasAsked ==
  served.metabook.keys = asked.metabook.keys /\ served.writer = asked.writer
    => served.metabook.items = asked.metabook.items

Flat(metabook) == \A i \in 1..Len(metabook.items) : metabook.items[i].type = "article"

PresentKeys(metabook) == {k \in Range(Keys) : metabook.keys[k] # Absent}

\* What an article stands for: its title matters only if there is no URL.
Reference(item) ==
  [url      |-> item.url,
   title    |-> IF item.url = Empty THEN item.title ELSE Empty,
   revision |-> item.revision]

\* What the hashed text does tell apart, although nothing separates the lines of
\* an article from those of the next: books without chapters that have the same
\* fields and share a document agree in every field, in the writer and in their
\* articles, with the revisions, one by one.
ServesFlatBooks ==
  /\ Flat(served.metabook)
  /\ Flat(asked.metabook)
  /\ PresentKeys(served.metabook) = PresentKeys(asked.metabook)
  => /\ served.writer = asked.writer
     /\ served.metabook.keys = asked.metabook.keys
     /\ Len(served.metabook.items) = Len(asked.metabook.items)
     /\ \A i \in 1..Len(asked.metabook.items) :
          Reference(served.metabook.items[i]) = Reference(asked.metabook.items[i])

=============================================================================
