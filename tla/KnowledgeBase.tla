---------------------------- MODULE KnowledgeBase ----------------------------
(* The company knowledge base: a document is cut into passages, the passages *)
(* are indexed under ids made of the document and their position, and a      *)
(* question about one country's policy retrieves passages.                   *)
(*                                                                           *)
(* A block of text is what the code tells apart: whether it is a list, ends  *)
(* in a colon, and which country's markers it contains.                      *)
EXTENDS Integers, Sequences, FiniteSets

CONSTANTS
  MaxBlocks,     \* bound: blocks of a document that is only cut
  MaxIndexed,    \* bound: blocks of a document that is indexed
  Indexers       \* runs of rag_index

VARIABLES
  page,          \* a document, cut once
  index,         \* the collection: whether it exists, and its passages by position
  run            \* the indexing runs

knowledgeVars == <<page, index, run>>

Block == [list : BOOLEAN, colon : BOOLEAN, names : SUBSET {"US", "ES"}]
Plain == {b \in Block : b.names = {}}
Documents(blocks, n) == UNION {[1..k -> blocks] : k \in 1..n}

-----------------------------------------------------------------------------
(* chunk_document.                                                           *)

\* The last of the lists that immediately follow block i.
ListsFrom(doc, i) ==
  CHOOSE j \in i..Len(doc) :
    /\ \A k \in (i + 1)..j : doc[k].list
    /\ j = Len(doc) \/ ~doc[j + 1].list

\* _group_blocks: the last block of the passage that opens with block i.
PassageEnd(doc, i) ==
  LET j == ListsFrom(doc, i)
  IN IF doc[j].colon /\ j < Len(doc) THEN ListsFrom(doc, j + 1) ELSE j

GroupBlocks(doc) ==
  LET From[i \in 1..(Len(doc) + 1)] ==
        IF i > Len(doc) THEN <<>>
        ELSE <<[first |-> i, last |-> PassageEnd(doc, i)]>> \o From[PassageEnd(doc, i) + 1]
  IN From[1]

Text(doc, passage) == SubSeq(doc, passage.first, passage.last)
Named(text) == UNION {text[k].names : k \in DOMAIN text}

\* mutant: the opening block decides
ByOpening(text) == IF Cardinality(text[1].names) = 1 THEN text[1].names ELSE {"US", "ES"}

\* _jurisdiction: one country's when only its markers occur, else GLOBAL.
Jurisdiction(text) == IF Cardinality(Named(text)) = 1 THEN Named(text) ELSE {"US", "ES"}

ChunkDocument(doc) ==
  LET passages == GroupBlocks(doc)
  IN [k \in 1..Len(passages) |-> [text |-> Text(doc, passages[k]),
                                  countries |-> Jurisdiction(Text(doc, passages[k]))]]

-----------------------------------------------------------------------------
(* setup, in several runs that may overlap, and retrieve.                    *)
NoRun == [pc |-> "idle", chunks |-> <<>>]
NoCollection == [exists |-> FALSE, points |-> <<>>]
Short == {b \in Block : ~b.list /\ Cardinality(b.names) < 2 /\ (b.colon => b.names = {})}

PageInit == page \in Documents(Plain, MaxBlocks)

IndexInit == index = NoCollection /\ run = [r \in Indexers |-> NoRun]

\* _load_corpus; the document may have been edited since any earlier run.
LoadCorpus(r) ==
  /\ run[r].pc = "idle"
  /\ \E doc \in Documents(Short, MaxIndexed) :
       run' = [run EXCEPT ![r] = [pc |-> "ensure", chunks |-> ChunkDocument(doc)]]
  /\ UNCHANGED <<page, index>>

\* _ensure_collection: with --recreate an existing collection is dropped first.
DropCollection(r) ==
  /\ run[r].pc = "ensure" /\ index.exists /\ index' = NoCollection
  /\ UNCHANGED <<page, run>>

\* The embeddings of all passages are made after it.
EnsureCollection(r) ==
  /\ run[r].pc = "ensure" /\ run' = [run EXCEPT ![r].pc = "upsert"]
  /\ index' = [index EXCEPT !.exists = TRUE]
  /\ UNCHANGED page

\* The points overwrite those at the same positions; the others stay.
Upsert(r) ==
  /\ run[r].pc = "upsert" /\ index.exists /\ run' = [run EXCEPT ![r] = NoRun]
  /\ LET new == run[r].chunks
     IN index' = [index EXCEPT !.points = [k \in DOMAIN @ \cup DOMAIN new |->
                                             IF k \in DOMAIN new THEN new[k] ELSE @[k]]]
  /\ UNCHANGED page

SetupFails(r) ==
  /\ run[r].pc # "idle" /\ run' = [run EXCEPT ![r] = NoRun]
  /\ UNCHANGED <<page, index>>

\* The filter of the search and the one after it; which of these passages are
\* similar enough to the question is the embedding's choice.
Retrieve(country) == {k \in DOMAIN index.points : country \in index.points[k].countries}

KnowledgeNext ==
  \E r \in Indexers : LoadCorpus(r) \/ DropCollection(r) \/ EnsureCollection(r) \/ Upsert(r) \/ SetupFails(r)

-----------------------------------------------------------------------------
\* _group_blocks: the passages are the document in order; a list stays with
\* what is above it, and a lead-in that opens a passage is never left alone.
PassagesAreSelfContained ==
  LET passages == GroupBlocks(page)
      opens == {passages[k].first : k \in DOMAIN passages}
  IN /\ passages[1].first = 1 /\ passages[Len(passages)].last = Len(page)
     /\ \A k \in 1..(Len(passages) - 1) : passages[k + 1].first = passages[k].last + 1
     /\ \A i \in opens : page[i].list => i = 1
     /\ \A i \in opens : page[i].colon /\ i < Len(page) => i + 1 \notin opens

\* _jurisdiction, retrieve: what is retrieved for a country never comes from a
\* passage that only speaks of the other, whatever was edited, whichever runs
\* overlapped or failed, and however old the passage is.
NoForeignPolicy ==
  \A country \in {"US", "ES"} : \A k \in Retrieve(country) :
    LET named == Named(index.points[k].text) IN named = {} \/ country \in named

\* chunk_document, retrieve: passages are whole, and none is retrieved for a
\* country it does not speak of.
PassagesAreSound == PassagesAreSelfContained /\ NoForeignPolicy
=============================================================================
