----------------------------- MODULE ReportLayout -----------------------------
(***************************************************************************)
(* "jio report layout" (src/report-layout.c): for every journal a file is  *)
(* written that has a mark for each object, from which the place of every  *)
(* object in the journal can be told.  A mark is what is printed of the    *)
(* object, without its wording.                                            *)
(***************************************************************************)
EXTENDS Ring, Sequences

CONSTANT PAGE_SIZE

ASSUME LayoutAssumption == PAGE_SIZE \in Nat \ {0}

VARIABLE out    \* per journal, its layout file: the stream and what is in it

LayoutInit == out = [j \in Journal |-> [stream |-> "none", marks |-> <<>>]]

-----------------------------------------------------------------------------
\* Faulty variant: an object that ends where a page does spans that boundary.
page_delta_inclusive(off, size) ==
    ((off + size) \div PAGE_SIZE + 1 - off \div PAGE_SIZE) * PAGE_SIZE

\* next_page - this_page of per_data_object().
page_delta(off, size) ==
    ((off + size + PAGE_SIZE - 1) \div PAGE_SIZE - off \div PAGE_SIZE) * PAGE_SIZE

\* What per_data_object() prints of an object at off: whether it begins a
\* page, type_map of its type, the page boundaries it spans ("|N|", "|" or
\* nothing), its size, and its padding ("+N", "+" or nothing).
Mark(off, object) ==
    [page |-> off % PAGE_SIZE = 0,
     type |-> object.type,
     spans |-> IF page_delta(off, object.size) > PAGE_SIZE
               THEN page_delta(off, object.size) \div PAGE_SIZE - 1 ELSE 0,
     size |-> object.size,
     pad |-> ALIGN64(object.size) - object.size]

\* per_data_object() having run for marks, and for the end of the journal if
\* the iteration has come to it: the file is closed then.
Printed(file, marks, st) ==
    [stream |-> IF st = "done" THEN "closed" ELSE file.stream, marks |-> file.marks \o marks]

\* per_journal(): the file is created and the journal's header asked for.
layout_journal(j) ==
    /\ journal_get_header(j)
    /\ out' = [out EXCEPT ![j].stream = "open"]

\* The steps of the iteration with the closure they run.
LayoutGotHeader(j) ==
    /\ got_header(j)
    /\ out' = [out EXCEPT ![j] = Printed(@, <<>>, it'[j].st)]
LayoutGotObject(j) ==
    /\ got_iter_object_header(j)
    /\ out' = [out EXCEPT ![j] =
                  Printed(@, <<Mark(it[j].offset, it'[j].object)>>, it'[j].st)]

\* malloc() or fopen() fails in per_journal(), or a read does later.
LayoutFails(j) ==
    /\ ~ err
    /\ it[j].st # "done"
    /\ err' = TRUE
    /\ UNCHANGED <<starts, at, end, tail, intact, it, seen, out>>

LayoutCallback(j) ==
    \/ layout_journal(j) /\ Dispatch(j, 1)
    \/ LayoutGotHeader(j) /\ Dispatch(j, NextRead(j))
    \/ LayoutGotObject(j) /\ Dispatch(j, NextRead(j))
    \/ LayoutFails(j) /\ Dispatch(j, 0)

-----------------------------------------------------------------------------
\* The marks tell where the objects of j are: the k-th mark is that of the
\* object at place[k], the first object comes right behind the header, each
\* further one as far behind the one before it as that one's size and padding
\* say, and no object is left out.  A mark's boundary count is the number of
\* page boundaries inside the object.
Tells(j, marks, place) ==
    /\ \A o \in Expected(j) : \E k \in DOMAIN marks : place[k] = o
    /\ \A k \in DOMAIN marks :
          LET o == place[k]
              m == marks[k]
          IN  /\ IF k = 1 THEN o = header_size
                 ELSE /\ o > place[k - 1]
                      /\ o = place[k - 1] + marks[k - 1].size + marks[k - 1].pad
              /\ m.type = at[j][o].type
              /\ m.page = \E n \in 0 .. MaxEnd : n * PAGE_SIZE = o
              /\ m.spans = Cardinality({n \in 0 .. MaxEnd :
                              o < n * PAGE_SIZE /\ n * PAGE_SIZE < o + m.size})

\* A journal's layout file is open for as long as its iteration runs, and is
\* closed at its end, when its marks tell the place of every object in the
\* journal.
LayoutTellsObjects ==
    \A j \in Journal :
       /\ (out[j].stream = "open") = (it[j].st \in {"header", "reading"})
       /\ it[j].st = "done" =>
             /\ out[j].stream = "closed"
             /\ \E place \in [DOMAIN out[j].marks -> Expected(j)] :
                   Tells(j, out[j].marks, place)
=============================================================================
