------------------------------- MODULE MCFeed -------------------------------
(***************************************************************************)
(* Integers of five bits, so that a page number can overflow the offset.   *)
(* Each query string departs from one of two in a parameter or two.        *)
(***************************************************************************)
EXTENDS Feed

CONSTANTS ann, bob

MCUsers == {ann, bob}

Form(a, m, r) == [author |-> a, matches |-> m, readable |-> r]
MCForms == {Form(ann, TRUE, TRUE), Form(bob, TRUE, TRUE), Form(bob, FALSE, FALSE)}

MCFollowRows == {<<bob, bob>>, <<ann, bob>>}

Plain == [page |-> Absent, page_size |-> 1, sort |-> Absent, search |-> Absent,
          tags |-> Absent, since |-> Absent, until |-> Absent]

Whole == [Plain EXCEPT !.page_size = 4]

MCQueries ==
    {[Plain EXCEPT !.sort = "-created_at"],
     [Plain EXCEPT !.page_size = Absent, !.search = "word"]}
    \cup {[Whole EXCEPT !.page = n] : n \in {0, 2, 5, 9, Malformed, 16}}
    \cup {[Whole EXCEPT !.page_size = n] : n \in {Malformed, 5}}
    \cup {[Whole EXCEPT !.since = s, !.until = u] :
             s \in {Absent, Malformed, 2}, u \in {Absent, 1, 3}}
    \cup {[Whole EXCEPT !.sort = Malformed], [Whole EXCEPT !.tags = "tag"]}
=============================================================================
