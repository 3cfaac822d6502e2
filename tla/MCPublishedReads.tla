--------------------------- MODULE MCPublishedReads ---------------------------
(* PublishedReads for TLC *)
EXTENDS PublishedReads, TLC

CONSTANTS post, author, r1, r1a, r2, r3, r4, r4a, c1, c2, i1, i2

Models == {post, author}
EntryModels == [e \in 1..4 |-> IF e = 4 THEN author ELSE post]
Revisions == {r1, r1a, r2, r3, r4, r4a}
Contents ==
    (r1 :> [entry |-> 1, rank |-> 1, link |-> 4]) @@ (r1a :> [entry |-> 1, rank |-> 0, link |-> 0])
    @@ (r2 :> [entry |-> 2, rank |-> 0, link |-> 4]) @@ (r3 :> [entry |-> 3, rank |-> 1, link |-> 0])
    @@ (r4 :> [entry |-> 4, rank |-> 0, link |-> 0]) @@ (r4a :> [entry |-> 4, rank |-> 0, link |-> 0])
FirstItems == (i1 :> c1) @@ (i2 :> None)
Targets == (c1 :> {4}) @@ (c2 :> {1, 4})

List(sort, among, linked, expand) ==
    [list |-> TRUE, entry |-> 0, sort |-> sort, among |-> among, linked |-> linked, expand |-> expand]
By(column, desc) == [by |-> column, desc |-> desc]
One(entry, expand) ==
    [list |-> FALSE, entry |-> entry, sort |-> <<>>, among |-> {}, linked |-> 0, expand |-> expand]

\* Entry 4 is asked for, too, as if it were of the model of the others.
Queries == {
    One(1, TRUE), One(4, FALSE),
    List(<<>>, {}, 0, TRUE),
    List(<<By("rank", FALSE)>>, {}, 0, FALSE),
    List(<<By("rank", TRUE)>>, {}, 0, FALSE),
    List(<<By("published_at", TRUE), By("rank", TRUE)>>, {}, 0, FALSE),
    List(<<By("published_at", FALSE), By("rank", FALSE)>>, {}, 0, FALSE),
    List(<<By("rank", FALSE)>>, {}, 4, FALSE),
    List(<<By("id", FALSE)>>, {1}, 0, FALSE)}
KeyScopes == {{post}, {post, author}}

===============================================================================
