-------------------------- MODULE MCOntologyClient --------------------------
(* Three cursors and three pages: cycles of every length up to the page     *)
(* limit, under each operation, with two questions, two values inside them, *)
(* and a status of each kind that the client tells apart, success and       *)
(* server error on both sides of their borders.                             *)
EXTENDS OntologyClient

CONSTANTS c1, c2, c3, q1, q2, n1, n2

MCCursors   == {c1, c2, c3}
MCQuestions == {q1, q2}
MCNested    == {n1, n2}
MCStatuses  == {199, 200, 299, 300, 401, 403, 404, 409, 422, 499, 500}
=============================================================================
