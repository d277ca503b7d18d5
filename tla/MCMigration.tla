---------------------------- MODULE MCMigration ----------------------------
(* Exports whose records share URLs, hashes and jobs, and one that is not valid. *)
EXTENDS Migration

CONSTANTS home, guide, news, h1, h2

Page(u, x) == [url |-> u, crawled |-> x]
Link(u, v) == [from |-> u, to |-> v]
Text(u, h) == [hash |-> h, url |-> u, text |-> TRUE]
Job(u, s) == [url |-> u, status |-> s]

\* A small site; the same with a text of news, which it does not declare.
Site == [valid |-> TRUE, nodes |-> <<Page(home, TRUE), Page(guide, FALSE)>>,
         edges |-> <<Link(home, guide), Link(guide, news)>>,
         contents |-> <<Text(home, h1), [Text(guide, h2) EXCEPT !.text = FALSE]>>,
         jobs |-> <<Job(home, "done"), Job(guide, NoStatus)>>]
Stray == [Site EXCEPT !.contents = <<Text(news, h1)>>, !.edges = <<>>]
\* Two pages of one hash; two records of one page and one job.
Mirrors == [Site EXCEPT !.contents = <<Text(home, h1), Text(guide, h1)>>, !.edges = <<>>]
Doubles == [Site EXCEPT !.nodes = <<Page(home, TRUE), Page(home, FALSE)>>,
                        !.jobs = <<Job(home, NoStatus), Job(home, "done")>>]
Broken == [Site EXCEPT !.valid = FALSE]

MCExports == {Site, Stray, Mirrors, Doubles, Broken}
=============================================================================
