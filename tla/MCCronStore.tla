---------------------------- MODULE MCCronStore ----------------------------
(* TLC instances of CronStore.  A day has 3 minutes, the slots are at minute *)
(* 1; a scenario starts from one document and bounds requests and faults.   *)
EXTENDS CronStore

CONSTANTS j1, j2, j3

Daily  == [repeat |-> "daily", slot |-> 1, date |-> None, told |-> None]
Once   == [Daily EXCEPT !.repeat = "once"]
Dated  == [Once EXCEPT !.date = 1]
Legacy == [Daily EXCEPT !.slot = 0, !.told = 1]
Fixed  == [Legacy EXCEPT !.slot = 1]
ThePlans == {Daily, Once, Dated, Legacy, Fixed}

A(plan) == [plan |-> plan, enabled |-> TRUE, born |-> 0, ran |-> Never]
Off(plan) == [A(plan) EXCEPT !.enabled = FALSE]
Book(a, b) == [j \in Jobs |-> IF j = j1 THEN a ELSE IF j = j2 THEN b ELSE None]

Base == [cloud |-> FALSE, admin |-> FALSE, book |-> Book(A(Daily), A(Once)),
         plans |-> {Daily}, from |-> 1, until |-> 1, edits |-> 0, faults |-> 0]

TheSetups ==
  {[Base EXCEPT !.edits = 2],
   [Base EXCEPT !.edits = 2, !.book = Book(A(Daily), Off(Daily))],
   [Base EXCEPT !.edits = 1, !.book = Book(A(Legacy), A(Dated)), !.faults = 1,
                !.plans = {Legacy, Fixed, Dated}],
   [Base EXCEPT !.edits = 1, !.from = 0, !.until = 4, !.plans = {}],
   [Base EXCEPT !.from = 0, !.until = 5, !.book = Book(A(Legacy), A(Dated)), !.faults = 1],
   [Base EXCEPT !.edits = 1, !.admin = TRUE, !.book = Book(A(Daily), A(Daily))],
   [Base EXCEPT !.edits = 2, !.cloud = TRUE, !.book = Book(A(Daily), None)],
   [Base EXCEPT !.edits = 1, !.cloud = TRUE, !.faults = 1]}
=============================================================================
