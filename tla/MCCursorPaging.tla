---------------------------- MODULE MCCursorPaging ----------------------------
(* The listings of the services, on small tables. *)
EXTENDS CursorPaging

CONSTANTS v1, v2

MCDevices == {v1, v2}

By(column, tie, desc) ==
  [column |-> column, tie |-> tie, desc |-> desc, limit |-> 2, latest |-> FALSE,
   only |-> MCDevices, keeps |-> TRUE, follow |-> FALSE]

Latest(desc) == [By("timestamp", TRUE, desc) EXCEPT !.latest = TRUE, !.limit = 1]
OneVehicle(l, keeps) == [l EXCEPT !.only = {v1}, !.keeps = keeps]
Follow == [By("id", FALSE, FALSE) EXCEPT !.follow = TRUE]

(* getEvents with all_events in either order, for one vehicle, and with    *)
(* latest_per_vehicle in ascending order; getTransactions by id; the event *)
(* feed that is followed.                                                  *)
GoodListings ==
  {By("timestamp", TRUE, FALSE), By("timestamp", TRUE, TRUE),
   OneVehicle(By("timestamp", TRUE, TRUE), TRUE), Latest(FALSE),
   By("id", FALSE, FALSE), Follow}

(* getTransactions by timestamp; getEvents without options; getDevices of  *)
(* a provider, and getTransactions of a fee type; the feed.                *)
LossyListings ==
  {By("timestamp", FALSE, FALSE), Latest(TRUE),
   OneVehicle(By("id", FALSE, FALSE), FALSE), Follow}

=============================================================================
