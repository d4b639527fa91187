------------------------------ MODULE MCConsole ------------------------------
(* Accounts of up to two entries, a point in time after the first, and       *)
(* pages of one entry.  Every behaviour follows one query, on a page that    *)
(* observes it and one that does not, with one of the modals, for one        *)
(* account or for two between which the user moves.                          *)
EXTENDS Console

Accounts == {"mine", "ours"}
PointsInTime == {"tuesday"}
OneByThen == [id \in Accounts |-> [T \in PointsInTime |-> 1]]

Always == PointsInTime \cup {"now"}
Study(kind, accounts, pages, modals, times, others) ==
  [kind: {kind}, accounts: {accounts}, pages: {pages}, modals: {modals}, times: {times},
   others: {others}]
One == {"mine"}

Trails == Study("audit", One, {"detail", "dashboard"}, {}, Always, One)
          \cup Study("audit", One, {"detail"}, {"movement"}, Always, {})
          \cup Study("audit", One, {"detail"}, {"movement"}, PointsInTime, One)
          \cup Study("audit", Accounts, {"detail"}, {}, {}, Accounts)
          \cup Study("audit", Accounts, {"detail"}, {}, PointsInTime, One)
          \cup Study("audit", Accounts, {"detail"}, {"movement"}, {}, {})
Lists == Study("accounts", One, {"detail", "reports"}, {"create"}, {}, One)
         \cup Study("accounts", One, {"detail", "reports"}, {"movement"}, {}, One)
Details == Study("account", One, {"detail", "accounts"}, {"limit"}, {}, One)
           \cup Study("account", Accounts, {"detail"}, {"transfer"}, {}, One)
           \cup Study("account", Accounts, {"detail"}, {"movement"}, {}, {})
Balances == Study("account-balance", One, {"detail", "reports"}, {"void"}, Always, One)
            \cup Study("account-balance", Accounts, {"detail"}, {"void"}, Always, {})
Histories == Study("status-history", One, {"detail", "activity"}, {"status"}, {}, {})
             \cup Study("status-history", Accounts, {"detail"}, {"limit"}, {}, {})
Voidables == Study("account-transactions", One, {"detail", "settings"}, {"void"}, {}, One)
             \cup Study("account-transactions", Accounts, {"detail"}, {"void"}, {}, {})

AllStudies == Trails \cup Lists \cup Details \cup Balances \cup Histories \cup Voidables

=============================================================================
