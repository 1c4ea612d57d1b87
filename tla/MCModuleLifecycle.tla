-------------------------- MODULE MCModuleLifecycle --------------------------
(* http, the server it needs, a site whose handlers http keeps, smtp which   *)
(* the script of http looks up without depending on it and which keeps what *)
(* set_server() is given, and an optional module whose library is missing.  *)
EXTENDS ModuleLifecycle, TLC
CONSTANTS NoName, t1, t2
use(n, k) == [op |-> "use", name |-> n, keep |-> k]
insmod(n) == [op |-> "insmod", name |-> n, keep |-> NoName]
MCNames == {"http", "server", "site", "smtp", "opt"}
MCFiles == <<"http", "server", "site", "smtp", "opt">>
MCDepends == [n \in MCNames |-> CASE n = "http" -> {"server"} [] n = "site" -> {"http"}
                                  [] n = "smtp" -> {"opt"} [] OTHER -> {}]
MCConf == [n \in MCNames \cup {Kernel} |->
  CASE n = "http" -> <<use("server", NoName), use("smtp", NoName), use("http", "http")>>
    [] n = "server" -> <<insmod("opt")>>
    [] n = "site" -> <<use("http", "site")>>
    [] n = "smtp" -> <<use("http", "smtp")>>
    [] n = Kernel -> <<use("site", "http")>>
    [] OTHER -> <<>>]
Symmetry == Permutations(Pool)
=============================================================================
