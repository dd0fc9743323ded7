----------------------------- MODULE MC_RpcServer -----------------------------
EXTENDS RpcServer

\* Service s is configured for both protocols; t twice for one, as with two
\* groups, so that Handle fails half way.
MC_Protocols == <<"jsonrpc", "dubbo">>
Conf(s, v, p) == [service |-> s, version |-> v, protocol |-> p]
MC_Conf == <<Conf("s", "1", "jsonrpc"), Conf("s", "2", "jsonrpc"), Conf("s", "1", "dubbo"),
             Conf("t", "1", "jsonrpc"), Conf("t", "1", "jsonrpc")>>
MC_Handlers == [service : {"s", "t"}, version : {"1"}, methods : {{"get", "list", "odd"}}]

Method(in, str, ctx) ==
  [exported |-> TRUE, numIn |-> in, streamer |-> str, argExported |-> TRUE,
   replyPtr |-> TRUE, replyExported |-> TRUE, out |-> <<"error">>, context |-> ctx]
MC_Sig == [get |-> Method(4, FALSE, TRUE), list |-> Method(3, TRUE, TRUE),
           odd |-> Method(2, FALSE, TRUE)]
MC_Packages == [service : {"s"}, method : {"get", "list"}, form : {"ok"}]
                 \cup [service : {"s"}, method : {"get"}, form : {"type", "header", "body"}]
=============================================================================
