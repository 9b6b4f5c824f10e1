--------------------------- MODULE MCIntentsUpload ---------------------------
(* Two edges, one of HTTP and one of network traffic, the latter reported  *)
(* with and without the fix; chunks of one intent.                         *)
EXTENDS IntentsUpload

CONSTANTS p1, p2, l1, getItems

Client == [name |-> "client", namespace |-> "shop"]
Orders == [name |-> "orders", namespace |-> "shop"]

Net == [source |-> Client, destination |-> Orders, type |-> "none"]
Http == [source |-> Client, destination |-> Orders, type |-> "HTTP"]

MCKeys == {Net, Http}
MCPorts == {p1, p2}
MCLabels == {l1}
MCResources == {getItems}

Report(key, time, resources, fix, resolution, ports) ==
  [key |-> key, timestamp |-> time, resources |-> resources, labels |-> {},
   fix |-> fix, resolution |-> resolution, ports |-> ports]

TCP == "handleInternalTrafficTCPResult"
Istio == "handleReportIstioConnectionResults"

MCReports ==
  {Report(Net, 2, {}, "fixed", TCP, {p1}),
   Report(Net, 1, {}, "unfixed", TCP, {p2}),
   Report(Http, 1, {getItems}, "none", Istio, {})}

MCQueries == {}
MCExcluded == {}
=============================================================================
