---------------------------- MODULE MCIntentsStore ----------------------------
(* Two intents of network traffic with the same client, one HTTP intent;  *)
(* reports of each way of counting, with and without the fix, out of order *)
(* in time.                                                                *)
EXTENDS IntentsStore

CONSTANTS p1, p2, l1, l2, getItems, postItems

Client == [name |-> "client", namespace |-> "shop"]
Orders == [name |-> "orders", namespace |-> "shop"]
System == [name |-> "dns", namespace |-> "kube-system"]

Net == [source |-> Client, destination |-> Orders, type |-> "none"]
Http == [source |-> Client, destination |-> Orders, type |-> "HTTP"]
ToSystem == [source |-> Client, destination |-> System, type |-> "none"]

MCKeys == {Net, Http, ToSystem}
MCPorts == {p1, p2}
MCLabels == {l1, l2}
MCResources == {getItems, postItems}

Report(key, time, resources, labels, fix, resolution, ports) ==
  [key |-> key, timestamp |-> time, resources |-> resources, labels |-> labels,
   fix |-> fix, resolution |-> resolution, ports |-> ports]

TCP == "handleInternalTrafficTCPResult"
DNS == "handleDNSCaptureResultsAsKubernetesPods"
Istio == "handleReportIstioConnectionResults"

MCReports ==
  {Report(Net, 2, {}, {l1}, "fixed", TCP, {p1}),
   Report(Net, 1, {}, {l2}, "unfixed", TCP, {p1, p2}),
   Report(Net, 3, {}, {l1}, "unfixed", DNS, {}),
   Report(Http, 2, {getItems}, {l1}, "none", Istio, {}),
   Report(Http, 1, {postItems}, {l2}, "none", Istio, {}),
   Report(ToSystem, 1, {}, {}, "fixed", TCP, {p2})}

\* One query with every filter.
MCQueries ==
  {[namespaces |-> {"shop"}, includeLabels |-> {l1}, excludeServiceWithLabels |-> {l2},
    includeAllLabels |-> FALSE, servers |-> {Orders}]}

\* One that names the labels to include.
MCLabelQueries ==
  {[namespaces |-> {}, includeLabels |-> {l2}, excludeServiceWithLabels |-> {},
    includeAllLabels |-> FALSE, servers |-> {}]}

MCExcluded == {"kube-system"}
=============================================================================
