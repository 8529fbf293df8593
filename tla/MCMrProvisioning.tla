-------------------------- MODULE MCMrProvisioning --------------------------
(***************************************************************************)
(* Small instances of MrProvisioning for TLC.  Locations: E1 and E2 are    *)
(* edges, C1 is central, D1 is the "aCentralLocation" that nobody          *)
(* registers.  Topics: T1, T2 and the bridge admin topic MM.               *)
(***************************************************************************)
EXTENDS MrProvisioning, TLC

ThreadSymmetry == Permutations(Threads)

(* Registered before the run: one or two edge locations and one central    *)
(* location, with their clusters.                                          *)
Base(S, v) == [l \in Locs |-> IF l \in S THEN v[l] ELSE Absent]
Layers     == [l \in Locs |-> IF l \in {"E1", "E2"} THEN "edge" ELSE "central"]
Valid      == [l \in Locs |-> "VALID"]
LayersEC   == Base({"E1", "E2", "C1"}, Layers)
LayersC1   == Base({"E1", "C1"}, Layers)
ClustersEC == Base({"E1", "E2", "C1"}, Valid)

(* Client specifications.                                                  *)
Cl(l, r, as) == [loc |-> l, role |-> r, acts |-> as]
EdgePub    == Cl("E1", "r1", {"pub"})
EdgePubSub == Cl("E1", "r1", {"pub", "sub"})
Edge2Pub   == Cl("E2", "r1", {"pub"})
CentralSub == Cl("C1", "r1", {"sub"})
FarSub     == Cl("D1", "r1", {"sub"})
Nowhere    == Cl(NoLoc, "r1", {"sub"})

(* Requests: the fields an operation does not use have a fixed value.      *)
Rq(op) == [op |-> op, fqtn |-> AdminTopic, repl |-> None, clients |-> <<>>, loc |-> DefaultCentral,
           layer |-> "edge", id |-> 0, status |-> "VALID"]
PostTopic(f, repl, cs) == [Rq("postTopic") EXCEPT !.fqtn = f, !.repl = repl, !.clients = cs]
DeleteTopic(f)   == [Rq("deleteTopic") EXCEPT !.fqtn = f]
PostClient(f, c) == [Rq("postClient") EXCEPT !.fqtn = f, !.clients = <<c>>]
PutClient(id, c, st) == [Rq("putClient") EXCEPT !.fqtn = "T1", !.id = id, !.clients = <<c>>, !.status = st]
DeleteClient(id) == [Rq("deleteClient") EXCEPT !.id = id]
Cluster(op, l, st) == [Rq(op) EXCEPT !.loc = l, !.status = st]
Location(op, l, lay) == [Rq(op) EXCEPT !.loc = l, !.layer = lay]

(* Topics and clients from two threads.                                    *)
ReqConcurrent == {PostTopic("T1", None, <<EdgePubSub, CentralSub>>),
                  PostTopic("T1", NotSpecified, <<EdgePub>>),
                  PostClient("T1", CentralSub), DeleteTopic("T1"), DeleteClient(1)}

(* The same without the deletions, and with more than one client.           *)
ReqPostings == {PostTopic("T1", None, <<EdgePub, CentralSub>>),
                PostTopic("T1", "e2c", <<EdgePub, CentralSub, Nowhere>>),
                PostTopic("T1", None, <<Nowhere, CentralSub>>),
                PostClient("T1", CentralSub)}

(* One thread, topics and clients of every kind.  T1's replication cases    *)
(* need several bridges; clients come and go afterwards.                    *)
Bridged == {"e2c", "e2cg", "c2e", "c2g", "g2c"}
ReqLifecycle ==
  {PostTopic("T1", r, <<EdgePub, CentralSub, Edge2Pub>>) : r \in Bridged}
  \cup {PostTopic("T2", r, <<Edge2Pub>>) : r \in {"e2cg", "g2c", "g2ce"}}
  \cup {PostTopic("T1", None, <<EdgePub, FarSub>>),
        PostTopic("T2", NotSpecified, <<EdgePub, CentralSub>>),
        PostTopic("T2", None, <<EdgePub, Nowhere>>),
        PostClient("T1", CentralSub), PostClient("T1", FarSub),
        PostClient("T2", EdgePub), PostClient("T2", CentralSub),
        DeleteTopic("T1"), DeleteTopic("T2"), DeleteClient(1), DeleteClient(2)}

(* Clusters and locations come and go around the bridge admin topic.        *)
ReqClusters == {Cluster("postCluster", "C1", "VALID"), Cluster("putCluster", "C1", "VALID"),
                Cluster("deleteCluster", "C1", "VALID"),
                Location("postLocation", "C1", "central"),
                Location("deleteLocation", "C1", "central")}

(* Every operation but createMmaTopic, where locations and clusters may be  *)
(* missing.                                                                 *)
ReqAll == ReqClusters \cup
  {PostTopic("T1", "e2c", <<CentralSub, EdgePub>>), PostTopic("T1", "g2ce", <<EdgePub>>),
   PostTopic("T1", NotSpecified, <<EdgePub>>),
   PostClient("T1", CentralSub), PutClient(1, EdgePub, "VALID"),
   DeleteClient(1), DeleteTopic("T1"),
   Location("putLocation", "C1", "edge"), Cluster("deleteCluster", "E1", "VALID")}

(* Delete level 2; createMmaTopic and a cluster put with a status other     *)
(* than VALID bring the bridge admin topic, whose clients are not removed.  *)
ReqRevoke == {PostTopic("T1", None, <<EdgePubSub, CentralSub>>),
              PostClient("T1", Cl("E1", "mm", {"pub", "sub"})),
              DeleteTopic("T1"), DeleteClient(1), DeleteClient(2),
              Rq("createMmaTopic"), Cluster("putCluster", "C1", "NEW")}

(* Two topics that share a bridge.                                          *)
ReqE2c == {PostTopic(f, "e2c", <<EdgePub, CentralSub>>) : f \in {"T1", "T2"}}
=============================================================================
