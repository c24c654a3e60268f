---------------------------- MODULE MCEc2Inventory ----------------------------
(* Instances of Ec2Inventory: the ini file of the repository, one that     *)
(* turns everything on, three with filters, and one with a role that may   *)
(* not assume itself.                                                      *)
EXTENDS Ec2Inventory

CONSTANTS p1, p2

SafeNames == "a.b" :> "a_b" @@ "db.x" :> "db_x" @@ "web,db" :> "web_db"
Lowered == "A_b" :> "a_b"
CsvValues == "web,db" :> {"web", "db"}
Parts == {<<"prod", "preprod">>}
TheRegions == <<"east", "west", "gov">>

Resource(kind, id, attrs, tags, labels) ==
    [kind |-> kind, id |-> id, region |-> "east", zone |-> "east1", vpc |-> FALSE, state |-> "available",
     attrs |-> attrs, tags |-> tags, labels |-> labels, nodes |-> <<>>]

Instance(id, address, tags) ==
    [Resource("instance", id, "public_dns_name" :> address, tags,
              {<<"instance_type", "small">>, <<"security_group", "default">>}) EXCEPT !.state = "running"]

Name(name) == "Name" :> name

i1 == Instance("i1", "ec2.one", Name("a.b") @@ "role" :> "web,db")
i1Moved == [i1 EXCEPT !.tags = Name("a.b") @@ "role" :> "db"]
i1Named == [i1 EXCEPT !.tags = Name("c")]
i2 == [Instance("i2", "ec2.two", Name("A_b")) EXCEPT !.region = "west", !.zone = "west1"]
i3 == [Instance("i3", "ec2.three", "env" :> "prod") EXCEPT !.vpc = TRUE]
i4 == [i1 EXCEPT !.id = "i4", !.region = "west", !.zone = "west1"]

Database(id, tags) ==
    Resource("database", id, "endpoint" :> "db.x", tags, {<<"rds_engine", "pg">>})
d1 == Database("d1", Name("a_b"))
d2 == Database("rds", "env" :> "prod")
d3 == Database("d3", <<>>)

Node(id) == [id |-> id, state |-> "available", dest |-> id]
c1 == [Resource("cluster", "c1", "configuration" :> "c1.cfg", <<>>,
                {<<"elasticache_engine", "memcached">>, <<"elasticache_cluster", "c1">>})
          EXCEPT !.nodes = <<Node("c1_1"), Node("c1_2")>>]
c2 == [Resource("cluster", "c2", <<>>, <<>>,
                {<<"elasticache_engine", "redis">>, <<"elasticache_replication_group", "r1">>})
          EXCEPT !.nodes = <<Node("c2_1")>>]
r1 == [Resource("replication", "r1", "endpoint" :> "r1.primary", <<>>,
                {<<"elasticache_engine", "redis">>}) EXCEPT !.zone = None]
k1 == [Resource("dbCluster", "k1", <<>>, "env" :> "prod", {}) EXCEPT !.nodes = <<Node("d1")>>]

Dns == {<<"zone", "ec2.one", "a.b">>, <<"zone", "ec2.three", "n.org">>, <<"test", "ec2.two", "n.org">>}
ManagedServices == <<c1, c2, r1, k1>>

\* With an instance under another name, a second page of databases and no DNS;
\* as it is; with the instance listed by an earlier filter set; with it replaced
\* by one elsewhere and a database gone.
AllClouds ==
    <<[resources |-> <<i1Named, i2, i3, d1, d2, d3>>, dns |-> {}],
      [resources |-> <<i1, i2, i3, d1, d2>> \o ManagedServices, dns |-> Dns],
      [resources |-> <<i1Moved, i2, i3, d1, d2>> \o ManagedServices, dns |-> Dns],
      [resources |-> <<i4, i3, d2>> \o ManagedServices, dns |-> Dns]>>

ASSUME CloudsWithinBounds == IdentifiersApart /\ OneThingChanges

GroupBy ==
    {"instance_id", "region", "availability_zone", "ami_id", "instance_type", "platform", "key_pair",
     "vpc_id", "security_group", "tag_keys", "tag_none", "route53_names", "rds_engine",
     "rds_parameter_group", "elasticache_cluster", "elasticache_engine",
     "elasticache_parameter_group", "elasticache_replication_group"}

Hosts == {"a_b", "c", "ec2.one", "ec2.two", "ec2.three", "n.org", "a.b"}

Repository ==
    [regions |-> <<"all">>, excluded |-> {"gov"}, envRegion |-> None, groupBy |-> GroupBy,
     nested |-> FALSE, all |-> {}, states |-> {"running"}, hostname |-> <<"attr", None>>,
     destination |-> "public_dns_name", vpcDestination |-> "ip_address",
     route53 |-> FALSE, excludedZones |-> {}, domain |-> {}, shown |-> Hosts,
     rds |-> FALSE, elasticache |-> FALSE, dbClusters |-> FALSE,
     stack |-> FALSE, filterSets |-> <<>>, expandCsv |-> FALSE,
     iamRole |-> FALSE, trustsItself |-> FALSE]

Everything ==
    [Repository EXCEPT !.regions = <<"auto">>, !.envRegion = "east", !.nested = TRUE,
                       !.all = {"instance", "database"}, !.hostname = <<"tag", "Name">>,
                       !.vpcDestination = "public_dns_name",
                       !.route53 = TRUE, !.excludedZones = {"test"}, !.domain = {"n.org"},
                       !.rds = TRUE, !.elasticache = TRUE, !.dbClusters = TRUE,
                       !.filterSets = << <<<<<<"tag", "Name">>, "a.b">>>>, <<<<<<"tag", "Name">>, "a_b">>>>,
                                         <<<<<<"tag", "Name">>, "c">>>>,
                                         <<<<<<"tag", "env">>, "preprod">>, <<"bad">>>>,
                                         <<<<<<"tag", "env">>, "prod">>>> >>,
                       !.expandCsv = TRUE, !.iamRole = TRUE, !.trustsItself = TRUE]

\* Two listings, of one tag, in another order than the tag changes.
Tagged ==
    [Repository EXCEPT !.regions = <<"east">>, !.hostname = <<"tag", "Name">>,
                       !.filterSets = << <<<<<<"tag", "role">>, "db">>>>, <<<<<<"tag", "role">>, "web,db">>>> >>]

\* All filters at once, of which the last one of a key counts for EC2.
Stacked ==
    [Repository EXCEPT !.regions = <<"east">>, !.hostname = <<"tag", "Name">>, !.rds = TRUE, !.stack = TRUE,
                       !.filterSets = << <<<<<<"tag", "Name">>, "c">>>>, <<<<<<"tag", "Name">>, "a.b">>>>,
                                         <<<<<<"label", "instance_type">>, "small">>>> >>]

\* "&" in a filter and stack_filters do not go together.
Rejected == [Stacked EXCEPT !.filterSets = <<SubSeq(@[1] \o @[2], 1, 2)>>]

\* The role is not allowed to assume itself.
Assumed == [Repository EXCEPT !.iamRole = TRUE]

\* Two processes get in each other's way with one region; the longer runs
\* follow each other.
Together(s) ==
    [settings |-> [s EXCEPT !.regions = <<"east">>, !.groupBy = {"region"}], mishaps |-> 1,
     runs |-> p1 :> 2 @@ p2 :> 1]
InTurn(s) == [settings |-> s, mishaps |-> 2, runs |-> p1 :> 2 @@ p2 :> 0]

Scenarios ==
    {Together(Repository), InTurn(Repository), InTurn(Everything), InTurn(Tagged),
     InTurn(Stacked), InTurn(Rejected), InTurn(Assumed)}
=============================================================================
