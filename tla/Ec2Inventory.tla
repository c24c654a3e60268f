------------------------------ MODULE Ec2Inventory ------------------------------
(* The runs of ops/ansible/ec2.py, Ansible's dynamic inventory: a process  *)
(* asks the cloud for its resources, region by region, groups them (module *)
(* InventoryGroups), writes two cache files and prints the inventory or    *)
(* what it knows of one host.  Several processes may run at a time and     *)
(* share the files; the cloud changes between two calls, a call may fail,  *)
(* a process may be killed.                                                *)
(*                                                                         *)
(* A step ends where something else can get in: at a call to the cloud     *)
(* (the pages and tags of databases are one), at the opening and at the    *)
(* filling of a file.                                                      *)
EXTENDS InventoryGroups, InventoryFiles

CONSTANTS
    Process,      \* processes that may run at a time
    Scenario,     \* what to explore: an ec2.ini, and bounds on the runs of each
                  \* process and on the mishaps (changes of the cloud, crashes)
    Clouds,       \* the states the cloud goes through, in order: resources (in
                  \* the order of its listings) and Route53 records
    Wanted,       \* arguments of --host
    PageSize      \* instances in one answer of RDS

IsSequence(q) == q \in Seq(ToSet(q))

ResourceFields ==
    {"kind", "id", "region", "zone", "vpc", "state", "attrs", "tags", "labels", "nodes"}

ResourcesOf(kind, region, cloud) ==
    {r \in ToSet(cloud.resources) : r.kind = kind /\ r.region = region}

\* The instance "id" of the region, as it is in that state of the cloud, if it is.
InstanceIn(cloud, region, id) == {r \in ResourcesOf("instance", region, cloud) : r.id = id}

(* Of one kind and region, AWS gives an identifier to one resource only.   *)
(* An instance that is gone does not come back, and it keeps its VPC.      *)
ASSUME InventoryAssumption ==
    /\ None \notin Wanted
    /\ IsSequence(AwsRegions)
    /\ \A s \in Scenario : IsSequence(s.settings.regions) /\ IsSequence(s.settings.filterSets)
    /\ Len(Clouds) > 0 /\ PageSize \in Nat \ {0}
    /\ IsSequence(Clouds) /\ \A cloud \in ToSet(Clouds) :
          /\ IsSequence(cloud.resources)
          /\ \A r \in ToSet(cloud.resources) : DOMAIN r = ResourceFields /\ IsSequence(r.nodes)
          /\ \A q, r \in ToSet(cloud.resources) :
                q.kind = r.kind /\ q.region = r.region /\ q.id = r.id => q = r
    /\ \A i \in DOMAIN Clouds : \A q \in ToSet(Clouds[i].resources) : q.kind = "instance" =>
          \A j \in DOMAIN Clouds : \A r \in InstanceIn(Clouds[j], q.region, q.id) :
             /\ q.vpc = r.vpc
             /\ \A k \in i..j : InstanceIn(Clouds[k], q.region, q.id) # {}

VARIABLES
    settings,   \* what ec2.ini says
    world,      \* the state the cloud is in
    cache,      \* the inventory file
    index,      \* the index file
    fresh,      \* cache_max_age has not passed since the cache file's mtime
    phase,      \* where a process is
    work,       \* its variables
    output,     \* what it printed last
    accident,   \* see InventoryCache
    since,      \* what was there to be found during all of a process's run
    named,      \* the pairs of host and identifier there have been
    left        \* what is left of the bounds

files == <<cache, index, fresh, accident>>
vars == <<settings, world, files, phase, work, output, since, named, left>>

Writing == {"cache", "between", "index"}
Phase == {"idle", "calling", "answering", "fetching"} \cup Writing

Resources(kind, region) ==
    LET all == Clouds[world].resources
    IN  Chosen(all, ResourcesOf(kind, region, Clouds[world]))

\* The zones that are excluded do not count.
Records(s, cloud) == {<<x[2], x[3]>> : x \in {y \in cloud.dns : y[1] \notin s.excludedZones}}

\* The instances that can be found under one name only, and that name; by
\* which listing, and with the addresses and the names for them, that a run
\* reads in separate calls.
Findable(s, cloud) ==
    LET hosts(r) == HostnamesOf(s, Records(s, cloud), r)
        aliases(r) == IF s.route53 THEN Route53Names(Records(s, cloud), r) \cap s.domain ELSE {}
        found == {r \in ToSet(cloud.resources) :
                    /\ r.kind = "instance" /\ Gathered(s, r) /\ r.region \in ToSet(Regions(s))
                    /\ \E h \in s.shown : hosts(r) = {h}}
        listedBy(r) == {i \in DOMAIN Listings(s) : ServerMatches(Listings(s)[i], r)}
    IN  UNION {{[host |-> CHOOSE h \in hosts(r) : TRUE, id |-> r.id, region |-> r.region,
                 by |-> i, attrs |-> r.attrs, aliases |-> aliases(r)] : i \in listedBy(r)} : r \in found}

Names(s, cloud) ==
    UNION {{<<h, r.id>> : h \in HostnamesOf(s, Records(s, cloud), r)} :
              r \in {x \in ToSet(cloud.resources) : Gathered(s, x)}}

NoOutput == [kind |-> "none"]

\* "asked" counts the listings of the region there are answers to.
Idle == [wanted |-> None, again |-> FALSE, todo |-> <<>>, asked |-> 0, heard |-> <<>>,
         records |-> {}, credentials |-> "own", book |-> EmptyBook]

Init ==
    /\ \E s \in Scenario : settings = s.settings /\ left = [runs |-> s.runs, mishaps |-> s.mishaps]
    /\ world = 1
    /\ cache = Absent /\ index = Absent /\ fresh = FALSE /\ accident = FALSE
    /\ phase = [p \in Process |-> "idle"]
    /\ work = [p \in Process |-> Idle]
    /\ output = [p \in Process |-> NoOutput]
    /\ since = [p \in Process |-> {}]
    /\ named = Names(settings, Clouds[1])

-----------------------------------------------------------------------------
At(region, calls) == [i \in DOMAIN calls |-> [call |-> calls[i], region |-> region]]

(* The calls of do_api_calls_update_cache, in order.                       *)
CallsOf(s, region) ==
    At(region, IF s.rds THEN <<"instances", "tags", "arns", "databases">>
               ELSE <<"instances", "tags">>)
    \o At(region, IF s.elasticache THEN <<"clusters", "replications">> ELSE <<>>)
    \o At(region, IF s.dbClusters THEN <<"dbClusters">> ELSE <<>>)

Plan(s) ==
    At(None, IF s.route53 THEN <<"records">> ELSE <<>>)
    \o FlattenSeq([i \in DOMAIN Regions(s) |-> CallsOf(s, Regions(s)[i])])

\* isfile(cache), its age, isfile(index): what is in them is not looked at.
IsCacheValid == cache # Absent /\ fresh /\ index # Absent

\* sys.exit, a traceback, or the end of the script.
End(p, printed) ==
    /\ phase' = [phase EXCEPT ![p] = "idle"]
    /\ work' = [work EXCEPT ![p] = Idle]
    /\ output' = [output EXCEPT ![p] = printed]
    /\ since' = [since EXCEPT ![p] = IF printed.kind = "nothing" THEN @ ELSE {}]

Start(p) ==
    /\ phase[p] = "idle" /\ left.runs[p] > 0
    /\ left' = [left EXCEPT !.runs[p] = @ - 1]
    /\ \E host \in Wanted \cup {None}, refresh \in BOOLEAN :
          IF SettingsRejected(settings) THEN End(p, NoOutput)
          ELSE /\ since' = [since EXCEPT ![p] = Findable(settings, Clouds[world])]
               /\ output' = [output EXCEPT ![p] = NoOutput]
               /\ LET call == refresh \/ ~IsCacheValid
                  IN  /\ phase' = [phase EXCEPT ![p] = IF call THEN "calling" ELSE "answering"]
                      /\ work' = [work EXCEPT ![p].wanted = host,
                                              ![p].todo = IF call THEN Plan(settings) ELSE <<>>]
    /\ UNCHANGED <<settings, world, files, named>>

-----------------------------------------------------------------------------
(* Connections.  connect_args is self.credentials, not a copy: the role's  *)
(* keys replace the user's for every later call, so that the next          *)
(* connection has the role assume itself.                                  *)
CanConnect(p, region) ==
    region # None /\ (settings.iamRole => (work[p].credentials = "own" \/ settings.trustsItself))

Connected(p) == IF settings.iamRole THEN "role" ELSE work[p].credentials

Calls(p, call) == phase[p] = "calling" /\ work[p].todo # <<>> /\ Head(work[p].todo).call = call

CallRegion(p) == Head(work[p].todo).region

\* The answer is used: what it changes of the process, and the next call,
\* another listing of the region or the next one to do.
Answered(p, w) ==
    /\ work' = [work EXCEPT ![p] = [w EXCEPT !.todo = IF w.asked = 0 THEN Tail(@) ELSE @]]
    /\ UNCHANGED <<settings, world, files, phase, output, since, named, left>>

OtherwiseFails(p) == End(p, NoOutput) /\ UNCHANGED <<settings, world, files, named, left>>

\* Slip: the connection's arguments are a copy.
OnConnectionOfItsOwn(p, w) ==
    IF CanConnect(p, CallRegion(p)) THEN Answered(p, w) ELSE OtherwiseFails(p)

\* A call on a connection made for it.
OnConnection(p, w) ==
    IF CanConnect(p, CallRegion(p)) THEN Answered(p, [w EXCEPT !.credentials = Connected(p)])
    ELSE OtherwiseFails(p)

\* Route53Connection() has the default credentials; of the records, nothing is
\* entered in a book but names.
GetRoute53Records(p) ==
    /\ Calls(p, "records")
    /\ Answered(p, [work[p] EXCEPT !.records = Records(settings, Clouds[world])])

\* What is read of a resource, and (no state of the program) whether the tags
\* it got are read in order, its own, and the credentials of its listing.
ReadAs(r, own, orderly, credentials) ==
    With(r, "read", [own |-> own, orderly |-> orderly, credentials |-> credentials])

\* The listings of a region share one connection.
ListInstances(p) ==
    /\ Calls(p, "instances")
    /\ LET w == work[p]
           answer == ListedBy(Listings(settings)[w.asked + 1], Resources("instance", CallRegion(p)))
           heard == [w EXCEPT !.heard = IF w.asked = 0 THEN answer ELSE @ \o answer,
                              !.asked = IF @ + 1 = Len(Listings(settings)) THEN 0 ELSE @ + 1]
       IN  IF w.asked = 0 THEN OnConnection(p, heard) ELSE Answered(p, heard)

\* get_all_tags, a second call; an instance may have changed or gone.
TagsNow(kind, region, id) ==
    LET now == {r \in ToSet(Resources(kind, region)) : r.id = id}
    IN  IF now = {} THEN <<>> ELSE (CHOOSE r \in now : TRUE).tags

AddInstances(p) ==
    /\ Calls(p, "tags")
    /\ LET tags(r) == TagsNow("instance", CallRegion(p), r.id)
           tagged(r) == ReadAs([r EXCEPT !.tags = tags(r)], tags(r), TRUE, work[p].credentials)
           found == [i \in DOMAIN work[p].heard |-> tagged(work[p].heard[i])]
       IN  \E book \in AddedAll(settings, work[p].records, work[p].book, found) :
               Answered(p, [work[p] EXCEPT !.book = book, !.heard = <<>>])

\* describe_db_instances of another library: its first page, for the ARNs.
DescribeDatabases(p) ==
    /\ Calls(p, "arns")
    /\ LET databases == Resources("database", CallRegion(p))
           page == SubSeq(databases, 1, IF Len(databases) < PageSize THEN Len(databases) ELSE PageSize)
       IN  Answered(p, [work[p] EXCEPT !.heard =
               [i \in DOMAIN page |-> [id |-> page[i].id, credentials |-> work[p].credentials]]])

\* Slip: off by one.
ArnIndexOff(i) == (i % PageSize) + 1

\* The index of an instance in its page of the second listing.
ArnIndex(i) == ((i - 1) % PageSize) + 1

\* get_all_dbinstances, page by page.  Instance and ARN are joined by their
\* index; the tags are those of the ARN.
AddDatabases(p) ==
    /\ Calls(p, "databases")
    /\ LET databases == Resources("database", CallRegion(p))
           arns == work[p].heard
           tagged(i) == LET arn == arns[ArnIndex(i)]
                            r == databases[i]
                        IN  ReadAs([r EXCEPT !.tags = TagsNow("database", CallRegion(p), arn.id)], r.tags,
                                   /\ Len(databases) <= PageSize
                                   /\ [j \in DOMAIN arns |-> arns[j].id] = [j \in DOMAIN databases |-> databases[j].id],
                                   arn.credentials)
           found == [i \in DOMAIN databases |-> tagged(i)]
           matching == Chosen(found, {r \in ToSet(found) : TagsMatchFilters(settings, r.tags)})
       IN  IF \A i \in DOMAIN databases :
                  /\ ArnIndex(i) \in DOMAIN arns
                  /\ \E r \in ToSet(Resources("database", CallRegion(p))) : r.id = arns[ArnIndex(i)].id
           THEN \E book \in AddedAll(settings, work[p].records, work[p].book, matching) :
                    OnConnection(p, [work[p] EXCEPT !.book = book, !.heard = <<>>])
           ELSE OtherwiseFails(p)

AddElasticache(p, call, kind) ==
    /\ Calls(p, call)
    /\ LET listed == Resources(kind, CallRegion(p))
           found == [i \in DOMAIN listed |-> ReadAs(listed[i], listed[i].tags, TRUE, Connected(p))]
       IN  \E book \in AddedAll(settings, {}, work[p].book,
                                IF kind = "cluster" THEN WithNodes(settings, found) ELSE found) :
               OnConnection(p, [work[p] EXCEPT !.book = book])

\* The clusters of the last region replace the others'.
IncludeDbClusters(p) ==
    /\ Calls(p, "dbClusters")
    /\ LET clusters == {r \in ToSet(Resources("dbCluster", CallRegion(p))) : r.nodes # <<>>}
       IN  \E raised \in SUBSET {r.id : r \in clusters} :
               Answered(p, [work[p] EXCEPT !.book.dbClusters =
                   {r.id : r \in {x \in clusters : DbClusterMatches(settings, x, raised)}}])

\* The API, or the library, reports an error.
CallFails(p) ==
    /\ phase[p] = "fetching" \/ (phase[p] = "calling" /\ work[p].todo # <<>>)
    /\ OtherwiseFails(p)
-----------------------------------------------------------------------------
(* The cache files.                                                        *)
OpenCache(p) ==
    /\ phase[p] = "calling" /\ work[p].todo = <<>>
    /\ phase' = [phase EXCEPT ![p] = "cache"]
    /\ cache' = Begun /\ fresh' = TRUE
    /\ accident' = \E q \in Process \ {p} : phase[q] \in Writing
    /\ UNCHANGED <<settings, world, index, work, output, since, named, left>>

\* Slip: the index file is not written.
FillCacheOnly(p) ==
    /\ phase[p] = "cache"
    /\ phase' = [phase EXCEPT ![p] = "answering"]
    /\ cache' \in Filled(cache, work[p].book) /\ fresh' = TRUE
    /\ UNCHANGED <<settings, world, index, accident, work, output, since, named, left>>

FillCache(p) ==
    /\ phase[p] = "cache"
    /\ phase' = [phase EXCEPT ![p] = "between"]
    /\ cache' \in Filled(cache, work[p].book) /\ fresh' = TRUE
    /\ UNCHANGED <<settings, world, index, accident, work, output, since, named, left>>

\* Slip: an index file that is there is kept.
OpenIndexOnce(p) ==
    /\ phase[p] = "between"
    /\ phase' = [phase EXCEPT ![p] = IF index = Absent THEN "index" ELSE "answering"]
    /\ index' = IF index = Absent THEN Begun ELSE index
    /\ UNCHANGED <<settings, world, cache, fresh, accident, work, output, since, named, left>>

OpenIndex(p) ==
    /\ phase[p] = "between"
    /\ phase' = [phase EXCEPT ![p] = "index"]
    /\ index' = Begun
    /\ UNCHANGED <<settings, world, cache, fresh, accident, work, output, since, named, left>>

FillIndex(p) ==
    /\ phase[p] = "index"
    /\ phase' = [phase EXCEPT ![p] = "answering"]
    /\ index' \in Filled(index, work[p].book)
    /\ UNCHANGED <<settings, world, cache, fresh, accident, work, output, since, named, left>>

-----------------------------------------------------------------------------
(* The answers.                                                            *)
\* self.inventory is what _empty_inventory returns.
IsEmptyInventory(book) == book.groups = <<>> /\ book.hostvars = <<>> /\ book.dbClusters = None

\* The text of the cache file is printed as it is.
PrintInventory(p) ==
    /\ phase[p] = "answering" /\ work[p].wanted = None
    /\ End(p, [kind |-> "inventory",
               text |-> IF IsEmptyInventory(work[p].book) THEN cache ELSE work[p].book])
    /\ UNCHANGED <<settings, world, files, named, left>>

\* Slip: the index of the file is believed.
LookUpHostInFile(p) ==
    /\ phase[p] = "answering" /\ work[p].wanted # None
    /\ LET known == IF work[p].book.index = <<>> /\ Readable(index)
                    THEN index.index ELSE work[p].book.index
       IN  IF work[p].wanted \notin DOMAIN known
           THEN End(p, [kind |-> "nothing", host |-> work[p].wanted])
           ELSE /\ phase' = [phase EXCEPT ![p] = "fetching"]
                /\ work' = [work EXCEPT ![p].book.index = known]
                /\ UNCHANGED <<output, since>>
    /\ UNCHANGED <<settings, world, files, named, left>>

\* Slip: it is refreshed until the host is there.
LookUpHostForEver(p) ==
    /\ phase[p] = "answering" /\ work[p].wanted # None
    /\ IF work[p].wanted \in DOMAIN work[p].book.index
       THEN phase' = [phase EXCEPT ![p] = "fetching"] /\ UNCHANGED work
       ELSE /\ phase' = [phase EXCEPT ![p] = "calling"]
            /\ work' = [work EXCEPT ![p].todo = Plan(settings)]
    /\ UNCHANGED <<settings, world, files, output, since, named, left>>

\* get_host_info: an empty index is read from the file; a host that is not in
\* it is looked for by one more refresh, on top of what there is.
LookUpHost(p) ==
    /\ phase[p] = "answering" /\ work[p].wanted # None
    /\ LET w == work[p]
           load == w.book.index = <<>> /\ ~w.again
           known == IF load THEN index.index ELSE w.book.index
           book == [w.book EXCEPT !.index = known]
       IN  IF load /\ ~Readable(index) THEN End(p, NoOutput)
           ELSE IF w.wanted \notin DOMAIN known /\ w.again
                THEN End(p, [kind |-> "nothing", host |-> w.wanted])
           ELSE /\ IF w.wanted \in DOMAIN known
                   THEN /\ phase' = [phase EXCEPT ![p] = "fetching"]
                        /\ work' = [work EXCEPT ![p].book = book]
                   ELSE /\ phase' = [phase EXCEPT ![p] = "calling"]
                        /\ work' = [work EXCEPT ![p] = [w EXCEPT !.book = book, !.again = TRUE,
                                                                !.todo = Plan(settings)]]
                /\ UNCHANGED <<output, since>>
    /\ UNCHANGED <<settings, world, files, named, left>>

\* Slip: all instances of the region are asked for.
FetchAnyInstance(p) ==
    /\ phase[p] = "fetching"
    /\ LET found == Resources("instance", work[p].book.index[work[p].wanted][1])
       IN  IF found = <<>> THEN End(p, NoOutput)
           ELSE \E i \in DOMAIN found :
                   End(p, [kind |-> "host", host |-> work[p].wanted, info |-> InfoOf(found[i])])
    /\ UNCHANGED <<settings, world, files, named, left>>

\* get_instance asks EC2 for the identifier, whatever it is of.
FetchInstance(p) ==
    /\ phase[p] = "fetching"
    /\ LET entry == work[p].book.index[work[p].wanted]
           found == InstanceIn(Clouds[world], entry[1], entry[2])
       IN  IF CanConnect(p, entry[1]) /\ found # {}
           THEN End(p, [kind |-> "host", host |-> work[p].wanted,
                        info |-> InfoOf(CHOOSE r \in found : TRUE)])
           ELSE End(p, NoOutput)
    /\ UNCHANGED <<settings, world, files, named, left>>

Step(p) ==
    \/ GetRoute53Records(p)
    \/ ListInstances(p) \/ AddInstances(p)
    \/ DescribeDatabases(p) \/ AddDatabases(p)
    \/ AddElasticache(p, "clusters", "cluster")
    \/ AddElasticache(p, "replications", "replication")
    \/ IncludeDbClusters(p)
    \/ CallFails(p)
    \/ OpenCache(p) \/ FillCache(p) \/ OpenIndex(p) \/ FillIndex(p)
    \/ PrintInventory(p) \/ LookUpHost(p) \/ FetchInstance(p)

-----------------------------------------------------------------------------
(* What happens to the runs.                                               *)
Crash(p) ==
    /\ phase[p] # "idle" /\ left.mishaps > 0
    /\ left' = [left EXCEPT !.mishaps = @ - 1]
    /\ accident' = (accident \/ phase[p] \in Writing)
    /\ End(p, NoOutput)
    /\ UNCHANGED <<settings, world, cache, index, fresh, named>>

CloudChanges ==
    /\ left.mishaps > 0
    /\ left' = [left EXCEPT !.mishaps = @ - 1]
    /\ world' \in (world + 1)..Len(Clouds)
    /\ named' = named \cup Names(settings, Clouds[world'])
    /\ since' = [p \in Process |-> IF phase[p] = "idle" THEN since[p]
                                   ELSE since[p] \cap Findable(settings, Clouds[world'])]
    /\ UNCHANGED <<settings, files, phase, work, output>>

CacheExpires ==
    /\ fresh /\ fresh' = FALSE
    /\ UNCHANGED <<settings, world, cache, index, accident, phase, work, output, since, named, left>>

Next ==
    \/ \E p \in Process : Start(p) \/ Step(p) \/ Crash(p)
    \/ CloudChanges
    \/ CacheExpires

Spec == Init /\ [][Next]_vars

(* Calls return or raise, and the system runs every process: a process     *)
(* that is not idle goes on.  This is WF_vars(Step(p)) with its parts       *)
(* spelled out: Step(p) is enabled exactly when p is not idle, and no other *)
(* action but Start and Crash moves p.                                     *)
Moves(p) == phase'[p] # phase[p] \/ work'[p] # work[p]
FairSpec == Spec /\ \A p \in Process : []<>(phase[p] = "idle") \/ []<><<Moves(p)>>_vars

-----------------------------------------------------------------------------
IsBook(b) == b.seen \subseteq [resource : {e.resource : e \in b.seen},
                               host : DOMAIN b.index, records : {e.records : e \in b.seen}]

TypeOK ==
    /\ settings \in {s.settings : s \in Scenario} /\ world \in DOMAIN Clouds
    /\ fresh \in BOOLEAN /\ accident \in BOOLEAN
    /\ phase \in [Process -> Phase]
    /\ \A p \in Process :
          /\ work[p].wanted \in Wanted \cup {None}
          /\ work[p].credentials \in {"own", "role"}
          /\ IsBook(work[p].book)
          /\ output[p].kind \in {"none", "nothing", "host", "inventory"}
    /\ Readable(cache) => IsBook(cache)
    /\ Readable(index) => IsBook(index)

\* The books in memory, in the files and in what was printed.
Books ==
    {work[p].book : p \in Process} \cup {file \in {cache, index} : Readable(file)}
    \cup {output[p].text : p \in {q \in Process : output[q].kind = "inventory" /\ Readable(output[q].text)}}

(* A host in a group can be used: it has variables and is in the index,    *)
(* and both are of one resource that bore that name, also when names       *)
(* collide and when a second refresh is put on top of an old index.        *)
HostsIndexed ==
    \A b \in Books : \A g \in DOMAIN b.groups : \A h \in b.groups[g].hosts :
        ~ListsIdentifiers(g) =>
            /\ h \in DOMAIN b.index /\ h \in DOMAIN b.hostvars
            /\ \E e \in b.seen : /\ e.host = h
                                /\ b.index[h] = <<e.resource.region, e.resource.id>>
                                /\ VarsOf(settings, e.resource) \in b.hostvars[h]

(* A group lists the hosts of the resources that belong to it and no       *)
(* others, unless it has the name of some resource's identifier.           *)
GroupsMeanResources ==
    \A b \in Books :
        LET pushed == UNION {Pushes(settings, e.records, e.resource, e.host) : e \in b.seen}
            identifiers == {<<e.resource.id>> : e \in b.seen}
        IN  \A g \in DOMAIN b.groups :
                \/ "instance_id" \in settings.groupBy /\ g \in identifiers
                \/ b.groups[g].hosts = {x.element : x \in {y \in pushed : y.group = g}}

(* With nested groups, a child is a group of the inventory, except for     *)
(* those of ElastiCache that are nested without their prefix.              *)
ChildrenAreGroups ==
    \A b \in Books : \A g \in DOMAIN b.groups :
        \/ g \in {All("elasticache_engine"), All("elasticache_parameter_group"),
                  All("elasticache_replication_group")}
        \/ b.groups[g].children \subseteq DOMAIN b.groups

(* Conditions on the cloud, for AnswerIsNamed.  What names an instance is   *)
(* read in three calls: the DNS records, the listing, the tags.            *)

(* Nothing else has the identifier of an instance.                         *)
IdentifiersApart ==
    \A c, d \in ToSet(Clouds) : \A q \in ToSet(c.resources), r \in ToSet(d.resources) :
        q.kind = "instance" /\ r.kind # "instance" /\ q.region = r.region
            => q.id # r.id /\ \A node \in ToSet(r.nodes) : q.id # node.id

Editions(q) == UNION {InstanceIn(c, q.region, q.id) : c \in ToSet(Clouds)}

(* Only the tags of an instance change, or only what the listing says of   *)
(* it, or only the records of its addresses, which has been there before.  *)
ChangesInOneWay(s, q) ==
    \/ /\ s.route53 =>
             \A r \in Editions(q), c, d \in ToSet(Clouds) :
                Route53Names(Records(s, c), r) \cap s.domain = Route53Names(Records(s, d), r) \cap s.domain
       /\ \/ \A r \in Editions(q) : [r EXCEPT !.tags = q.tags] = q
          \/ \A r \in Editions(q) : r.tags = q.tags
    \/ Editions(q) = {q} /\ q \in ToSet(Clouds[1].resources)

OneThingChanges ==
    \A x \in Scenario, c \in ToSet(Clouds) : \A q \in ToSet(c.resources) :
        q.kind = "instance" => ChangesInOneWay(x.settings, q)

(* --host prints {} for a host only if no instance could be found under    *)
(* that name, by one and the same listing of its region, during all of the *)
(* run, whatever the cache said.                                           *)
NoFalseAbsence ==
    \A p \in Process :
        output[p].kind = "nothing" => output[p].host \notin {x.host : x \in since[p]}

(* What --host prints is of an instance that has had the name asked for,   *)
(* however old the index is.                                               *)
AnswerIsNamed ==
    \A p \in Process :
        output[p].kind = "host" => <<output[p].host, output[p].info.id>> \in named

(* The resources entered in a book were all listed with the same           *)
(* credentials, although half of the calls for databases are made without  *)
(* a connection.                                                           *)
OneAccount ==
    \A b \in Books : \A e \in b.seen :
        e.resource.read.credentials = IF settings.iamRole THEN "role" ELSE "own"

(* A database has its own tags, when there is one page of them and nothing *)
(* came or went between the two listings.                                  *)
OwnTags ==
    \A b \in Books : \A e \in b.seen :
        e.resource.read.orderly => e.resource.tags = e.resource.read.own

(* Where a process is with the two files, and what it writes into them.     *)
WritingOf == [p \in Process |-> IF phase[p] \in Writing THEN phase[p] ELSE "no"]
BookOf == [p \in Process |-> IF phase[p] \in Writing THEN work[p].book ELSE Absent]

(* The files are written as InventoryCache says, so that they are Paired.  *)
Files == INSTANCE InventoryCache WITH writing <- WritingOf, mine <- BookOf

FilesArePaired == Files!Paired

FilesAreCache == Files!Spec

(* Every run ends, whatever fails, changes or is being written meanwhile.  *)
EveryRunEnds == \A p \in Process : []<>(phase[p] = "idle")
=============================================================================
