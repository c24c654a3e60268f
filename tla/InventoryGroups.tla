---------------------------- MODULE InventoryGroups ----------------------------
(* What ops/ansible/ec2.py makes of one resource of the cloud: whether the *)
(* settings select it, the name it gets as an Ansible host, the groups     *)
(* that list it, and the "book" they are entered in.                       *)
(*                                                                         *)
(* A resource is a record: kind, id, region, zone (None for a replication  *)
(* group), state ("available" for the managed services), attrs (its        *)
(* attributes that are addresses or names; one that is None is not in the  *)
(* domain), vpc (subnet_id is set), labels (the pairs <<by, value>> that   *)
(* "group_by_<by>" groups by), tags (a function) and nodes.  The name of a *)
(* group is a tuple that stands for its string, <<by, value>> for one with *)
(* the prefix of "by".  Groups named by a bare identifier, a region, a     *)
(* zone, an image, an account or a global word share the names <<x>>.      *)
EXTENDS Naturals, Sequences, SequencesExt

CONSTANTS
    None,        \* Python's None
    ToSafe,      \* to_safe on the names it changes
    ToLower,     \* str.lower on the names it changes
    Csv,         \* the values in a tag value that has commas
    Substring,   \* pairs of different names, the first a part of the second
    AwsRegions   \* ec2.regions(), in order

Safe(x) == IF x \in DOMAIN ToSafe THEN ToSafe[x] ELSE x
Lower(x) == IF x \in DOMAIN ToLower THEN ToLower[x] ELSE x

\* d[x] = v
With(d, x, v) == [y \in DOMAIN d \cup {x} |-> IF y = x THEN v ELSE d[y]]

\* The elements of a list that are in a set, in order.
Chosen(list, S) ==
    LET chosen[i \in 0..Len(list)] ==
            IF i = 0 THEN <<>>
            ELSE IF list[i] \in S THEN Append(chosen[i - 1], list[i]) ELSE chosen[i - 1]
    IN  chosen[Len(list)]

-----------------------------------------------------------------------------
(* Settings, as read_settings leaves them.                                 *)
ValidStates == {"pending", "running", "shutting-down", "terminated", "stopping", "stopped"}

\* regions_exclude is searched as a string, not as a list.
Regions(s) ==
    IF s.regions = <<"all">> THEN Chosen(AwsRegions, ToSet(AwsRegions) \ s.excluded)
    ELSE IF "auto" \in ToSet(s.regions) THEN <<s.envRegion>>
    ELSE s.regions

InstanceStates(s) ==
    IF "instance" \in s.all THEN ValidStates ELSE s.states \cap ValidStates

\* A filter set is a sequence of options <<key, value>>; one without "=" or
\* without a key is ignored, and of two with one key the last one counts.
FilterOf(options) ==
    LET wellformed == SelectSeq(options, LAMBDA o : Len(o) = 2 /\ o[1] # None)
        LastOf(k) == wellformed[SelectLastInSeq(wellformed, LAMBDA o : o[1] = k)][2]
    IN  [k \in {o[1] : o \in ToSet(wellformed)} |-> LastOf(k)]

Filters(s) == [i \in DOMAIN s.filterSets |-> FilterOf(s.filterSets[i])]

SettingsRejected(s) == s.stack /\ \E i \in DOMAIN s.filterSets : Len(s.filterSets[i]) > 1

-----------------------------------------------------------------------------
(* Filters.  EC2 applies them itself; tags are all that the script compares*)
(* for the managed services.                                               *)
HasTag(tags, k, v) == k \in DOMAIN tags /\ tags[k] = v

ServerMatches(filter, r) ==
    \A k \in DOMAIN filter :
        IF k[1] = "tag" THEN HasTag(r.tags, k[2], filter[k]) ELSE <<k[2], filter[k]>> \in r.labels

\* The listings of a region's instances, a call for each: one with all filters
\* merged, one for each set, or one without filters.
Merged(filters) == FoldLeft(LAMBDA a, b : b @@ a, <<>>, filters)

Listings(s) ==
    IF Filters(s) = <<>> \/ s.stack THEN <<Merged(Filters(s))>> ELSE Filters(s)

ListedBy(filter, instances) ==
    Chosen(instances, {r \in ToSet(instances) : ServerMatches(filter, r)})

\* The filters on tags, as triples of the set they are in, tag and value.
TagFilters(s) ==
    LET filters == Filters(s)
    IN  UNION {{<<i, k[2], filters[i][k]>> : k \in {x \in DOMAIN filters[i] : x[1] = "tag"}} :
                  i \in DOMAIN filters}

TagsMatchFilters(s, tags) ==
    \/ Filters(s) = <<>>
    \/ s.stack /\ \A f \in TagFilters(s) : HasTag(tags, f[2], f[3])
    \/ ~s.stack /\ \E f \in TagFilters(s) : HasTag(tags, f[2], f[3])

\* A filter set that names tags only.
OnTags(filter) == \A k \in DOMAIN filter : k[1] = "tag"

\* "in" on two strings.  A cluster for which something was raised before a
\* filter matched matches none: its tags could not be read, or a key was come to
\* that has no ":", which it is at the latest in the first set not on tags.
DbClusterMatches(s, r, raised) ==
    \/ Filters(s) = <<>>
    \/ /\ r.id \notin raised
       /\ \E f \in TagFilters(s) :
             /\ \A i \in 1..(f[1] - 1) : OnTags(Filters(s)[i])
             /\ f[2] \in DOMAIN r.tags
             /\ r.tags[f[2]] = f[3] \/ <<r.tags[f[2]], f[3]>> \in Substring

-----------------------------------------------------------------------------
(* Host names.                                                             *)
Attr(r, a) == IF a \in DOMAIN r.attrs THEN r.attrs[a] ELSE None

\* Memcached clusters have a configuration endpoint, Redis ones a single node.
IsRedis(r) == r.kind = "cluster" /\ Attr(r, "configuration") = None

Dest(s, r) ==
    LET var == IF r.vpc THEN s.vpcDestination ELSE s.destination
    IN  CASE r.kind # "instance" -> IF IsRedis(r) THEN r.nodes[1].dest
                                    ELSE IF r.kind = "cluster" THEN r.attrs["configuration"]
                                    ELSE Attr(r, "endpoint")
          [] Attr(r, var) # None -> r.attrs[var]
          [] OTHER -> IF var \in DOMAIN r.tags THEN r.tags[var] ELSE None

\* The Route53 names of the instance's addresses, of the records fetched.
Route53Names(records, r) ==
    {x[2] : x \in {y \in records : \E a \in DOMAIN r.attrs : r.attrs[a] = y[1]}}

NiceName(s, r) ==
    IF s.hostname[1] = "tag"
    THEN IF s.hostname[2] \in DOMAIN r.tags THEN r.tags[s.hostname[2]] ELSE None
    ELSE Attr(r, s.hostname[2])

\* The names of an instance come out of a set: any of those in the domain
\* may be the last one.  Only they keep their dots.
HostnamesOf(s, records, r) ==
    LET names == IF r.kind = "instance" /\ s.route53
                 THEN Route53Names(records, r) \cap s.domain ELSE {}
        nice == NiceName(s, r)
    IN  CASE r.kind \notin {"instance", "database"} -> {Dest(s, r)}
          [] names # {} -> {Lower(x) : x \in names}
          [] nice \notin {None, ""} -> {Lower(IF nice \in s.domain /\ r.kind = "instance"
                                   THEN nice ELSE Safe(nice))}
          [] OTHER -> {IF r.kind = "instance" THEN Dest(s, r) ELSE Lower(Safe(Dest(s, r)))}

\* The state the settings ask for and an address, and the patterns for hosts.
Gathered(s, r) ==
    /\ IF r.kind = "instance" THEN r.state \in InstanceStates(s)
       ELSE r.kind \in s.all \/ r.state = "available"
    /\ Dest(s, r) # None /\ (Dest(s, r) = "" => r.kind = "replication")

Shown(s, r, host) == r.kind = "instance" => host \in s.shown
-----------------------------------------------------------------------------
(* The groups a resource is listed in: the group, the element pushed (the  *)
(* host, or an identifier), and with nested groups the pairs <<parent,     *)
(* child>> of push_group.                                                  *)
All(by) == <<"all", by>>
Under(parent, group) == [group |-> group, nests |-> {<<parent, group>>}]

ByRegion(s, r) ==
    IF "region" \in s.groupBy /\ ~IsRedis(r)
    THEN {Under(All("region"), <<r.region>>)} ELSE {}

ByZone(s, r) ==
    IF "availability_zone" \in s.groupBy /\ ~IsRedis(r) /\ r.kind # "replication"
    THEN {[group |-> <<r.zone>>,
           nests |-> {<<All("availability_zone"), <<r.zone>>>>} \cup
                     {<<x.group, <<r.zone>>>> : x \in ByRegion(s, r)}]}
    ELSE {}

\* What each kind of resource is grouped by, apart from place and tags.
LabelsOf(r) ==
    CASE r.kind = "instance" ->
            {"ami_id", "instance_type", "instance_state", "platform", "key_pair",
             "vpc_id", "security_group", "aws_account"}
      [] r.kind = "database" ->
            {"instance_type", "vpc_id", "security_group", "rds_engine", "rds_parameter_group"}
      [] r.kind = "cluster" ->
            {"elasticache_parameter_group", "elasticache_replication_group"} \cup
            IF IsRedis(r) THEN {} ELSE {"instance_type", "security_group", "elasticache_engine"}
      [] r.kind = "node" ->
            {"instance_type", "security_group", "elasticache_engine", "elasticache_cluster"}
      [] r.kind = "replication" -> {"elasticache_engine"}

\* The group of a label: that of an image or an account is the bare name.
GroupOf(label) == IF label[1] \in {"ami_id", "aws_account"} THEN <<label[2]>> ELSE label

\* Slip: no group is nested under its own name.
ChildOfAnyKind(r, label) == <<label[2]>>

\* A cluster or replication group is nested without the group's prefix; the
\* nodes of a cluster are not nested at all.
ChildOf(r, label) ==
    IF r.kind \in {"cluster", "replication"}
       /\ label[1] \notin {"instance_type", "security_group"} THEN <<label[2]>> ELSE GroupOf(label)

ByLabel(s, r) ==
    LET labels == {<<l[1], Safe(l[2])>> : l \in {x \in r.labels : x[1] \in LabelsOf(r) \cap s.groupBy}}
    IN  {[group |-> GroupOf(l),
          nests |-> IF l[1] = "elasticache_cluster" THEN {}
                    ELSE {<<All(l[1]), ChildOf(r, l)>>}] : l \in labels}

TagValues(s, v) == IF s.expandCsv /\ v \in DOMAIN Csv THEN Csv[v] ELSE {v}
TagPairs(s, r) == UNION {{<<k, v>> : v \in TagValues(s, r.tags[k])} : k \in DOMAIN r.tags}

\* The group of tag k with value v; it is nested under that of the tag.
OneTag(k, v) ==
    LET key == <<"tag", Safe(k)>>
        group == IF v = None THEN key ELSE <<"tag", Safe(k), Safe(v)>>
    IN  [group |-> group,
         nests |-> {<<All("tag_keys"), key>>} \cup IF v = None THEN {} ELSE {<<key, group>>}]

ByTag(s, r) ==
    IF r.kind \notin {"instance", "database"} THEN {}
    ELSE {OneTag(x[1], x[2]) : x \in IF "tag_keys" \in s.groupBy THEN TagPairs(s, r) ELSE {}}
         \cup IF "tag_none" \in s.groupBy /\ DOMAIN r.tags = {}
              THEN {Under(All("tag_keys"), <<"tag_none">>)} ELSE {}

ByRoute53Name(s, r, records) ==
    IF s.route53 /\ "route53_names" \in s.groupBy /\ r.kind = "instance"
    THEN {Under(All("route53_names"), <<name>>) : name \in Route53Names(records, r)} ELSE {}

\* The tag of all of a kind.  It lists clusters and replication groups by
\* their identifiers, the latter in the parent of their nested groups.
GlobalTag(r) ==
    CASE r.kind = "instance" -> <<"ec2">>
      [] r.kind = "database" -> <<"rds">>
      [] r.kind = "cluster" -> <<"elasticache_clusters">>
      [] r.kind = "node" -> <<"elasticache_nodes">>
      [] r.kind = "replication" -> All("elasticache_replication_group")

ListsIdentifiers(group) == group \in {<<"elasticache_clusters">>, All("elasticache_replication_group")}

\* All pushes for resource r under the name "host".
Pushes(s, records, r, host) ==
    {[group |-> m.group, element |-> host, nests |-> m.nests] :
        m \in ByRegion(s, r) \cup ByZone(s, r) \cup ByLabel(s, r) \cup ByTag(s, r)
              \cup ByRoute53Name(s, r, records)}
    \cup {[group |-> GlobalTag(r), nests |-> {},
           element |-> IF ListsIdentifiers(GlobalTag(r)) THEN r.id ELSE host]}

-----------------------------------------------------------------------------
(* The book of a run: self.inventory ("groups", with the "hostvars" of     *)
(* each host, and "db_clusters") and self.index.  "seen" is no state of    *)
(* the program: what was entered, as it was read, and under which name.    *)
EmptyBook == [groups |-> <<>>, hostvars |-> <<>>, dbClusters |-> None, index |-> <<>>, seen |-> {}]

NoGroup == [hosts |-> {}, children |-> {}]
GroupIn(groups, g) == IF g \in DOMAIN groups THEN groups[g] ELSE NoGroup

\* Slip: a push starts the group's list again.
PushAllAnew(groups, pushes, nests) ==
    [g \in DOMAIN groups \cup {p.group : p \in pushes} \cup {x[1] : x \in nests} |->
        [hosts |-> IF \E p \in pushes : p.group = g
                   THEN {p.element : p \in {q \in pushes : q.group = g}} ELSE GroupIn(groups, g).hosts,
         children |-> GroupIn(groups, g).children \cup {x[2] : x \in {y \in nests : y[1] = g}}]]

\* push and push_group, for all groups of a resource at once.
PushAll(groups, pushes, nests) ==
    [g \in DOMAIN groups \cup {p.group : p \in pushes} \cup {x[1] : x \in nests} |->
        [hosts |-> GroupIn(groups, g).hosts \cup {p.element : p \in {q \in pushes : q.group = g}},
         children |-> GroupIn(groups, g).children \cup {x[2] : x \in {y \in nests : y[1] = g}}]]

Nests(s, r, pushes) ==
    IF ~s.nested THEN {}
    ELSE (UNION {p.nests : p \in pushes}) \cup
         IF "instance_id" \in s.groupBy THEN {<<All("instance_id"), <<r.id>>>>} ELSE {}

\* The group of one: whatever had the identifier's name is replaced.
AssignIdentifier(s, groups, r, host) ==
    IF "instance_id" \in s.groupBy
    THEN With(groups, <<r.id>>, [hosts |-> {host}, children |-> {}])
    ELSE groups

\* get_host_info_dict: the values of the resource itself.
InfoOf(r) == [id |-> r.id, tags |-> r.tags]

\* What hostvars holds: ansible_host is set for instances and databases only.
VarsOf(s, r) ==
    [id |-> r.id, tags |-> r.tags,
     ansible_host |-> IF r.kind \in {"instance", "database"} THEN Dest(s, r) ELSE None]

\* Slip: the index keeps the first resource of a name, the variables the last.
EnterOnce(s, records, book, r, host) ==
    LET pushes == Pushes(s, records, r, host)
    IN  [book EXCEPT
           !.groups = PushAll(AssignIdentifier(s, @, r, host), pushes, Nests(s, r, pushes)),
           !.hostvars = With(@, host, {VarsOf(s, r)}),
           !.index = @ @@ (host :> <<r.region, r.id>>),
           !.seen = @ \cup {[resource |-> r, host |-> host, records |-> records]}]

\* Slip: the index is forgotten.
EnterUnindexed(s, records, book, r, host) ==
    LET pushes == Pushes(s, records, r, host)
    IN  [book EXCEPT
           !.groups = PushAll(AssignIdentifier(s, @, r, host), pushes, Nests(s, r, pushes)),
           !.hostvars = With(@, host, {VarsOf(s, r)}),
           !.seen = @ \cup {[resource |-> r, host |-> host, records |-> records]}]

\* add_instance and its siblings, for one name.  A node's variables are added
\* to those its address has, any other's replace them.
Enter(s, records, book, r, host) ==
    LET pushes == Pushes(s, records, r, host)
        vars == IF r.kind = "node" /\ host \in DOMAIN book.hostvars
                THEN book.hostvars[host] \cup {VarsOf(s, r)} ELSE {VarsOf(s, r)}
    IN  [book EXCEPT
           !.groups = PushAll(AssignIdentifier(s, @, r, host), pushes, Nests(s, r, pushes)),
           !.hostvars = With(@, host, vars),
           !.index = With(@, host, <<r.region, r.id>>),
           !.seen = @ \cup {[resource |-> r, host |-> host, records |-> records]}]

\* The books that entering a resource can lead to, one for each name.
Added(s, records, book, r) ==
    IF ~Gathered(s, r) THEN {book}
    ELSE {IF Shown(s, r, h) THEN Enter(s, records, book, r, h) ELSE book :
             h \in HostnamesOf(s, records, r)}

AddedAll(s, records, book, found) ==
    LET books[i \in 0..Len(found)] ==
            IF i = 0 THEN {book} ELSE UNION {Added(s, records, b, found[i]) : b \in books[i - 1]}
    IN  books[Len(found)]

\* A cluster is followed by its nodes.
NodesOf(cluster) ==
    [i \in DOMAIN cluster.nodes |->
        [cluster EXCEPT !.kind = "node", !.id = cluster.nodes[i].id,
                        !.state = cluster.nodes[i].state,
                        !.attrs = IF cluster.nodes[i].dest = None THEN <<>>
                                  ELSE [a \in {"endpoint"} |-> cluster.nodes[i].dest]]]

WithNodes(s, clusters) ==
    FlattenSeq([i \in DOMAIN clusters |->
                   IF Gathered(s, clusters[i]) THEN <<clusters[i]>> \o NodesOf(clusters[i]) ELSE <<>>])
=============================================================================
