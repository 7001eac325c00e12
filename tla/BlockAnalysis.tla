--------------------------- MODULE BlockAnalysis ---------------------------
(***************************************************************************)
(* block_analysis.py: the relations and claims that the broadcaster        *)
(* derives from the links in the data of all blocks.                       *)
(*                                                                         *)
(* The data of a block is the sequence of its links that are defined, each *)
(* with the path of keys to it; claimedBy and the channels that only an    *)
(* IoArray has are kept apart.  Other data has no part in it.              *)
(***************************************************************************)
EXTENDS Naturals, Sequences, FiniteSets, SequencesExt

CONSTANTS
    BlockList,      \* the blocks, in the order in which they were read
    Ignored,        \* of them those of IGNORED_RELATION_TYPES
    IoArrays,       \* of them those with channels
    Channels,       \* bound: channels of an IoArray
    Data            \* bound: from blocks to the sets of link sequences they may have

IgnoredFields == {"claimedBy", "oneWireBusId", "clients"}
InvertedFields == {"inputId", "referenceId", "sensorId", "analog", "digital"}

Nobody == "nobody"
BlockIds == Range(BlockList)

(* Blocks differ by their ids; a link that is defined is in a field, and has *)
(* an id, be it of a block or not.                                           *)
ASSUME AnalysisAssumption ==
    /\ BlockList \in Seq(BlockIds) /\ IsInjective(BlockList) /\ Nobody \notin BlockIds
    /\ IoArrays \subseteq BlockIds /\ Channels \in Nat
    /\ \A b \in BlockIds : \A given \in Data[b] :
        /\ given \in Seq(Range(given))
        /\ \A l \in Range(given) : l[1] \in Seq(STRING) \ {<<>>} /\ l[2] # Nobody

VARIABLES
    links,          \* the data of the blocks: sequences of <<path, block>>
    claimedBy,      \* of blocks
    channels,       \* the claims of the channels of IoArrays
    analysis        \* relations and claims of the state event

analysisVars == <<links, claimedBy, channels, analysis>>

Relation(source, target, path) == [source |-> source, target |-> target, relation |-> path, claimed |-> FALSE]
Claim(source, target, intermediate) == [source |-> source, target |-> target, intermediate |-> intermediate]

NoAnalysis == [relations |-> <<>>, claims |-> <<>>]

AnalysisTypeOK ==
    /\ \A b \in BlockIds : claimedBy[b] \in BlockIds \cup {Nobody}
    /\ \A r \in Range(analysis.relations) : {r.source, r.target} \cap BlockIds # {}
    /\ \A c \in Range(analysis.claims) : {c.source, c.target} \cup Range(c.intermediate) \subseteq BlockIds

-----------------------------------------------------------------------------
(* _find_nested_relations(): a path ends where a key is ignored, and its     *)
(* first key tells whether the relation is inverted.                         *)
MutantLastKeyInverts(block, l) ==
    IF Range(l[1]) \cap IgnoredFields # {} THEN <<>>
    ELSE IF Last(l[1]) \in InvertedFields THEN <<Relation(l[2], block, l[1])>>
    ELSE <<Relation(block, l[2], l[1])>>
NestedRelation(block, l) ==
    IF Range(l[1]) \cap IgnoredFields # {} THEN <<>>
    ELSE IF Head(l[1]) \in InvertedFields THEN <<Relation(l[2], block, l[1])>>
    ELSE <<Relation(block, l[2], l[1])>>

NestedRelations(block) ==
    IF block \in Ignored THEN <<>>
    ELSE FlattenSeq([i \in DOMAIN links[block] |-> NestedRelation(block, links[block][i])])

(* The first relation from the claimer of a block to the block is claimed. *)
Matching(relations, block) ==
    {i \in DOMAIN relations : relations[i].target = block /\ relations[i].source = claimedBy[block]}
Claimed(relations, block) ==
    IF claimedBy[block] = Nobody \/ Matching(relations, block) = {} THEN relations
    ELSE [relations EXCEPT ![Min(Matching(relations, block))].claimed = TRUE]

CalculateRelations ==
    LET claimed[n \in 0..Len(BlockList)] ==
            IF n = 0 THEN FlattenSeq([i \in DOMAIN BlockList |-> NestedRelations(BlockList[i])])
            ELSE Claimed(claimed[n - 1], BlockList[n])
    IN  claimed[Len(BlockList)]

Claims == [source : BlockIds, target : BlockIds, intermediate : Seq(BlockIds)]

(* extended_claim(): up to a block that nobody claims, or around once *)
MutantClaimsShifted(claim) ==
    LET extended[c \in Claims] ==
            LET grandSource == claimedBy[c.source]
            IN  IF grandSource = Nobody \/ grandSource \in Range(c.intermediate) \cup {c.target} THEN c
                ELSE extended[Claim(grandSource, c.target, Append(c.intermediate, c.source))]
    IN  extended[claim]
ExtendedClaim(claim) ==
    LET extended[c \in Claims] ==
            LET grandSource == claimedBy[c.source]
            IN  IF grandSource = Nobody \/ grandSource \in Range(c.intermediate) THEN c
                ELSE extended[Claim(grandSource, c.target, Append(c.intermediate, c.source))]
    IN  extended[claim]

DirectClaim(source, target) == IF source = Nobody THEN <<>> ELSE <<Claim(source, target, <<>>)>>
ChannelClaims(block) ==
    IF block \in IoArrays
    THEN FlattenSeq([k \in DOMAIN channels[block] |-> DirectClaim(channels[block][k], block)])
    ELSE <<>>

CalculateClaims ==
    LET direct == FlattenSeq([i \in DOMAIN BlockList |-> DirectClaim(claimedBy[BlockList[i]], BlockList[i])])
                  \o FlattenSeq([i \in DOMAIN BlockList |-> ChannelClaims(BlockList[i])])
    IN  [i \in DOMAIN direct |-> ExtendedClaim(direct[i])]

AnalysisInit ==
    /\ links \in {l \in [BlockIds -> UNION Range(Data)] : \A b \in BlockIds : l[b] \in Data[b]}
    /\ claimedBy \in [BlockIds -> BlockIds \cup {Nobody}]
    /\ channels \in [IoArrays -> [1..Channels -> BlockIds \cup {Nobody}]]
    /\ analysis = NoAnalysis

(* Broadcaster.run() with the blocks it read *)
AnalysisNext ==
    /\ analysis = NoAnalysis
    /\ analysis' = [relations |-> CalculateRelations, claims |-> CalculateClaims]
    /\ UNCHANGED <<links, claimedBy, channels>>

-----------------------------------------------------------------------------
(* A claim leads from its target over what it says to its source, each       *)
(* claimed by the next and none of them twice, as far as claims go: to a     *)
(* block nobody claims, or to where a circle of claims begins again.         *)
Chain(c) == <<c.target>> \o c.intermediate \o <<c.source>>
FollowsClaims(c) ==
    /\ \A i \in 2..(Len(Chain(c)) - 1) : claimedBy[Chain(c)[i]] = Chain(c)[i + 1]
    /\ IsInjective(c.intermediate)
    /\ claimedBy[c.source] \in Range(c.intermediate) \cup {Nobody}

(* The links that count, and what each of them relates; the claims on blocks *)
(* and on channels: what is claimed, and by whom.                            *)
CountedLinks ==
    {c \in UNION {{b} \X DOMAIN links[b] : b \in BlockIds \ Ignored} :
        Range(links[c[1]][c[2]][1]) \cap IgnoredFields = {}}
Related(c) ==
    LET l == links[c[1]][c[2]]
    IN  IF Head(l[1]) \in InvertedFields THEN <<l[2], c[1], l[1]>> ELSE <<c[1], l[2], l[1]>>
ClaimedBlocks == {b \in BlockIds : claimedBy[b] # Nobody}
ClaimedChannels == {c \in IoArrays \X (1..Channels) : channels[c[1]][c[2]] # Nobody}
Begins(c) == <<Chain(c)[1], Chain(c)[2]>>

(* Every claim and every link that counts is in the analysis, and once; a    *)
(* claim is followed from whom it names to its end.  A relation is marked as *)
(* claimed if it is of a claim, and one of those of each claim there is.     *)
AnalysedExactly ==
    AnalysisNext =>
        LET claims == analysis'.claims
            relations == analysis'.relations
            whole == Cardinality(ClaimedBlocks)
            marked(b) == {i \in DOMAIN relations : relations[i].claimed /\ relations[i].target = b}
        IN  /\ \A i \in DOMAIN claims : FollowsClaims(claims[i])
            /\ Len(claims) = whole + Cardinality(ClaimedChannels)
            /\ {Begins(claims[i]) : i \in 1..whole} = {<<b, claimedBy[b]>> : b \in ClaimedBlocks}
            /\ {Begins(claims[i]) : i \in (whole + 1)..Len(claims)}
                    = {<<c[1], channels[c[1]][c[2]]>> : c \in ClaimedChannels}
            /\ Len(relations) = Cardinality(CountedLinks)
            /\ {<<r.source, r.target, r.relation>> : r \in Range(relations)} = {Related(c) : c \in CountedLinks}
            /\ \A r \in Range(relations) : r.claimed => r.target \in BlockIds /\ r.source = claimedBy[r.target]
            /\ \A b \in BlockIds :
                /\ Cardinality(marked(b)) <= 1
                /\ Matching(relations, b) # {} => marked(b) # {}
=============================================================================
