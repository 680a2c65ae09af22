------------------------------ MODULE MCIncidents ------------------------------
(* Incidents for TLC: an office with two communities.                       *)
EXTENDS Incidents

CONSTANTS flat, loft, shop, house, arcade, office, res, adm, inv

MCOfficeOf == [c \in {house, arcade} |-> office]
MCCommunityOf == [t \in Units |-> IF t = shop THEN arcade ELSE house]
MCFirstAdmin == [o \in {office} |-> adm]
MCInvitedTo == [i \in {inv} |-> house]
MCMemberships == {[unit |-> flat, user |-> res, role |-> "owner"],
                  [unit |-> flat, user |-> res, role |-> "tenant"]}
=============================================================================
