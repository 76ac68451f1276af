---------------------------- MODULE Configuration ----------------------------
(***************************************************************************)
(* What the two programs read from their config.json: loadMqttSources of   *)
(* the Producer (config_loader.cpp) and, of the Consumer, main() up to its *)
(* connections with the two FromJson functions.  The Producer refuses a    *)
(* required member that is missing or of another type; the Consumer takes  *)
(* its default instead.                                                    *)
(*                                                                         *)
(* An object is a function from the names of its members to values, and a  *)
(* value is a record with one field, named for its type as simdjson has it.*)
(* A file that is not found, cannot be read or is not JSON is Unreadable;  *)
(* the search for it along the directories is left out.                    *)
(***************************************************************************)
EXTENDS Integers, Sequences

CONSTANT IntRange  \* how many values an int has: 2^32

ASSUME IntRangeAssumption == IntRange \in Nat \ {0} /\ IntRange % 2 = 0

Object(members) == [object |-> members]
Array(elements) == [array |-> elements]
Text(t)         == [string |-> t]
Number(n)       == [int64 |-> n]
Boolean(b)      == [bool |-> b]

Unreadable == [file |-> Text("")]

Has(object, member, type) ==
  member \in DOMAIN object /\ type \in DOMAIN object[member]

\* static_cast<int> of a 64-bit number.
ToInt(n) == ((n + IntRange \div 2) % IntRange) - IntRange \div 2

\* Mutant of StringOr: a member that is there is taken to be of the right type.
StringOrEmpty(object, member, fallback) ==
  IF Has(object, member, "string") THEN object[member].string
  ELSE IF member \in DOMAIN object THEN "" ELSE fallback

StringOr(object, member, fallback) ==
  IF Has(object, member, "string") THEN object[member].string ELSE fallback

-----------------------------------------------------------------------------
(* The Producer *)

Credentials == {"host", "username", "password"}

\* Each member is read in a try block of its own; any failure only clears a flag.
Complete(object, strings) ==
  /\ \A s \in strings : Has(object, s, "string")
  /\ Has(object, "port", "int64")

LavinMQSettings(object) ==
  [host        |-> object["host"].string,
   port        |-> ToInt(object["port"].int64),
   vhost       |-> StringOr(object, "vhost", "/"),
   exchange    |-> StringOr(object, "exchange", "amq.topic"),
   routing_key |-> StringOr(object, "routing_key", "things.data")]

\* Mutant of ValidSources: the first source that is not complete ends the loop.
ValidSourcesUntilBad(entries) ==
  SubSeq(entries, 1,
         CHOOSE n \in 0..Len(entries) :
           /\ \A i \in 1..n : Complete(entries[i], Credentials \cup {"topic"})
           /\ n = Len(entries) \/ ~Complete(entries[n + 1], Credentials \cup {"topic"}))

\* An entry that is not complete is left out.
ValidSources(entries) ==
  LET Valid(entry) == Complete(entry, Credentials \cup {"topic"})
  IN SelectSeq(entries, Valid)

\* loadMqttSources() returns true: main() goes on.
LoadsSources(file) ==
  /\ Has(file, "lavinmq", "object")
  /\ Complete(file["lavinmq"].object, Credentials)
  /\ Has(file, "mqtt_sources", "array")
  /\ ValidSources(file["mqtt_sources"].array) # <<>>

-----------------------------------------------------------------------------
(* The Consumer *)

\* get_uint64 refuses a negative number, and the default is taken.
PortOr(object, fallback) ==
  IF Has(object, "port", "int64") /\ object["port"].int64 >= 0
    THEN ToInt(object["port"].int64) ELSE fallback

FromJson(object) ==
  [host         |-> StringOr(object, "host", "localhost"),
   port         |-> PortOr(object, 5672),
   virtual_host |-> StringOr(object, "virtual_host", "/"),
   tls          |-> Has(object, "tls", "bool") /\ object["tls"].bool,
   queue_name   |-> StringOr(object, "queue_name", "data_transfer")]

\* main() returns before its first connection, or between the two.
HasSection(file, section) == Has(file, section, "object")

=============================================================================
