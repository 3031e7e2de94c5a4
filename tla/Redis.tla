------------------------------- MODULE Redis -------------------------------
(***************************************************************************)
(* The Redis commands the controller issues (redis/redis.go).  A database  *)
(* of sets is a function from keys to sets of members; Redis does not keep *)
(* empty sets, so {} is an absent key.  Every wrapper method of the client *)
(* sends one command, which Redis runs atomically, and only logs an error. *)
(***************************************************************************)

SADD(key, member)       == [op |-> "SADD", key |-> key, arg |-> member]
SREM(key, member)       == [op |-> "SREM", key |-> key, arg |-> member]
SUNIONSTORE(dest, src)  == [op |-> "SUNIONSTORE", key |-> dest, arg |-> src]
DEL(key)                == [op |-> "DEL", key |-> key, arg |-> key]

(* The commands over given keys and members. *)
Command(keys, members) ==
    [op : {"SADD", "SREM"}, key : keys, arg : members]
        \cup [op : {"SUNIONSTORE", "DEL"}, key : keys, arg : keys]

(* The database after one command.  SUNIONSTORE replaces the destination, *)
(* and so deletes it when the source is absent.                           *)
Apply(db, c) ==
    [db EXCEPT ![c.key] = CASE c.op = "SADD"        -> @ \cup {c.arg}
                            [] c.op = "SREM"        -> @ \ {c.arg}
                            [] c.op = "SUNIONSTORE" -> db[c.arg]
                            [] c.op = "DEL"         -> {}]

FlushAll(db) == [k \in DOMAIN db |-> {}]
=============================================================================
