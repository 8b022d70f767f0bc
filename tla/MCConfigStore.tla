---------------------------- MODULE MCConfigStore ----------------------------
(* An instance of ConfigStore for TLC. *)
EXTENDS ConfigStore

Office == [name |-> "office", host |-> "gw"]
Second == [name |-> "Profile 2", host |-> "gw2"]

\* "Profile 2" is also what New Profile calls the second.
MCTyped == {Office, Second}
MCStarter == <<[name |-> "Profile 1", host |-> ""], [name |-> "Profile 2", host |-> ""]>>
MCInitialFiles ==
  {Unreadable("absent"), Unreadable("damaged"), Config(<<>>, "office"),
   Config(<<Office, Second>>, "Profile 2")}
=============================================================================
