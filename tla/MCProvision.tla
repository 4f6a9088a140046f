----------------------------- MODULE MCProvision -----------------------------
(* Provision of every driver, with two versions and two settings.          *)
EXTENDS Provision

AllDrivers == {"postgres", "mariadb", "ferret"}
OnlyPostgres == {"postgres"}
=============================================================================
