------------------------------ MODULE MCDoors ------------------------------
EXTENDS Doors

MCLists == {NoList, In("sales", {"view", "create"}), In("users", {"manage", "delete"})}
MCStaff == {<<"admin", "admin", r>> : r \in UserRole}
=============================================================================
